--------------------------- MODULE SessionProofs ----------------------------
(***************************************************************************)
(* Proofs about the two programs together.  A step of Session is a step of  *)
(* Sender and a step of Reader, each with the other as its environment; so  *)
(* the inductive invariants of SenderProofs and of ReaderProofs hold here,  *)
(* and what the two programs promise together follows from both.           *)
(***************************************************************************)
EXTENDS SessionProperties, FiniteSetTheorems, TLAPS

\* The two programs once more, with what is proved about each.
SP == INSTANCE SenderProofs WITH reader_busy <- r_main_pc \in {"gather", "sum", "write", "say"}
RP == INSTANCE ReaderProofs WITH
  peer_pc <- PeerPc, peer_left <- PeerLeft, peer_sent <- sent,
  peer_n <- IF PeerPc = "told" THEN readed_bytes ELSE 0

USE SessionAssumption

LEMMA Constants == SP!SenderAssumption /\ RP!ReaderAssumption
  BY DEF SP!SenderAssumption, RP!ReaderAssumption

-----------------------------------------------------------------------------
(* S and SP are the same sender, R and RP the same reader. *)

LEMMA SameThread == S!ReaderThread => SP!ReaderThread
  <1> USE DEF S!RT, SP!RT, S!swapVars, SP!swapVars, S!SWAP_BUF_SIZE, SP!SWAP_BUF_SIZE,
              S!NextBuf, SP!NextBuf, S!Buf, SP!Buf
  <1>1. S!RT_SetAll => SP!RT_SetAll
    BY DEF S!RT_SetAll, SP!RT_SetAll
  <1>2. S!RT_WaitFree => SP!RT_WaitFree
    BY DEF S!RT_WaitFree, SP!RT_WaitFree
  <1>3. S!RT_Claim => SP!RT_Claim
    BY DEF S!RT_Claim, SP!RT_Claim
  <1>4. S!RT_Read => SP!RT_Read
    BY DEF S!RT_Read, SP!RT_Read
  <1>5. S!RT_SetActive => SP!RT_SetActive
    BY DEF S!RT_SetActive, SP!RT_SetActive
  <1>6. S!RT_Publish => SP!RT_Publish
    BY DEF S!RT_Publish, SP!RT_Publish
  <1> QED BY <1>1, <1>2, <1>3, <1>4, <1>5, <1>6
          DEF S!ReaderThread, SP!ReaderThread, S!mainVars, SP!mainVars, S!mainData, SP!mainData,
              S!cmdVars, SP!cmdVars, S!childVars, SP!childVars, S!peerVars, SP!peerVars,
              S!chainVars, SP!chainVars

LEMMA SameExited == S!Exited = SP!Exited /\ S!Reaped = SP!Reaped /\ S!WaitCount = SP!WaitCount
  <1>1. {i \in S!Child : child_pc[i] = "exit"} = {i \in SP!Child : child_pc[i] = "exit"}
    BY DEF S!Child, SP!Child
  <1>2. S!Exited = SP!Exited
    BY <1>1, Zenon DEF S!Exited, SP!Exited, S!Cardinality, SP!Cardinality
  <1>3. S!Reaped = SP!Reaped /\ S!WaitCount = SP!WaitCount
    BY DEF S!Reaped, SP!Reaped, S!WaitCount, SP!WaitCount
  <1> QED BY <1>2, <1>3

LEMMA SameMain == S!Main => SP!Main
  <1> USE DEF S!MainPc, SP!MainPc, S!mainData, SP!mainData, S!cmdVars, SP!cmdVars,
              S!D_master, SP!D_master
  <1>1. S!Main_Boot => SP!Main_Boot
    BY DEF S!Main_Boot, SP!Main_Boot
  <1>2. S!Main_ChainWait => SP!Main_ChainWait
    BY DEF S!Main_ChainWait, SP!Main_ChainWait
  <1>3. S!Main_TakeFull => SP!Main_TakeFull
    BY DEF S!Main_TakeFull, SP!Main_TakeFull
  <1>4. S!Main_GetBytes => SP!Main_GetBytes
    BY DEF S!Main_GetBytes, SP!Main_GetBytes
  <1>5. S!Main_SendSwapBuffer => SP!Main_SendSwapBuffer
    BY DEF S!Main_SendSwapBuffer, SP!Main_SendSwapBuffer, S!Child, SP!Child, S!Share, SP!Share
  <1>6. S!Main_WaitChilds => SP!Main_WaitChilds
    BY DEF S!Main_WaitChilds, SP!Main_WaitChilds
  <1>7. S!Main_FreeBuffer => SP!Main_FreeBuffer
    BY DEF S!Main_FreeBuffer, SP!Main_FreeBuffer, S!Advance, SP!Advance, S!NextBuf, SP!NextBuf
  <1>8. S!Main_SayReady => SP!Main_SayReady
    BY DEF S!Main_SayReady, SP!Main_SayReady
  <1>9. S!Main_QuitChilds => SP!Main_QuitChilds
    BY DEF S!Main_QuitChilds, SP!Main_QuitChilds, S!Child, SP!Child
  <1>10. S!Main_Wait => SP!Main_Wait
    BY SameExited DEF S!Main_Wait, SP!Main_Wait
  <1>11. S!Main_Cleanup => SP!Main_Cleanup
    BY SameExited DEF S!Main_Cleanup, SP!Main_Cleanup
  <1> QED BY <1>1, <1>2, <1>3, <1>4, <1>5, <1>6, <1>7, <1>8, <1>9, <1>10, <1>11
          DEF S!Main, SP!Main, S!rtVars, SP!rtVars, S!childVars, SP!childVars

LEMMA SameCutShort == S!Alarm \/ S!NoWaitSemop => SP!Alarm \/ SP!NoWaitSemop
  <1> USE DEF S!rtVars, SP!rtVars, S!swapVars, SP!swapVars, S!cmdVars, SP!cmdVars,
              S!childVars, SP!childVars, S!peerVars, SP!peerVars, S!chainVars, SP!chainVars,
              S!Asleep, SP!Asleep
  <1>1. S!LeaveSemop => SP!LeaveSemop
    BY DEF S!LeaveSemop, SP!LeaveSemop, S!AfterSemop, SP!AfterSemop, S!Advance, SP!Advance,
           S!NextBuf, SP!NextBuf
  <1>2. S!Alarm => SP!Alarm
    BY <1>1, SameExited DEF S!Alarm, SP!Alarm
  <1>3. S!NoWaitSemop => SP!NoWaitSemop
    BY <1>1 DEF S!NoWaitSemop, SP!NoWaitSemop, S!RT, SP!RT
  <1> QED BY <1>2, <1>3

LEMMA SameChild == ASSUME NEW i \in Child PROVE i \in SP!Child /\ (S!ChildStep(i) => SP!ChildStep(i))
  <1> USE DEF S!ChildPc, SP!ChildPc, S!cmdVars, SP!cmdVars, S!A_master, SP!A_master,
              S!Quiet, SP!Quiet, S!NoData, SP!NoData
  <1>1. S!Child_Ready(i) => SP!Child_Ready(i)
    BY DEF S!Child_Ready, SP!Child_Ready
  <1>2. S!Child_Command(i) => SP!Child_Command(i)
    BY DEF S!Child_Command, SP!Child_Command
  <1>3. S!Child_Announce(i) => SP!Child_Announce(i)
    BY DEF S!Child_Announce, SP!Child_Announce
  <1>4. S!Child_Words(i) => SP!Child_Words(i)
    BY DEF S!Child_Words, SP!Child_Words, S!SlicePos, SP!SlicePos
  <1>5. S!Child_Final(i) => SP!Child_Final(i)
    BY DEF S!Child_Final, SP!Child_Final
  <1>6. S!Child_Done(i) => SP!Child_Done(i)
    BY DEF S!Child_Done, SP!Child_Done
  <1>7. S!Child_Quit(i) => SP!Child_Quit(i)
    BY DEF S!Child_Quit, SP!Child_Quit
  <1> QED BY <1>1, <1>2, <1>3, <1>4, <1>5, <1>6, <1>7
          DEF S!ChildStep, SP!ChildStep, Child, S!Child, SP!Child, S!rtVars, SP!rtVars, S!swapVars,
              SP!swapVars, S!mainVars, SP!mainVars, S!mainData, SP!mainData, S!chainVars, SP!chainVars

LEMMA SameEnv ==
  /\ S!EnvMaster => SP!EnvMaster
  /\ \A i \in Child : S!EnvLink(i) => SP!EnvLink(i)
  /\ S!vars = SP!vars
  <1> USE DEF S!rtVars, SP!rtVars, S!swapVars, SP!swapVars, S!mainVars, SP!mainVars, S!mainData,
              SP!mainData, S!cmdVars, SP!cmdVars, S!childVars, SP!childVars, S!peerVars,
              SP!peerVars, S!chainVars, SP!chainVars
  <1>1. S!EnvMaster => SP!EnvMaster
    BY DEF S!EnvMaster, SP!EnvMaster
  <1>2. ASSUME NEW i \in Child PROVE S!EnvLink(i) => SP!EnvLink(i)
    BY DEF S!EnvLink, SP!EnvLink, S!Quiet, SP!Quiet, S!NoData, SP!NoData
  <1>3. S!vars = SP!vars
    BY DEF S!vars, SP!vars
  <1> QED BY <1>1, <1>2, <1>3

\* A step of S is a step of SP.
LEMMA SameSender == ASSUME [S!Next]_(S!vars) PROVE [SP!Next]_(SP!vars)
  <1>1. CASE UNCHANGED S!vars
    BY <1>1, SameEnv DEF S!vars, SP!vars, S!rtVars, SP!rtVars, S!swapVars, SP!swapVars,
       S!mainVars, SP!mainVars, S!mainData, SP!mainData, S!cmdVars, SP!cmdVars,
       S!childVars, SP!childVars, S!peerVars, SP!peerVars, S!chainVars, SP!chainVars
  <1>2. CASE S!Next
    BY <1>1, <1>2, SameThread, SameMain, SameCutShort, SameChild, SameEnv
       DEF S!Next, SP!Next, S!Ended, SP!Ended, Child
  <1> QED BY <1>1, <1>2

-----------------------------------------------------------------------------
(* Session is a sender with the reader program as its environment *)

\* Either the sender takes a step, or its environment does, or the handshake's last
\* SIGURG is taken, and with it one of the chain that is pending.
LEMMA ReaderMainStep == ASSUME ReaderMain PROVE [S!Next]_(S!vars)
  <1> USE DEF ReaderMain, ReaderProcess, senderVars, R!R_Main, R!R_MainPc, R!peerVars,
              R!r_childVars, R!chainVars
  <1> USE DEF S!vars, S!rtVars, S!swapVars, S!mainVars, S!mainData, S!cmdVars, S!childVars,
              S!peerVars, S!chainVars
  <1>1. CASE R!RM_ChainWait
    <2>1. S!EnvMaster
      BY <1>1 DEF R!RM_ChainWait, S!EnvMaster
    <2> QED BY <2>1 DEF S!Next
  <1>2. CASE R!RM_SayReady
    <2>1. S!EnvMaster
      BY <1>2 DEF R!RM_SayReady, S!EnvMaster
    <2> QED BY <2>1 DEF S!Next
  <1>3. CASE R!RM_Gather \/ R!RM_Sum \/ R!RM_Write
    BY <1>3 DEF R!RM_Gather, R!RM_Sum, R!AfterSum, R!RM_Write
  <1>4. CASE R!RM_QuitChilds \/ R!RM_Wait \/ R!RM_Cleanup
    BY <1>4 DEF R!RM_QuitChilds, R!RM_Wait, R!RM_Cleanup
  <1> QED BY <1>1, <1>2, <1>3, <1>4

\* A D that did not wait, of the reader's master, is nothing for the sender.
LEMMA ReaderCut ==
  ASSUME ReaderCutShort
  PROVE  /\ r_main_pc = "gather" /\ r_main_pc' = "sum" /\ need_write' = 0 /\ r_cut' = TRUE
         /\ UNCHANGED <<senderVars, lagging, lost, link, urg, reader_urg, adding, r_waits, out, short,
                        r_master, r_quit, r_child_pc, fdsi_n, slice_at, n_bytes_to_send>>
         /\ [S!Next]_(S!vars)
  <1>1. /\ r_main_pc = "gather" /\ r_main_pc' = "sum" /\ need_write' = 0 /\ r_cut' = TRUE
        /\ UNCHANGED <<senderVars, lagging, lost, link, urg, reader_urg, adding, r_waits, out, short,
                       r_master, r_quit, r_child_pc, fdsi_n, slice_at, n_bytes_to_send>>
    BY DEF ReaderCutShort, ReaderProcess, R!R_NoWaitSemop, R!R_MainPc, R!chainVars, R!r_childVars
  <1> QED BY <1>1 DEF senderVars, S!vars, S!rtVars, S!swapVars, S!mainVars, S!mainData, S!cmdVars,
                      S!childVars, S!peerVars, S!chainVars

LEMMA ReaderChildStep == ASSUME NEW i \in Child, ReaderChild(i) PROVE [S!Next]_(S!vars)
  <1> USE DEF ReaderChild, ReaderProcess, senderVars, R!R_ChildStep, R!R_ChildPc, R!peerVars,
              R!r_mainVars, R!chainVars
  <1> USE DEF S!vars, S!rtVars, S!swapVars, S!mainVars, S!mainData, S!cmdVars, S!childVars,
              S!peerVars, S!chainVars
  <1>1. CASE R!RC_Request(i) \/ R!RC_Words(i) \/ R!RC_Stop(i)
    <2>1. S!EnvLink(i)
      BY <1>1 DEF R!RC_Request, R!RC_Words, R!RC_Stop, S!EnvLink, R!Quiet, S!Quiet, R!NoData, S!NoData
    <2> QED BY <2>1 DEF S!Next, Child
  <1>2. CASE R!RC_Store(i) \/ R!RC_Post(i) \/ R!RC_Quit(i)
    BY <1>2 DEF R!RC_Store, R!RC_Post, R!RC_Quit
  <1> QED BY <1>1, <1>2

LEMMA SenderStep == ASSUME [Next]_vars, ~LastPid PROVE [S!Next]_(S!vars)
  <1>1. CASE UNCHANGED vars
    BY <1>1 DEF vars, senderVars, readerVars, S!vars, S!rtVars, S!swapVars, S!mainVars, S!mainData,
                S!cmdVars, S!childVars, S!peerVars, S!chainVars
  <1>2. CASE ReaderThread \/ SenderMain \/ CutShort
    BY <1>2 DEF ReaderThread, SenderMain, CutShort, SenderProcess, S!Next
  <1>3. ASSUME NEW i \in Child, SenderChild(i) PROVE S!Next
    BY <1>3 DEF SenderChild, SenderProcess, S!Next, Child
  <1> QED BY <1>1, <1>2, <1>3, ReaderMainStep, ReaderCut, ReaderChildStep DEF Next, Ended

\* And it is not forgotten.
LEMMA CutBack == ASSUME [Next]_vars, ~r_cut' PROVE ~r_cut /\ ~ReaderCutShort
  <1>1. ~ReaderCutShort
    BY ReaderCut
  <1> USE DEF SenderProcess, ReaderProcess, readerVars
  <1>2. CASE ReaderMain
    BY <1>1, <1>2 DEF ReaderMain, R!R_Main
  <1>3. CASE \E i \in Child : ReaderChild(i)
    BY <1>1, <1>3 DEF ReaderChild, R!R_ChildStep, R!r_mainVars
  <1>4. CASE LastPid \/ UNCHANGED vars
    BY <1>1, <1>4 DEF LastPid, vars
  <1>5. CASE ReaderThread \/ SenderMain \/ CutShort \/ \E i \in Child : SenderChild(i)
    BY <1>1, <1>5 DEF ReaderThread, SenderMain, CutShort, SenderChild
  <1> QED BY <1>1, <1>2, <1>3, <1>4, <1>5 DEF Next, Ended

\* What SenderProofs proves of the sender holds of the two programs together.
SenderInv == SP!TypeOK /\ SP!IInv /\ SP!ContentInv /\ SP!BoundaryInv

LEMMA InitSender == Init => S!Init /\ SenderInv
  <1> SUFFICES ASSUME Init PROVE S!Init /\ SenderInv
    OBVIOUS
  <1>1. S!Init
    BY DEF Init
  <1>2. SP!Init
    BY <1>1 DEF S!Init, SP!Init, S!Buf, SP!Buf, S!Child, SP!Child, S!Quiet, SP!Quiet, S!NoData, SP!NoData
  <1> QED BY <1>1, <1>2, Constants, SP!InitType, SP!InitInv, SP!InitContent, SP!InitBoundary
          DEF SenderInv

LEMMA SenderInvKept == ASSUME SenderInv, [Next]_vars PROVE SenderInv'
  <1>1. CASE LastPid
    <2>1. UNCHANGED <<SP!rtVars, SP!swapVars, SP!mainVars, SP!cmdVars, SP!childVars, link>>
      BY <1>1 DEF LastPid, senderVars, SP!rtVars, SP!swapVars, SP!mainVars, SP!mainData, SP!cmdVars,
                  SP!childVars
    <2>2. urg' \in BOOLEAN /\ reader_urg' \in BOOLEAN
      BY <1>1 DEF LastPid, SenderInv, SP!TypeOK
    <2>3. (r_main_pc' \in {"gather", "sum", "write", "say"}) \in BOOLEAN
      OBVIOUS
    <2> QED BY <2>1, <2>2, <2>3, Constants, SP!OnlyUrgs DEF SenderInv
  <1>2. CASE ~LastPid
    <2>1. [SP!Next]_(SP!vars)
      BY <1>2, SenderStep, SameSender
    <2> QED BY <2>1, Constants, SP!NextType, SP!NextInv, SP!NextContent, SP!NextBoundary DEF SenderInv
  <1> QED BY <1>1, <1>2

LEMMA SenderInvCorrect == SafeSpec => []SenderInv
  <1>1. SenderInv /\ [Next]_vars => SenderInv'
    BY SenderInvKept
  <1> QED BY InitSender, <1>1, PTL DEF SafeSpec

\* For the sender the reader program is the environment that Sender assumes, unless the
\* handshake's last SIGURG swallows one of the chain: then nobody takes that one.
THEOREM SenderSafety == SafeSpec => ImplementsSender
  <1>1. SenderInv /\ [Next]_vars => [~lost' => S!Next]_(S!vars)
    <2> SUFFICES ASSUME SenderInv, [Next]_vars PROVE [~lost' => S!Next]_(S!vars)
      OBVIOUS
    <2>1. CASE LastPid
      <3>1. ~lost' => UNCHANGED S!vars
        BY <2>1 DEF LastPid, SenderInv, SP!TypeOK, senderVars, readerVars, S!vars, S!rtVars, S!swapVars,
           S!mainVars, S!mainData, S!cmdVars, S!childVars, S!peerVars, S!chainVars
      <3> QED BY <3>1
    <2>2. CASE ~LastPid
      BY <2>2, SenderStep
    <2> QED BY <2>1, <2>2
  <1> QED BY InitSender, SenderInvCorrect, <1>1, PTL DEF SafeSpec, ImplementsSender

\* The master rewrites no configuration that a child has still to read, unless a
\* semop() was cut short (send_swap_buffer, work_for_child).
THEOREM CfgsStable == SafeSpec => CfgStable
  <1> DEFINE Stable == \A i \in Child : cfgs'[i] # cfgs[i] /\ Calm
                         => ~usr2[i] /\ child_pc[i] \notin {"load", "sync", "final"}
  <1>1. SenderInv /\ [Next]_vars => [Stable]_vars
    <2> SUFFICES ASSUME SenderInv, [Next]_vars, NEW i \in Child, cfgs'[i] # cfgs[i], Calm
                 PROVE  ~usr2[i] /\ child_pc[i] \notin {"load", "sync", "final"}
      OBVIOUS
    <2>1. main_pc = "send"
      <3>1. ~LastPid
        BY DEF LastPid, senderVars
      <3>2. [SP!Next]_(SP!vars)
        BY <3>1, SenderStep, SameSender
      <3> USE DEF SP!cmdVars, SP!peerVars, SP!mainVars
      <3>3. CASE SP!Main
        BY <3>3 DEF SP!Main, SP!Main_Boot, SP!Main_ChainWait, SP!Main_TakeFull, SP!Main_GetBytes,
           SP!Main_SendSwapBuffer, SP!Main_WaitChilds, SP!Main_FreeBuffer, SP!Main_SayReady,
           SP!Main_QuitChilds, SP!Main_Wait, SP!Main_Cleanup, SP!D_master, SP!MainPc
      <3>4. CASE \E j \in SP!Child : SP!ChildStep(j)
        BY <3>4 DEF SP!ChildStep, SP!Child_Ready, SP!Child_Command, SP!Child_Announce, SP!Child_Words,
           SP!Child_Final, SP!Child_Done, SP!Child_Quit, SP!A_master
      <3>5. CASE \/ SP!ReaderThread \/ SP!Alarm \/ SP!NoWaitSemop \/ SP!EnvMaster
                 \/ \E j \in SP!Child : SP!EnvLink(j)
        BY <3>5 DEF SP!ReaderThread, SP!Alarm, SP!NoWaitSemop, SP!EnvMaster, SP!EnvLink
      <3> QED BY <3>2, <3>3, <3>4, <3>5 DEF SP!Next, SP!Ended, SP!vars
    <2>2. i \in SP!Child
      BY DEF Child, S!Child, SP!Child
    <2> QED BY <2>1, <2>2 DEF SenderInv, SP!IInv, SP!Calm, Calm, SP!RestInv
  <1> QED BY InitSender, SenderInvCorrect, <1>1, PTL DEF SafeSpec, CfgStable

-----------------------------------------------------------------------------
(* Whose turn it is *)

LEMMA InitTurn == Init => TurnInv
  BY DEF Init, S!Init, R!Init, TurnInv, SenderTurn, ReaderTurn

LEMMA SenderTurnKept == ASSUME SenderInv, TurnInv, SenderMain \/ CutShort PROVE TurnInv'
  <1> USE DEF SenderProcess, readerVars
  <1>1. SP!StageInv
    BY DEF SenderInv, SP!BoundaryInv
  <1>2. CASE SenderMain
    <2>1. UNCHANGED <<r_main_pc, out, lagging, lost>> /\ SP!Main
      BY <1>2, SameMain DEF SenderMain
    <2> USE DEF SP!MainPc, SP!mainData
    <2>2. CASE SP!Main_Boot \/ SP!Main_TakeFull \/ SP!Main_GetBytes \/ SP!Main_SendSwapBuffer
      BY <2>1, <2>2, <1>1 DEF SP!Main_Boot, SP!Main_TakeFull, SP!Main_GetBytes, SP!Main_SendSwapBuffer,
         SP!StageInv, TurnInv, SenderTurn, ReaderTurn
    <2>3. CASE SP!Main_WaitChilds \/ SP!Main_FreeBuffer
      BY <2>1, <2>3 DEF SP!Main_WaitChilds, SP!Main_FreeBuffer, TurnInv, SenderTurn, ReaderTurn
    <2>4. CASE SP!Main_ChainWait
      BY <2>1, <2>4 DEF SP!Main_ChainWait, TurnInv, SenderTurn, ReaderTurn
    <2>5. CASE SP!Main_SayReady
      BY <2>1, <2>5, <1>1 DEF SP!Main_SayReady, SP!StageInv, TurnInv, SenderTurn, ReaderTurn
    <2>6. CASE SP!Main_QuitChilds \/ SP!Main_Wait \/ SP!Main_Cleanup
      BY <2>1, <2>6 DEF SP!Main_QuitChilds, SP!Main_Wait, SP!Main_Cleanup, TurnInv, SenderTurn, ReaderTurn
    <2> QED BY <2>1, <2>2, <2>3, <2>4, <2>5, <2>6 DEF SP!Main
  <1>3. CASE CutShort
    <2>1. UNCHANGED <<r_main_pc, out, lagging, lost, is_first, urg, reader_urg>> /\ (SP!Alarm \/ SP!NoWaitSemop)
      BY <1>3, SameCutShort DEF CutShort, S!Alarm, S!NoWaitSemop, S!peerVars, S!chainVars
    <2>2. \/ main_pc' = main_pc
          \/ main_pc = "boot" /\ main_pc' = "chain"
          \/ main_pc \in {"take", "childs", "free"} /\ main_pc' \in {"get", "free", "say"}
      BY <2>1 DEF SP!Alarm, SP!NoWaitSemop, SP!LeaveSemop, SP!Asleep, SP!AfterSemop
    <2> QED BY <2>1, <2>2, <1>1 DEF SP!StageInv, TurnInv, SenderTurn, ReaderTurn
  <1> QED BY <1>2, <1>3

LEMMA ReaderTurnKept == ASSUME SenderInv, TurnInv, ReaderMain PROVE TurnInv'
  <1>1. UNCHANGED <<main_pc, is_first, lagging, lost>> /\ ~lagging /\ R!R_Main
    BY DEF ReaderMain, ReaderProcess, senderVars
  <1>2. urg \in BOOLEAN /\ reader_urg \in BOOLEAN
    BY DEF SenderInv, SP!TypeOK
  <1> USE DEF R!R_MainPc, R!chainVars
  <1>3. CASE R!RM_ChainWait
    BY <1>1, <1>2, <1>3 DEF R!RM_ChainWait, TurnInv, SenderTurn, ReaderTurn
  <1>4. CASE R!RM_Gather \/ R!RM_Sum \/ R!RM_Write
    BY <1>1, <1>4 DEF R!RM_Gather, R!RM_Sum, R!AfterSum, R!RM_Write, TurnInv, SenderTurn, ReaderTurn
  <1>5. CASE R!RM_SayReady
    BY <1>1, <1>2, <1>5 DEF R!RM_SayReady, TurnInv, SenderTurn, ReaderTurn
  <1>6. CASE R!RM_QuitChilds \/ R!RM_Wait \/ R!RM_Cleanup
    BY <1>1, <1>6 DEF R!RM_QuitChilds, R!RM_Wait, R!RM_Cleanup, TurnInv, SenderTurn, ReaderTurn
  <1> QED BY <1>1, <1>3, <1>4, <1>5, <1>6 DEF R!R_Main

\* What a step of a child, of reader_thread or of nobody leaves alone.
LEMMA OtherSteps ==
  ASSUME [Next]_vars, ~SenderMain, ~CutShort, ~ReaderMain, ~ReaderCutShort, ~LastPid
  PROVE  UNCHANGED <<main_pc, is_first, readed_bytes, sent, r_main_pc, out, short, need_write, adding,
                     urg, reader_urg, lagging, lost, eintr>>
  <1>1. CASE ReaderThread
    BY <1>1 DEF ReaderThread, SenderProcess, readerVars, S!ReaderThread, S!mainVars, S!mainData,
                S!peerVars, S!chainVars
  <1>2. ASSUME NEW i \in Child, SenderChild(i) \/ ReaderChild(i)
        PROVE  UNCHANGED <<main_pc, is_first, readed_bytes, sent, r_main_pc, out, short, need_write, adding,
                     urg, reader_urg, lagging, lost, eintr>>
    BY <1>2 DEF SenderChild, SenderProcess, readerVars, S!ChildStep, S!mainVars, S!mainData, S!chainVars,
                ReaderChild, ReaderProcess, senderVars, R!R_ChildStep, R!r_mainVars, R!chainVars
  <1>3. CASE UNCHANGED vars
    BY <1>3 DEF vars, senderVars, readerVars
  <1> QED BY <1>1, <1>2, <1>3 DEF Next, Ended

LEMMA TurnKept == ASSUME SenderInv, TurnInv, [Next]_vars PROVE TurnInv'
  <1>1. CASE LastPid
    BY <1>1 DEF LastPid, senderVars, readerVars, SenderInv, SP!TypeOK, TurnInv, SenderTurn, ReaderTurn
  <1>2. CASE ~(SenderMain \/ CutShort \/ ReaderMain \/ ReaderCutShort \/ LastPid)
    BY <1>2, OtherSteps DEF TurnInv, SenderTurn, ReaderTurn
  <1>3. CASE ReaderCutShort
    BY <1>3, ReaderCut DEF senderVars, TurnInv, SenderTurn, ReaderTurn
  <1> QED BY <1>1, <1>2, <1>3, SenderTurnKept, ReaderTurnKept

LEMMA TurnCorrect == SafeSpec => []TurnInv
  <1>1. SenderInv /\ TurnInv /\ [Next]_vars => TurnInv'
    BY TurnKept
  <1> QED BY InitTurn, SenderInvCorrect, <1>1, PTL DEF SafeSpec

\* The masters take turns, whatever is cut short and whatever read() and write() return.
THEOREM TurnsTaken == SafeSpec => []MastersTakeTurns
  <1>1. TurnInv => MastersTakeTurns
    BY DEF TurnInv, MastersTakeTurns, SenderTurn, ReaderTurn
  <1> QED BY TurnCorrect, <1>1, PTL

-----------------------------------------------------------------------------
(* One piece of every pair of children in a round *)

LEMMA ChildCount ==
  IsFiniteSet(Child) /\ Cardinality(Child) = N_CHILDS /\ Cardinality({}) = 0
  BY FS_Interval, FS_EmptySet, 0 \in Int, N_CHILDS - 1 \in Int DEF Child, S!Child

LEMMA RestedType == Rested \in SUBSET Child /\ IsFiniteSet(Rested) /\ Cardinality(Rested) \in Nat
  <1>1. Rested \in SUBSET Child
    BY DEF Rested
  <1>2. IsFiniteSet(Rested)
    BY <1>1, ChildCount, FS_Subset
  <1> QED BY <1>1, <1>2, FS_CardinalityType

\* When the reader's D(master_chid_sem, N_CHILDS) may pass, no pair owes a piece.
LEMMA AllRested ==
  ASSUME r_master = Cardinality(Rested), r_master >= N_CHILDS
  PROVE  r_master = N_CHILDS /\ Rested = Child
  <1>1. Cardinality(Rested) <= Cardinality(Child)
    BY RestedType, ChildCount, FS_Subset
  <1>2. Cardinality(Rested) = Cardinality(Child)
    BY <1>1, RestedType, ChildCount
  <1> QED BY <1>2, RestedType, ChildCount, FS_Subset

LEMMA PairTypes == ASSUME SenderInv PROVE
  /\ usr2 \in [Child -> BOOLEAN] /\ sigquit \in [Child -> BOOLEAN]
  /\ child_pc \in [Child -> {"start", "idle", "load", "sync", "final", "post", "exit"}]
  /\ link \in [Child -> [st : {"idle", "req", "go", "data", "ack", "stop"}, n : Int, at : Int]]
  /\ urg \in BOOLEAN /\ reader_urg \in BOOLEAN
  <1>1. Child = SP!Child
    BY DEF Child, S!Child, SP!Child
  <1> QED BY <1>1 DEF SenderInv, SP!TypeOK, SP!ChildPcs, SP!LinkSts

\* The phase of a pair: the link is the child's (Sender), and the peer's.
LEMMA PairPhase == ASSUME SenderInv, NEW i \in Child PROVE
  /\ child_pc[i] \in {"start", "idle", "load", "post"} => link[i].st = "idle"
  /\ child_pc[i] = "sync"  => link[i].st \in {"req", "go"}
  /\ child_pc[i] = "final" => link[i].st \in {"data", "ack"}
  /\ child_pc[i] = "exit"  => link[i].st \in {"idle", "stop"}
  <1>1. i \in SP!Child
    BY DEF Child, S!Child, SP!Child
  <1> QED BY <1>1 DEF SenderInv, SP!BoundaryInv, SP!PhaseInv, SP!Quiet

LEMMA InitPiece == Init => PieceInv
  <1> SUFFICES ASSUME Init, ~r_cut PROVE PieceInv
    BY DEF PieceInv
  <1>1. S!Child = Child /\ R!Child = Child
    BY DEF Child, S!Child, R!Child
  <1>2. /\ main_pc = "boot" /\ r_main_pc = "chain" /\ r_master = 0 /\ readed_bytes = 0
        /\ \A i \in Child : /\ ~usr2[i] /\ ~sigquit[i] /\ child_pc[i] = "start" /\ link[i].st = "idle"
                            /\ ~r_quit[i] /\ r_child_pc[i] = "idle"
    BY <1>1 DEF Init, S!Init, R!Init, R!Quiet
  <1>3. ~InRound /\ \A i \in Child : ~Owes(i)
    BY <1>2 DEF InRound, SenderTurn, Owes, Told, OnTheWay, Storing, Staying, SenderOver
  <1> QED BY <1>2, <1>3 DEF PieceInv, PairInv, Told, OnTheWay, Storing, Staying, SenderOver

\* Nothing of pair j changes.
Untouched(j) ==
  /\ usr2'[j] = usr2[j] /\ sigquit'[j] = sigquit[j] /\ child_pc'[j] = child_pc[j] /\ link'[j] = link[j]
  /\ r_quit'[j] = r_quit[j] /\ r_child_pc'[j] = r_child_pc[j]

LEMMA UntouchedPair ==
  ASSUME NEW j \in Child, Untouched(j), PairInv(j), UNCHANGED main_pc, InRound' = InRound
  PROVE  PairInv(j)' /\ (Owes(j)' <=> Owes(j))
  BY DEF Untouched, PairInv, Owes, Told, OnTheWay, Storing, Staying, SenderOver

\* A child of the sender moves its piece on, or keeps it.
LEMMA SenderChildPiece ==
  ASSUME SenderInv, PieceInv, ~r_cut, r_main_pc \notin {"reap", "exit"}, NEW i \in Child, SenderChild(i)
  PROVE  /\ \A j \in Child \ {i} : Untouched(j)
         /\ UNCHANGED <<main_pc, is_first, readed_bytes, r_main_pc, r_master, reader_urg, lost>>
         /\ \A b \in BOOLEAN : InRound = b /\ InRound' = b => PairInv(i)' /\ (Owes(i)' <=> Owes(i))
  <1>0. S!ChildStep(i) /\ UNCHANGED readerVars /\ UNCHANGED <<main_pc, is_first, readed_bytes, reader_urg, lost>>
    BY DEF SenderChild, SenderProcess, S!ChildStep, S!mainVars, S!mainData, S!chainVars
  <1>1. UNCHANGED <<r_main_pc, r_master, r_quit, r_child_pc>>
    BY <1>0 DEF readerVars
  <1>2. PairInv(i)
    BY DEF PieceInv
  <1> USE DEF S!ChildPc, S!cmdVars, S!A_master
  <1>3. \A j \in Child \ {i} : Untouched(j)
    BY <1>0, <1>1, PairTypes DEF Untouched, S!ChildStep, S!Child_Ready, S!Child_Command, S!Child_Announce,
       S!Child_Words, S!Child_Final, S!Child_Done, S!Child_Quit
  <1>4. \/ S!Child_Ready(i) \/ S!Child_Command(i) \/ S!Child_Announce(i) \/ S!Child_Words(i)
        \/ S!Child_Final(i) \/ S!Child_Done(i) \/ S!Child_Quit(i)
    BY <1>0 DEF S!ChildStep
  <1>5. \/ /\ child_pc[i] = "start" /\ child_pc'[i] = "idle" /\ link'[i].st = link[i].st
           /\ usr2'[i] = usr2[i] /\ sigquit'[i] = sigquit[i]
        \/ /\ child_pc[i] = "idle" /\ child_pc'[i] = "load" /\ link'[i].st = link[i].st
           /\ usr2[i] /\ ~usr2'[i] /\ sigquit'[i] = sigquit[i]
        \/ /\ child_pc[i] = "load" /\ child_pc'[i] = "sync" /\ link'[i].st = "req"
           /\ usr2'[i] = usr2[i] /\ sigquit'[i] = sigquit[i]
        \/ /\ child_pc[i] = "sync" /\ child_pc'[i] = "final" /\ link[i].st = "go" /\ link'[i].st = "data"
           /\ usr2'[i] = usr2[i] /\ sigquit'[i] = sigquit[i]
        \/ /\ child_pc[i] = "final" /\ child_pc'[i] = "post" /\ link[i].st = "ack" /\ link'[i].st = "idle"
           /\ usr2'[i] = usr2[i] /\ sigquit'[i] = sigquit[i]
        \/ /\ child_pc[i] = "post" /\ child_pc'[i] = "idle" /\ link'[i].st = link[i].st
           /\ usr2'[i] = usr2[i] /\ sigquit'[i] = sigquit[i]
        \/ /\ child_pc[i] = "idle" /\ child_pc'[i] = "exit" /\ sigquit[i] /\ link'[i].st = "stop"
           /\ usr2'[i] = usr2[i] /\ ~sigquit'[i]
    BY <1>4, PairTypes DEF S!Child_Ready, S!Child_Command, S!Child_Announce,
       S!Child_Words, S!Child_Final, S!Child_Done, S!Child_Quit, S!Quiet
  <1>6. ASSUME NEW b \in BOOLEAN, InRound = b, InRound' = b PROVE PairInv(i)' /\ (Owes(i)' <=> Owes(i))
    BY <1>0, <1>1, <1>2, <1>5, <1>6, PairPhase DEF PairInv, Owes, Told, OnTheWay, Storing, Staying, SenderOver
  <1> QED BY <1>0, <1>1, <1>3, <1>6

\* A child of the reader moves a piece on; the last step posts it.
LEMMA ReaderChildPiece ==
  ASSUME SenderInv, PieceInv, ~r_cut, r_main_pc \notin {"reap", "exit"}, NEW i \in Child, ReaderChild(i),
         r_child_pc \in [Child -> {"idle", "words", "store", "post", "exit"}], r_quit \in [Child -> BOOLEAN]
  PROVE  /\ \A j \in Child \ {i} : Untouched(j)
         /\ UNCHANGED <<main_pc, is_first, readed_bytes, r_main_pc, reader_urg, lost>>
         /\ \A b \in BOOLEAN : InRound = b /\ InRound' = b =>
              /\ PairInv(i)'
              /\ \/ (Owes(i)' <=> Owes(i)) /\ r_master' = r_master
                 \/ Owes(i) /\ ~Owes(i)' /\ r_master' = r_master + 1
  <1>0. R!R_ChildStep(i) /\ UNCHANGED senderVars /\ UNCHANGED <<r_main_pc, reader_urg, lost>>
    BY DEF ReaderChild, ReaderProcess, R!R_ChildStep, R!r_mainVars, R!chainVars
  <1>1. UNCHANGED <<main_pc, is_first, readed_bytes, usr2, sigquit, child_pc>>
    BY <1>0 DEF senderVars
  <1>2. PairInv(i) /\ ~r_quit[i]
    BY DEF PieceInv, PairInv
  <1> USE DEF R!R_ChildPc
  <1>4. \/ R!RC_Request(i) \/ R!RC_Words(i) \/ R!RC_Store(i) \/ R!RC_Post(i) \/ R!RC_Stop(i)
    BY <1>0, <1>2 DEF R!R_ChildStep, R!RC_Quit
  <1>3. \A j \in Child \ {i} : Untouched(j)
    BY <1>1, <1>4, PairTypes DEF Untouched, R!RC_Request, R!RC_Words, R!RC_Store, R!RC_Post, R!RC_Stop
  <1>5. \/ /\ r_child_pc[i] = "idle" /\ r_child_pc'[i] = "words" /\ link[i].st = "req" /\ link'[i].st = "go"
           /\ ~r_quit'[i] /\ r_master' = r_master
        \/ /\ r_child_pc[i] = "words" /\ r_child_pc'[i] = "store" /\ link[i].st = "data" /\ link'[i].st = "ack"
           /\ ~r_quit'[i] /\ r_master' = r_master
        \/ /\ r_child_pc[i] = "store" /\ r_child_pc'[i] = "post" /\ link'[i].st = link[i].st
           /\ ~r_quit'[i] /\ r_master' = r_master
        \/ /\ r_child_pc[i] = "post" /\ r_child_pc'[i] = "idle" /\ link'[i].st = link[i].st
           /\ ~r_quit'[i] /\ r_master' = r_master + 1
        \/ /\ r_child_pc[i] = "idle" /\ r_child_pc'[i] = "post" /\ link[i].st = "stop" /\ link'[i].st = "idle"
           /\ ~r_quit'[i] /\ r_master' = r_master
    BY <1>2, <1>4, PairTypes DEF R!RC_Request, R!RC_Words, R!RC_Store, R!RC_Post, R!RC_Stop, R!Quiet
  <1>6. ASSUME NEW b \in BOOLEAN, InRound = b, InRound' = b
        PROVE  /\ PairInv(i)'
               /\ \/ (Owes(i)' <=> Owes(i)) /\ r_master' = r_master
                  \/ Owes(i) /\ ~Owes(i)' /\ r_master' = r_master + 1
    BY <1>0, <1>1, <1>2, <1>5, <1>6, PairPhase DEF PairInv, Owes, Told, OnTheWay, Storing, Staying, SenderOver
  <1> QED BY <1>0, <1>1, <1>3, <1>6

-----------------------------------------------------------------------------
(* The reader's variables keep their types *)

LEMMA ShareInSlice == ASSUME NEW n \in Int, NEW i \in Child PROVE S!Share(n, i) \in 0 .. BUFFER_SIZE
  <1>1. BUFFER_SIZE * (i + 1) = BUFFER_SIZE * i + BUFFER_SIZE /\ BUFFER_SIZE * i \in Int
    BY DEF Child, S!Child
  <1> QED BY <1>1 DEF S!Share

LEMMA SliceTypes == ASSUME NEW n \in 0 .. SWAP_BUF_SIZE, slice_at \in [Child -> Int]
                    PROVE  R!Gathered(n) \in Seq(Int)
  <1>1. SWAP_BUF_SIZE \in Nat
    BY DEF SWAP_BUF_SIZE
  <1>2. ASSUME NEW p \in 1 .. n
        PROVE  slice_at[(p - 1) \div BUFFER_SIZE] + ((p - 1) % BUFFER_SIZE) \in Int
    <2>1. p - 1 \in Nat /\ p - 1 < RP!SWAP_BUF_SIZE
      BY <1>1 DEF SWAP_BUF_SIZE, RP!SWAP_BUF_SIZE
    <2>2. (p - 1) \div BUFFER_SIZE \in Child
      BY <2>1, Constants, RP!PlaceOf DEF Child, S!Child, RP!Child
    <2>3. (p - 1) % BUFFER_SIZE \in Int
      BY <2>1
    <2> QED BY <2>2, <2>3
  <1> DEFINE f(p) == slice_at[(p - 1) \div BUFFER_SIZE] + ((p - 1) % BUFFER_SIZE)
  <1> HIDE DEF f
  <1>3. [p \in 1 .. n |-> f(p)] \in Seq(Int)
    BY <1>1, <1>2 DEF f
  <1> QED BY <1>3 DEF f, R!Gathered

LEMMA InitSize == Init => SizeInv
  <1> SUFFICES ASSUME Init PROVE SizeInv
    OBVIOUS
  <1>1. 0 \in Child /\ 0 \in 0 .. SWAP_BUF_SIZE /\ S!Child = Child /\ R!Child = Child
    BY DEF Child, S!Child, R!Child, SWAP_BUF_SIZE
  <1>2. /\ r_main_pc = "chain" /\ need_write = 0 /\ adding = 0 /\ r_waits = 0 /\ out = <<>> /\ short = FALSE
        /\ lagging \in BOOLEAN /\ lost = FALSE
    BY DEF Init, R!Init
  <1>3. /\ r_master \in Nat /\ r_cut \in BOOLEAN /\ r_quit \in [Child -> BOOLEAN]
        /\ r_child_pc \in [Child -> {"idle", "words", "store", "post", "exit"}]
    BY <1>1 DEF Init, R!Init
  <1>4. /\ fdsi_n \in [Child -> 0 .. BUFFER_SIZE] /\ slice_at \in [Child -> Int]
        /\ n_bytes_to_send \in [Child -> 0 .. BUFFER_SIZE]
    BY <1>1 DEF Init, R!Init, R!NoData
  <1>5. \A i \in Child : cfgs[i].n_bytes_to_send = 0 /\ link[i].n = 0
    BY <1>1 DEF Init, R!Init, S!Init, R!Quiet
  <1>6. out \in Seq(Int) /\ 0 \in 0 .. BUFFER_SIZE
    BY <1>2
  <1>7. \A i \in Child : cfgs[i].n_bytes_to_send \in 0 .. BUFFER_SIZE /\ link[i].n \in 0 .. BUFFER_SIZE
    BY <1>5, <1>6
  <1> QED BY <1>1, <1>2, <1>3, <1>4, <1>6, <1>7 DEF SizeInv

\* What the sender may change of it.
LEMMA SenderSize ==
  ASSUME SenderInv, SizeInv, ReaderThread \/ SenderMain \/ CutShort \/ \E i \in Child : SenderChild(i)
  PROVE  SizeInv'
  <1>0. UNCHANGED readerVars /\ UNCHANGED <<lagging, lost>>
    BY DEF ReaderThread, SenderMain, CutShort, SenderChild, SenderProcess
  <1> DEFINE Small == \A i \in Child : cfgs'[i].n_bytes_to_send \in 0 .. BUFFER_SIZE /\ link'[i].n \in 0 .. BUFFER_SIZE
  <1>1. \A i \in Child : cfgs[i].n_bytes_to_send \in 0 .. BUFFER_SIZE /\ link[i].n \in 0 .. BUFFER_SIZE
    BY DEF SizeInv
  <1>2. ASSUME UNCHANGED <<cfgs, link>> PROVE Small
    BY <1>1, <1>2
  <1>3. ASSUME SenderMain /\ S!Main_SendSwapBuffer PROVE Small
    <2>1. link' = link /\ readed_bytes \in Int /\ S!Child = Child
      BY <1>3 DEF SenderMain, SenderProcess, S!Main, SenderInv, SP!TypeOK, Child
    <2> QED BY <1>1, <1>3, <2>1, ShareInSlice DEF S!Main_SendSwapBuffer
  <1>4. ASSUME SenderMain /\ ~S!Main_SendSwapBuffer PROVE Small
    <2>1. UNCHANGED <<cfgs, link>>
      BY <1>4 DEF SenderMain, SenderProcess, S!Main, S!Main_Boot, S!Main_ChainWait, S!Main_TakeFull,
         S!Main_GetBytes, S!Main_WaitChilds, S!Main_FreeBuffer, S!Main_SayReady, S!Main_QuitChilds,
         S!Main_Wait, S!Main_Cleanup, S!D_master, S!cmdVars
    <2> QED BY <1>2, <2>1
  <1>5. ASSUME ReaderThread \/ CutShort PROVE Small
    <2>1. UNCHANGED <<cfgs, link>>
      BY <1>5 DEF ReaderThread, CutShort, SenderProcess, S!ReaderThread, S!Alarm, S!NoWaitSemop,
         S!cmdVars, S!peerVars
    <2> QED BY <1>2, <2>1
  <1>6. ASSUME NEW i \in Child, SenderChild(i) PROVE Small
    <2>1. link \in [Child -> [st : {"idle", "req", "go", "data", "ack", "stop"}, n : Int, at : Int]]
      BY PairTypes
    <2> USE DEF S!ChildPc, S!cmdVars, S!A_master
    <2>2. CASE S!Child_Ready(i) \/ S!Child_Command(i) \/ S!Child_Done(i)
      BY <1>1, <2>2 DEF S!Child_Ready, S!Child_Command, S!Child_Done
    <2>3. CASE S!Child_Announce(i)
      BY <1>1, <2>1, <2>3 DEF S!Child_Announce
    <2>4. CASE S!Child_Words(i)
      BY <1>1, <2>1, <2>4 DEF S!Child_Words
    <2>5. CASE S!Child_Final(i) \/ S!Child_Quit(i)
      BY <1>1, <2>1, <2>5 DEF S!Child_Final, S!Child_Quit, S!Quiet
    <2> QED BY <1>6, <2>2, <2>3, <2>4, <2>5 DEF SenderChild, SenderProcess, S!ChildStep
  <1>7. Small
    BY <1>3, <1>4, <1>5, <1>6
  <1> QED BY <1>0, <1>7 DEF SizeInv, readerVars

LEMMA ReaderMainSize == ASSUME SizeInv, ReaderMain PROVE SizeInv'
  <1>0. UNCHANGED senderVars /\ UNCHANGED <<lagging, lost>> /\ R!R_Main
    BY DEF ReaderMain, ReaderProcess
  <1>1. UNCHANGED <<cfgs, link, r_cut, r_child_pc, fdsi_n, slice_at, n_bytes_to_send>>
    BY <1>0 DEF senderVars, R!R_Main, R!r_childVars
  <1>2. R!Child = Child
    BY DEF Child, S!Child, R!Child
  <1> USE DEF R!R_MainPc
  <1>3. CASE R!RM_ChainWait \/ R!RM_SayReady \/ R!RM_Wait \/ R!RM_Cleanup
    BY <1>0, <1>1, <1>3 DEF R!RM_ChainWait, R!RM_SayReady, R!RM_Wait, R!RM_Cleanup, SizeInv
  <1>4. CASE R!RM_Gather
    <2>1. BUFFER_SIZE * adding >= 0 /\ 0 \in 0 .. SWAP_BUF_SIZE
      BY DEF SizeInv, SWAP_BUF_SIZE, Child, S!Child
    <2> QED BY <1>0, <1>1, <1>4, <2>1 DEF R!RM_Gather, SizeInv
  <1>5. CASE R!RM_QuitChilds
    <2>1. r_quit' \in [Child -> BOOLEAN]
      BY <1>2, <1>5 DEF R!RM_QuitChilds
    <2> QED BY <1>0, <1>1, <1>5, <2>1 DEF R!RM_QuitChilds, SizeInv
  <1>6. CASE R!RM_Sum
    <2>1. PICK k \in Child : k = adding
      BY DEF SizeInv
    <2>2. PICK a \in 0 .. BUFFER_SIZE : a = n_bytes_to_send[k]
      BY DEF SizeInv
    <2>3. /\ r_main_pc = "sum" /\ need_write' = need_write + a /\ adding' = (k + 1) % N_CHILDS
          /\ r_main_pc' = IF k + 1 < N_CHILDS THEN "sum" ELSE IF need_write' = 0 THEN "say" ELSE "write"
          /\ UNCHANGED <<r_waits, out, short, r_master, r_quit>>
      BY <1>6, <2>1, <2>2 DEF R!RM_Sum, R!AfterSum, R!NextChild
    <2>4. k \in Nat /\ k < N_CHILDS /\ BUFFER_SIZE * (k + 1) = BUFFER_SIZE * k + BUFFER_SIZE /\ BUFFER_SIZE * k \in Nat
      BY DEF Child, S!Child
    <2>5. need_write \in Nat /\ need_write <= BUFFER_SIZE * k
      BY <2>1, <2>3 DEF SizeInv
    <2>6. need_write' \in Nat /\ need_write' <= BUFFER_SIZE * (k + 1)
      BY <2>3, <2>4, <2>5
    <2>7. BUFFER_SIZE * (k + 1) <= SWAP_BUF_SIZE /\ SWAP_BUF_SIZE \in Nat
      BY <2>4 DEF SWAP_BUF_SIZE
    <2>8. BUFFER_SIZE * (k + 1) \in Nat
      BY <2>4
    <2>9. need_write' \in 0 .. SWAP_BUF_SIZE
      BY <2>6, <2>7, <2>8
    <2>10. CASE k + 1 < N_CHILDS
      <3>1. adding' = k + 1 /\ adding' \in Child
        BY <2>3, <2>4, <2>10 DEF Child, S!Child
      <3> QED BY <1>0, <1>1, <2>3, <2>6, <2>9, <3>1 DEF SizeInv
    <2>11. CASE ~(k + 1 < N_CHILDS)
      <3>1. k + 1 = N_CHILDS
        BY <2>4, <2>11
      <3>2. adding' = 0 /\ adding' \in Child
        BY <2>3, <3>1 DEF Child, S!Child
      <3> QED BY <1>0, <1>1, <2>3, <2>9, <2>11, <3>2 DEF SizeInv
    <2> QED BY <2>10, <2>11
  <1>7. CASE R!RM_Write
    <2>1. PICK n \in 0 .. need_write : out' = out \o R!Gathered(n) /\ short' = (short \/ n < need_write)
      BY <1>7 DEF R!RM_Write
    <2>2. n \in 0 .. SWAP_BUF_SIZE
      BY DEF SizeInv, SWAP_BUF_SIZE
    <2>3. R!Gathered(n) \in Seq(Int)
      BY <2>2, SliceTypes DEF SizeInv
    <2>4. out' \in Seq(Int) /\ short' \in BOOLEAN
      BY <2>1, <2>3 DEF SizeInv
    <2> QED BY <1>0, <1>1, <1>7, <2>4 DEF R!RM_Write, SizeInv
  <1> QED BY <1>0, <1>3, <1>4, <1>5, <1>6, <1>7 DEF R!R_Main

LEMMA ReaderChildSize == ASSUME SenderInv, SizeInv, NEW i \in Child, ReaderChild(i) PROVE SizeInv'
  <1>0. /\ R!R_ChildStep(i) /\ UNCHANGED <<cfgs, lagging, lost>>
        /\ UNCHANGED <<r_main_pc, need_write, adding, r_waits, out, short, r_cut>>
    BY DEF ReaderChild, ReaderProcess, senderVars, R!R_ChildStep, R!r_mainVars
  <1>1. link \in [Child -> [st : {"idle", "req", "go", "data", "ack", "stop"}, n : Int, at : Int]]
    BY PairTypes
  <1>2. 0 \in 0 .. BUFFER_SIZE /\ r_master + 1 \in Nat
    BY DEF SizeInv
  <1> USE DEF R!R_ChildPc
  <1>3. CASE R!RC_Request(i)
    <2>1. link[i].n \in 0 .. BUFFER_SIZE /\ \A j \in Child : link'[j].n = link[j].n
      BY <1>1, <1>3 DEF SizeInv, R!RC_Request
    <2>2. /\ r_child_pc' \in [Child -> {"idle", "words", "store", "post", "exit"}]
          /\ fdsi_n' \in [Child -> 0 .. BUFFER_SIZE] /\ slice_at' \in [Child -> Int]
      BY <1>3, <2>1 DEF SizeInv, R!RC_Request, R!NoData
    <2> QED BY <1>0, <1>3, <2>1, <2>2 DEF SizeInv, R!RC_Request
  <1>4. CASE R!RC_Words(i)
    <2>1. /\ (IF r_quit[i] THEN R!NoData ELSE link[i].at) \in Int
          /\ \A j \in Child : link'[j].n = link[j].n
      BY <1>1, <1>4 DEF R!RC_Words, R!NoData
    <2>2. /\ r_child_pc' \in [Child -> {"idle", "words", "store", "post", "exit"}]
          /\ slice_at' \in [Child -> Int] /\ r_quit' \in [Child -> BOOLEAN]
      BY <1>4, <2>1 DEF SizeInv, R!RC_Words
    <2> QED BY <1>0, <1>4, <2>1, <2>2 DEF SizeInv, R!RC_Words
  <1>5. CASE R!RC_Store(i)
    <2>1. /\ r_child_pc' \in [Child -> {"idle", "words", "store", "post", "exit"}]
          /\ n_bytes_to_send' \in [Child -> 0 .. BUFFER_SIZE]
      BY <1>5 DEF SizeInv, R!RC_Store
    <2> QED BY <1>0, <1>5, <2>1 DEF SizeInv, R!RC_Store
  <1>6. CASE R!RC_Post(i)
    <2>1. r_child_pc' \in [Child -> {"idle", "words", "store", "post", "exit"}]
      BY <1>6 DEF SizeInv, R!RC_Post
    <2> QED BY <1>0, <1>2, <1>6, <2>1 DEF SizeInv, R!RC_Post
  <1>7. CASE R!RC_Stop(i)
    <2>1. /\ r_child_pc' \in [Child -> {"idle", "words", "store", "post", "exit"}]
          /\ n_bytes_to_send' \in [Child -> 0 .. BUFFER_SIZE]
      BY <1>2, <1>7 DEF SizeInv, R!RC_Stop
    <2>2. \A j \in Child : link'[j].n \in 0 .. BUFFER_SIZE
      BY <1>1, <1>2, <1>7 DEF SizeInv, R!RC_Stop, R!Quiet
    <2> QED BY <1>0, <1>7, <2>1, <2>2 DEF SizeInv, R!RC_Stop
  <1>8. CASE R!RC_Quit(i)
    <2>1. /\ r_child_pc' \in [Child -> {"idle", "words", "store", "post", "exit"}]
          /\ n_bytes_to_send' \in [Child -> 0 .. BUFFER_SIZE] /\ r_quit' \in [Child -> BOOLEAN]
      BY <1>2, <1>8 DEF SizeInv, R!RC_Quit
    <2> QED BY <1>0, <1>2, <1>8, <2>1 DEF SizeInv, R!RC_Quit
  <1> QED BY <1>0, <1>3, <1>4, <1>5, <1>6, <1>7, <1>8 DEF R!R_ChildStep

LEMMA SizeKept == ASSUME SenderInv, SizeInv, [Next]_vars PROVE SizeInv'
  <1>1. CASE LastPid
    BY <1>1 DEF LastPid, senderVars, readerVars, SizeInv, SenderInv, SP!TypeOK
  <1>2. CASE UNCHANGED vars
    BY <1>2 DEF vars, senderVars, readerVars, SizeInv
  <1>3. CASE ReaderCutShort
    <2>1. 0 \in 0 .. SWAP_BUF_SIZE /\ BUFFER_SIZE * adding >= 0
      BY DEF SizeInv, SWAP_BUF_SIZE, Child, S!Child
    <2> QED BY <1>3, <2>1, ReaderCut DEF senderVars, SizeInv
  <1> QED BY <1>1, <1>2, <1>3, SenderSize, ReaderMainSize, ReaderChildSize DEF Next, Ended

-----------------------------------------------------------------------------
(* PieceInv, and what follows from it *)

\* While pairs only move their pieces on, the semaphore goes with the pairs at rest.
LEMMA PairsKept ==
  ASSUME PieceInv, ~r_cut, r_main_pc \notin {"reap", "exit"}, UNCHANGED r_main_pc,
         NEW b \in BOOLEAN, InRound = b, InRound' = b, NEW i \in Child,
         \A j \in Child : PairInv(j)', \A j \in Child \ {i} : Owes(j)' <=> Owes(j),
         \/ (Owes(i)' <=> Owes(i)) /\ r_master' = r_master
         \/ Owes(i) /\ ~Owes(i)' /\ r_master' = r_master + 1
  PROVE  PieceInv'
  <1>1. CASE (Owes(i)' <=> Owes(i)) /\ r_master' = r_master
    <2>1. Rested' = Rested
      BY <1>1 DEF Rested
    <2> QED BY <1>1, <2>1 DEF PieceInv
  <1>2. CASE Owes(i) /\ ~Owes(i)' /\ r_master' = r_master + 1
    <2>1. Rested' = Rested \cup {i} /\ i \notin Rested
      BY <1>2 DEF Rested
    <2>2. Cardinality(Rested \cup {i}) = Cardinality(Rested) + 1
      BY <2>1, RestedType, FS_AddElement
    <2>3. InRound
      BY <1>2 DEF PieceInv, PairInv
    <2> QED BY <1>2, <2>1, <2>2, <2>3 DEF PieceInv
  <1> QED BY <1>1, <1>2

LEMMA ChildPiece ==
  ASSUME SenderInv, SizeInv, PieceInv, ~r_cut, NEW i \in Child, SenderChild(i) \/ ReaderChild(i)
  PROVE  PieceInv'
  <1>0. CASE r_main_pc \in {"reap", "exit"}
    BY <1>0 DEF PieceInv, SenderChild, SenderProcess, readerVars, ReaderChild, ReaderProcess,
                R!R_ChildStep, R!r_mainVars
  <1>1. CASE r_main_pc \notin {"reap", "exit"}
    <2>0. r_child_pc \in [Child -> {"idle", "words", "store", "post", "exit"}] /\ r_quit \in [Child -> BOOLEAN]
      BY DEF SizeInv
    <2>1. /\ \A j \in Child \ {i} : Untouched(j)
          /\ UNCHANGED <<main_pc, is_first, readed_bytes, r_main_pc, reader_urg, lost>>
          /\ \A b \in BOOLEAN : InRound = b /\ InRound' = b =>
               /\ PairInv(i)'
               /\ \/ (Owes(i)' <=> Owes(i)) /\ r_master' = r_master
                  \/ Owes(i) /\ ~Owes(i)' /\ r_master' = r_master + 1
      BY <1>1, <2>0, SenderChildPiece, ReaderChildPiece
    <2>2. PICK b \in BOOLEAN : InRound = b /\ InRound' = b
      BY <2>1 DEF InRound, SenderTurn
    <2>3. \A j \in Child \ {i} : PairInv(j)' /\ (Owes(j)' <=> Owes(j))
      BY <1>1, <2>1, <2>2, UntouchedPair DEF PieceInv
    <2> QED BY <1>1, <2>1, <2>2, <2>3, PairsKept
  <1> QED BY <1>0, <1>1

\* All pairs as they were, and so is the place of the round.
LEMMA SamePiece ==
  ASSUME PieceInv, ~r_cut, UNCHANGED <<usr2, child_pc, link, r_quit, r_child_pc, r_master>>,
         r_main_pc' \notin {"reap", "exit"} => r_main_pc \notin {"reap", "exit"},
         NEW b \in BOOLEAN, InRound = b, InRound' = b, SenderOver' <=> SenderOver,
         main_pc' \notin {"reap", "exit"} => main_pc \notin {"reap", "exit"} /\ sigquit' = sigquit
  PROVE  PieceInv'
  <1>1. \A j \in Child : /\ Owes(j)' <=> Owes(j)
                         /\ PairInv(j) => PairInv(j)'
    BY DEF Owes, Told, OnTheWay, Storing, Staying, PairInv
  <1>2. Rested' = Rested
    BY <1>1 DEF Rested
  <1> QED BY <1>1, <1>2 DEF PieceInv

LEMMA SenderMainPiece ==
  ASSUME SenderInv, TurnInv, PieceInv, ~r_cut, SenderMain \/ CutShort PROVE PieceInv'
  <1>0. /\ UNCHANGED <<child_pc, link, r_quit, r_child_pc, r_master, r_main_pc, lost>>
        /\ SP!Main \/ SP!Alarm \/ SP!NoWaitSemop
        /\ S!Child = Child /\ SP!Child = Child
    BY SameMain, SameCutShort DEF SenderMain, CutShort, SenderProcess, readerVars, S!Main, S!Alarm,
       S!NoWaitSemop, S!childVars, S!peerVars, Child, S!Child, SP!Child
  <1>1. SP!StageInv
    BY DEF SenderInv, SP!BoundaryInv
  <1> USE DEF SP!MainPc, SP!mainData, SP!cmdVars, SP!D_master
  \* The turn does not change hands, nor does a round begin or end.
  <1>2. CASE \/ SP!Main_Boot \/ SP!Main_ChainWait \/ SP!Main_TakeFull \/ SP!Main_GetBytes
             \/ SP!Main_WaitChilds \/ SP!Main_FreeBuffer \/ SP!Alarm \/ SP!NoWaitSemop
    <2>1. UNCHANGED <<usr2, sigquit>>
      BY <1>2 DEF SP!Main_Boot, SP!Main_ChainWait, SP!Main_TakeFull, SP!Main_GetBytes, SP!Main_WaitChilds,
         SP!Main_FreeBuffer, SP!Alarm, SP!NoWaitSemop
    <2>2. PICK b \in BOOLEAN : InRound = b /\ InRound' = b
      <3>1. CASE SP!Main_Boot \/ SP!Main_TakeFull \/ SP!Main_GetBytes
        <4>1. ~InRound /\ ~InRound'
          BY <3>1, <1>0, <1>1 DEF SP!Main_Boot, SP!Main_TakeFull, SP!Main_GetBytes, InRound, SenderTurn, SP!StageInv
        <4> QED BY <4>1 DEF InRound
      <3>2. CASE SP!Main_ChainWait
        <4>1. ~InRound /\ ~InRound'
          BY <3>2, <1>0, <1>1 DEF SP!Main_ChainWait, InRound, SenderTurn, TurnInv, ReaderTurn
        <4> QED BY <4>1 DEF InRound
      <3>3. CASE SP!Main_WaitChilds \/ SP!Main_FreeBuffer
        <4>1. InRound /\ InRound'
          BY <3>3, <1>0, <1>1 DEF SP!Main_WaitChilds, SP!Main_FreeBuffer, InRound, SP!StageInv
        <4> QED BY <4>1 DEF InRound
      <3>4. CASE SP!Alarm \/ SP!NoWaitSemop
        <4>1. UNCHANGED <<is_first, readed_bytes, reader_urg>>
          BY <3>4 DEF SP!Alarm, SP!NoWaitSemop, SP!peerVars, SP!chainVars
        <4>2. \/ main_pc' = main_pc
              \/ main_pc = "boot" /\ main_pc' = "chain"
              \/ main_pc = "take" /\ main_pc' = "get"
              \/ main_pc = "childs" /\ main_pc' = "free"
              \/ main_pc = "free" /\ main_pc' = "say"
          BY <3>4 DEF SP!Alarm, SP!NoWaitSemop, SP!LeaveSemop, SP!Asleep, SP!AfterSemop
        <4>3. InRound' <=> InRound
          BY <4>1, <4>2, <1>0, <1>1 DEF InRound, SenderTurn, SP!StageInv
        <4> QED BY <4>3 DEF InRound
      <3> QED BY <1>2, <3>1, <3>2, <3>3, <3>4
    <2>3. (SenderOver' <=> SenderOver) /\ (main_pc' \notin {"reap", "exit"} => main_pc \notin {"reap", "exit"})
      BY <1>2 DEF SP!Main_Boot, SP!Main_ChainWait, SP!Main_TakeFull, SP!Main_GetBytes, SP!Main_WaitChilds,
         SP!Main_FreeBuffer, SP!Alarm, SP!NoWaitSemop, SP!LeaveSemop, SP!Asleep, SP!AfterSemop, SenderOver
    <2> QED BY <1>0, <2>1, <2>2, <2>3, SamePiece
  <1>3. CASE SP!Main_SendSwapBuffer
    <2>1. /\ main_pc = "send" /\ main_pc' = "childs" /\ UNCHANGED sigquit
          /\ \A j \in Child : usr2'[j]
      BY <1>0, <1>3 DEF SP!Main_SendSwapBuffer
    <2>2. ~InRound /\ InRound'
      BY <2>1 DEF InRound, SenderTurn
    <2>3. r_main_pc \notin {"reap", "exit"} => r_master' = 0 /\ \A j \in Child : PairInv(j)' /\ Owes(j)'
      BY <1>0, <2>1, <2>2 DEF PieceInv, PairInv, Owes, Told, OnTheWay, Storing, Staying, SenderOver
    <2>4. r_main_pc \notin {"reap", "exit"} => Rested' = {}
      BY <2>3 DEF Rested
    <2> QED BY <1>0, <2>2, <2>3, <2>4, ChildCount DEF PieceInv
  <1>4. CASE SP!Main_SayReady
    <2>1. /\ main_pc = "say" /\ UNCHANGED <<usr2, sigquit, is_first, readed_bytes>> /\ reader_urg'
          /\ main_pc' = IF readed_bytes # 0 THEN "chain" ELSE "quit"
          /\ ~is_first
      BY <1>1, <1>4 DEF SP!Main_SayReady, SP!StageInv
    <2>2. InRound'
      BY <2>1 DEF InRound, SenderTurn
    <2>3. CASE readed_bytes # 0
      <3>1. InRound
        BY <2>1, <2>3 DEF InRound
      <3> QED BY <1>0, <2>1, <2>2, <2>3, <3>1, SamePiece DEF SenderOver
    <2>4. CASE readed_bytes = 0
      <3>1. ~InRound
        BY <2>1, <2>4 DEF InRound, SenderTurn
      <3>2. r_main_pc \notin {"reap", "exit"} => r_master' = 0 /\ \A j \in Child : PairInv(j)' /\ Owes(j)'
        BY <1>0, <2>1, <2>2, <2>4, <3>1 DEF PieceInv, PairInv, Owes, Told, OnTheWay, Storing, Staying, SenderOver
      <3>3. r_main_pc \notin {"reap", "exit"} => Rested' = {}
        BY <3>2 DEF Rested
      <3> QED BY <1>0, <2>2, <3>2, <3>3, ChildCount DEF PieceInv
    <2> QED BY <2>3, <2>4
  <1>5. CASE SP!Main_QuitChilds \/ SP!Main_Wait \/ SP!Main_Cleanup
    <2>1. /\ main_pc \in {"quit", "reap"} /\ main_pc' \in {"reap", "exit"}
          /\ UNCHANGED <<usr2, is_first, readed_bytes, reader_urg>>
      BY <1>5 DEF SP!Main_QuitChilds, SP!Main_Wait, SP!Main_Cleanup
    <2>2. PICK b \in BOOLEAN : InRound = b /\ InRound' = b
      BY <1>0, <2>1 DEF InRound, SenderTurn
    <2> QED BY <1>0, <2>1, <2>2, SamePiece DEF SenderOver
  <1> QED BY <1>0, <1>2, <1>3, <1>4, <1>5 DEF SP!Main

LEMMA ReaderMainPiece ==
  ASSUME SenderInv, TurnInv, SizeInv, PieceInv, ~r_cut, ReaderMain PROVE PieceInv'
  <1>0. UNCHANGED <<main_pc, is_first, readed_bytes, usr2, sigquit, child_pc, link, r_child_pc, lost>> /\ R!R_Main
    BY DEF ReaderMain, ReaderProcess, senderVars, R!R_Main, R!r_childVars
  <1>1. reader_urg \in BOOLEAN /\ urg \in BOOLEAN
    BY PairTypes
  <1> USE DEF R!R_MainPc, R!chainVars
  <1>2. CASE R!RM_ChainWait \/ R!RM_Sum \/ R!RM_Write \/ R!RM_SayReady
    <2>1. UNCHANGED <<r_quit, r_master>>
      BY <1>2 DEF R!RM_ChainWait, R!RM_Sum, R!RM_Write, R!RM_SayReady
    <2>2. PICK b \in BOOLEAN : InRound = b /\ InRound' = b
      <3>1. CASE R!RM_ChainWait
        <4>1. InRound /\ InRound'
          BY <3>1, <1>0, <1>1 DEF R!RM_ChainWait, InRound, TurnInv, SenderTurn
        <4> QED BY <4>1 DEF InRound
      <3>2. CASE R!RM_Sum \/ R!RM_Write \/ R!RM_SayReady
        <4>1. ~InRound /\ ~InRound'
          BY <3>2, <1>0, <1>1 DEF R!RM_Sum, R!AfterSum, R!RM_Write, R!RM_SayReady, InRound, SenderTurn, TurnInv, ReaderTurn
        <4> QED BY <4>1 DEF InRound
      <3> QED BY <1>2, <3>1, <3>2
    <2>3. r_main_pc \notin {"reap", "exit"}
      BY <1>2 DEF R!RM_ChainWait, R!RM_Sum, R!RM_Write, R!RM_SayReady
    <2> QED BY <1>0, <2>1, <2>2, <2>3, SamePiece DEF SenderOver
  <1>3. CASE R!RM_Gather
    <2>1. r_main_pc = "gather" /\ r_main_pc' = "sum" /\ r_master >= N_CHILDS /\ r_master' = r_master - N_CHILDS
          /\ UNCHANGED <<r_quit, reader_urg>>
      BY <1>3 DEF R!RM_Gather
    <2>2. InRound /\ ~InRound'
      BY <1>0, <1>1, <2>1 DEF InRound, TurnInv, SenderTurn, ReaderTurn
    <2>3. r_master = N_CHILDS /\ Rested = Child
      BY <2>1, <2>2, AllRested DEF PieceInv
    <2>4. \A j \in Child : ~Owes(j) /\ PairInv(j) /\ (Owes(j)' <=> Owes(j))
      BY <1>0, <2>1, <2>3 DEF Rested, PieceInv, Owes, Told, OnTheWay, Storing, Staying, SenderOver
    <2>5. \A j \in Child : PairInv(j)'
      BY <1>0, <2>1, <2>4 DEF PairInv, Told, OnTheWay, Storing, Staying, SenderOver
    <2> QED BY <2>1, <2>2, <2>3, <2>5 DEF PieceInv
  <1>4. CASE R!RM_QuitChilds \/ R!RM_Wait \/ R!RM_Cleanup
    BY <1>4 DEF R!RM_QuitChilds, R!RM_Wait, R!RM_Cleanup, PieceInv
  <1> QED BY <1>0, <1>2, <1>3, <1>4 DEF R!R_Main

LEMMA PieceKept == ASSUME SenderInv, TurnInv, SizeInv, PieceInv, [Next]_vars PROVE PieceInv'
  <1> SUFFICES ASSUME ~r_cut' PROVE PieceInv'
    BY DEF PieceInv
  <1>0. ~r_cut /\ ~ReaderCutShort
    BY CutBack
  <1>1. CASE LastPid \/ ReaderThread \/ UNCHANGED vars
    <2>1. UNCHANGED <<usr2, sigquit, child_pc, link, r_quit, r_child_pc, r_master, main_pc, is_first,
                      readed_bytes, r_main_pc>>
      BY <1>1 DEF LastPid, ReaderThread, SenderProcess, senderVars, readerVars, vars, S!ReaderThread,
         S!mainVars, S!mainData, S!cmdVars, S!childVars, S!peerVars
    <2>2. PICK b \in BOOLEAN : InRound = b /\ InRound' = b
      <3>1. CASE LastPid
        <4>1. reader_urg \in BOOLEAN /\ ~lost /\ lost' = reader_urg /\ reader_urg' = FALSE
          BY <3>1, PairTypes DEF LastPid, TurnInv
        <4> QED BY <2>1, <4>1 DEF InRound, SenderTurn
      <3>2. CASE ReaderThread \/ UNCHANGED vars
        <4>1. UNCHANGED <<reader_urg, lost>>
          BY <3>2 DEF ReaderThread, SenderProcess, vars, S!ReaderThread, S!peerVars, S!chainVars
        <4> QED BY <2>1, <4>1 DEF InRound, SenderTurn
      <3> QED BY <1>1, <3>1, <3>2
    <2> QED BY <1>0, <2>1, <2>2, SamePiece DEF SenderOver
  <1> QED BY <1>0, <1>1, ChildPiece, SenderMainPiece, ReaderMainPiece DEF Next, Ended

SharedInv == SenderInv /\ TurnInv /\ SizeInv /\ PieceInv

\* Whatever is cut short or fails, the turn is in one place, and no count exceeds a slice;
\* as long as every D of the reader's master waits (reader.c:159), every pair has one piece
\* to deliver in a round, whatever goes wrong in the sender: the invariants of the chain
\* and of the two barriers.
THEOREM SharedCorrect == SafeSpec => []SharedInv
  <1>1. Init => SharedInv
    BY InitSender, InitTurn, InitSize, InitPiece DEF SharedInv
  <1>2. SharedInv /\ [Next]_vars => SharedInv'
    BY SenderInvKept, TurnKept, SizeKept, PieceKept DEF SharedInv
  <1> QED BY <1>1, <1>2, PTL DEF SafeSpec

\* reader.c:164: when the reader's master adds up and writes, every child has read its
\* piece, as long as its own D waits, even when a semop() of the sender is cut short.
THEOREM PiecesRead == SafeSpec => []AllPiecesRead
  <1>1. SharedInv => AllPiecesRead
    <2> SUFFICES ASSUME SharedInv, ~r_cut, r_main_pc \in {"sum", "write"}, NEW i \in Child
                 PROVE  r_child_pc[i] = "idle"
      BY DEF AllPiecesRead
    <2>1. ~InRound
      BY DEF SharedInv, TurnInv, SenderTurn, ReaderTurn, InRound
    <2>2. PairInv(i) /\ ~Owes(i)
      BY <2>1 DEF SharedInv, PieceInv, PairInv
    <2> QED BY <2>2 DEF PairInv, Owes, OnTheWay, Storing, SharedInv, SizeInv
  <1> QED BY <1>1, SharedCorrect, PTL

-----------------------------------------------------------------------------
(* R and RP are the same reader *)

LEMMA SameReaderMain == R!R_Main => RP!R_Main
  <1> USE DEF R!R_MainPc, RP!R_MainPc, R!chainVars, RP!chainVars
  <1>1. R!RM_ChainWait => RP!RM_ChainWait
    BY DEF R!RM_ChainWait, RP!RM_ChainWait
  <1>2. R!RM_Gather => RP!RM_Gather
    BY DEF R!RM_Gather, RP!RM_Gather
  <1>3. R!RM_Sum => RP!RM_Sum
    BY DEF R!RM_Sum, RP!RM_Sum, R!AfterSum, RP!AfterSum, R!NextChild, RP!NextChild
  <1>4. R!RM_Write => RP!RM_Write
    BY DEF R!RM_Write, RP!RM_Write, R!Gathered, RP!Gathered
  <1>5. R!RM_SayReady => RP!RM_SayReady
    BY DEF R!RM_SayReady, RP!RM_SayReady
  <1>6. R!RM_QuitChilds => RP!RM_QuitChilds
    BY DEF R!RM_QuitChilds, RP!RM_QuitChilds, R!Child, RP!Child
  <1>7. R!R_Exited = RP!R_Exited
    <2>1. {i \in R!Child : r_child_pc[i] = "exit"} = {i \in RP!Child : r_child_pc[i] = "exit"}
      BY DEF R!Child, RP!Child
    <2> QED BY <2>1, Zenon DEF R!R_Exited, RP!R_Exited, R!Cardinality, RP!Cardinality
  <1>8. R!RM_Wait => RP!RM_Wait
    BY <1>7 DEF R!RM_Wait, RP!RM_Wait
  <1>9. R!RM_Cleanup => RP!RM_Cleanup
    BY DEF R!RM_Cleanup, RP!RM_Cleanup
  <1> QED BY <1>1, <1>2, <1>3, <1>4, <1>5, <1>6, <1>8, <1>9
          DEF R!R_Main, RP!R_Main, R!r_childVars, RP!r_childVars, R!peerVars, RP!peerVars

LEMMA SameReaderChild == ASSUME NEW i \in Child PROVE i \in RP!Child /\ (R!R_ChildStep(i) => RP!R_ChildStep(i))
  <1> USE DEF R!R_ChildPc, RP!R_ChildPc
  <1>1. R!RC_Request(i) => RP!RC_Request(i)
    BY DEF R!RC_Request, RP!RC_Request, R!NoData, RP!NoData
  <1>2. R!RC_Words(i) => RP!RC_Words(i)
    BY DEF R!RC_Words, RP!RC_Words, R!NoData, RP!NoData
  <1>3. R!RC_Store(i) => RP!RC_Store(i)
    BY DEF R!RC_Store, RP!RC_Store
  <1>4. R!RC_Post(i) => RP!RC_Post(i)
    BY DEF R!RC_Post, RP!RC_Post
  <1>5. R!RC_Stop(i) => RP!RC_Stop(i)
    BY DEF R!RC_Stop, RP!RC_Stop, R!Quiet, RP!Quiet, R!NoData, RP!NoData
  <1>6. R!RC_Quit(i) => RP!RC_Quit(i)
    BY DEF R!RC_Quit, RP!RC_Quit
  <1> QED BY <1>1, <1>2, <1>3, <1>4, <1>5, <1>6
          DEF R!R_ChildStep, RP!R_ChildStep, Child, S!Child, RP!Child, R!r_mainVars, RP!r_mainVars,
              R!chainVars, RP!chainVars, R!peerVars, RP!peerVars

LEMMA SamePeer ==
  /\ R!EnvSender => RP!EnvSender
  /\ \A i \in Child : R!EnvChild(i) => RP!EnvChild(i)
  <1> USE DEF R!r_mainVars, RP!r_mainVars, R!r_childVars, RP!r_childVars, R!chainVars, RP!chainVars,
              R!EnvMaster, RP!EnvMaster
  <1>1. R!EnvTake => RP!EnvTake
    BY DEF R!EnvTake, RP!EnvTake
  <1>2. R!EnvRound => RP!EnvRound
    BY DEF R!EnvRound, RP!EnvRound, R!Child, RP!Child
  <1>3. R!EnvRoundOver => RP!EnvRoundOver
    BY DEF R!EnvRoundOver, RP!EnvRoundOver, R!Child, RP!Child, R!Quiet, RP!Quiet, R!NoData, RP!NoData
  <1>4. R!EnvSay => RP!EnvSay
    BY DEF R!EnvSay, RP!EnvSay, R!Child, RP!Child
  <1>5. ASSUME NEW i \in Child PROVE R!EnvChild(i) => RP!EnvChild(i)
    BY DEF R!EnvChild, RP!EnvChild, R!Quiet, RP!Quiet, R!NoData, RP!NoData, R!Share, RP!Share
  <1> QED BY <1>1, <1>2, <1>3, <1>4, <1>5 DEF R!EnvSender, RP!EnvSender

\* A step of R is a step of RP.
LEMMA SameReader == ASSUME [R!Next]_(R!vars) PROVE [RP!Next]_(RP!vars)
  <1>1. UNCHANGED R!vars => UNCHANGED RP!vars
    BY DEF R!vars, RP!vars, R!r_mainVars, RP!r_mainVars, R!r_childVars, RP!r_childVars,
           R!chainVars, RP!chainVars, R!peerVars, RP!peerVars
  <1>2. R!Child = Child
    BY DEF R!Child, Child, S!Child
  <1>3. R!R_NoWaitSemop => RP!R_NoWaitSemop
    BY DEF R!R_NoWaitSemop, RP!R_NoWaitSemop, R!R_MainPc, RP!R_MainPc, R!r_childVars, RP!r_childVars,
           R!chainVars, RP!chainVars, R!peerVars, RP!peerVars
  <1> QED BY <1>1, <1>2, <1>3, SameReaderMain, SameReaderChild, SamePeer DEF R!Next, RP!Next, R!R_Ended, RP!R_Ended

-----------------------------------------------------------------------------
(* Session is a reader with the sender program as its environment *)

LEMMA SameChilds == Child = S!Child /\ Child = R!Child /\ Child = SP!Child /\ Child = RP!Child
  BY DEF Child, S!Child, R!Child, SP!Child, RP!Child

\* What is fixed while a buffer of the ring is sent.
LEMMA RoundFacts ==
  ASSUME SenderInv, Calm, readed_bytes >= 0, main_pc \in {"send", "childs", "free"}
  PROVE  /\ readed_bytes \in 1 .. SWAP_BUF_SIZE /\ sent \in Nat /\ swap_at[swp_idx] = sent
         /\ sent + readed_bytes <= file_pos /\ file_pos <= file_len /\ file_len <= MaxFileLen
  <1>1. PICK b \in SP!Buf : b = swp_idx
    BY DEF SenderInv, SP!TypeOK
  <1>2. SP!RingInv /\ SP!StageInv /\ SP!FileInv /\ SP!BookInv
    BY DEF SenderInv, SP!ContentInv, SP!BoundaryInv, SP!Calm, Calm
  <1>3. SP!Draining /\ SP!Owns /\ SP!Occupied(b)
    BY <1>1 DEF SP!Draining, SP!Owns, SP!Occupied
  <1>4. readed_bytes = active_bytes[b] /\ readed_bytes > 0 /\ readed_bytes \in Int
    BY <1>1, <1>2, <1>3 DEF SP!RingInv, SP!HandsInv, SP!StageInv, SenderInv, SP!TypeOK
  <1>5. SP!Begin(b) = swap_at[b] /\ SP!Upto(b) = swap_at[b] + active_bytes[b]
    BY <1>4 DEF SP!Begin, SP!Upto
  <1>6. sent = swap_at[b]
    BY <1>1, <1>2, <1>3, <1>5 DEF SP!RingInv, SP!EndsInv
  <1>7. active_bytes[b] <= SWAP_BUF_SIZE /\ SWAP_BUF_SIZE \in Nat
    BY <1>2, <1>3 DEF SP!RingInv, SP!ChainInv, SP!SWAP_BUF_SIZE, SWAP_BUF_SIZE
  <1>8. sent + readed_bytes <= SP!Pos
    BY <1>2, <1>3, <1>4, <1>5, <1>6 DEF SP!BookInv
  <1>9. SP!Pos <= file_pos /\ SP!Pos \in Int /\ file_pos \in Nat /\ file_pos <= file_len
    BY <1>2 DEF SP!Pos, SP!FileInv, SenderInv, SP!TypeOK
  <1>10. sent \in Nat /\ file_len \in 0 .. MaxFileLen
    BY DEF SenderInv, SP!TypeOK
  <1> QED BY <1>1, <1>4, <1>6, <1>7, <1>8, <1>9, <1>10

\* Between two rounds the children of the sender and the links are idle.
LEMMA RestFacts ==
  ASSUME SenderInv, Calm, main_pc \notin {"boot", "childs"}, NEW i \in Child
  PROVE  /\ ~usr2[i] /\ child_pc[i] \in {"idle", "exit"}
         /\ main_pc \notin {"reap", "exit"} => child_pc[i] = "idle" /\ link[i] = R!Quiet
  <1>1. i \in SP!Child
    BY SameChilds
  <1>2. SP!RestInv /\ SP!PhaseInv
    BY DEF SenderInv, SP!IInv, SP!BoundaryInv, SP!Calm, Calm
  <1>3. ~usr2[i] /\ child_pc[i] \in {"idle", "exit"} /\ (child_pc[i] = "exit" => main_pc \in {"reap", "exit"})
    BY <1>1, <1>2 DEF SP!RestInv
  <1>4. child_pc[i] = "idle" => link[i] = SP!Quiet
    BY <1>1, <1>2 DEF SP!PhaseInv
  <1> QED BY <1>3, <1>4 DEF SP!Quiet, SP!NoData, R!Quiet, R!NoData

\* The count that the master has taken changes in one place.
LEMMA BytesKept ==
  ASSUME [Next]_vars, readed_bytes' # readed_bytes PROVE main_pc = "get" /\ SenderMain /\ S!Main_GetBytes
  <1>1. ~CutShort /\ ~ReaderMain /\ ~ReaderCutShort /\ ~LastPid
    BY ReaderCut DEF CutShort, SenderProcess, S!Alarm, S!NoWaitSemop, ReaderMain, ReaderProcess, LastPid, senderVars
  <1>2. SenderMain
    BY <1>1, OtherSteps
  <1> QED BY <1>2 DEF SenderMain, SenderProcess, S!Main, S!mainData, S!MainPc, S!Main_Boot, S!Main_ChainWait,
     S!Main_TakeFull, S!Main_GetBytes, S!Main_SendSwapBuffer, S!Main_WaitChilds, S!Main_FreeBuffer, S!Advance,
     S!Main_SayReady, S!Main_QuitChilds, S!Main_Wait, S!Main_Cleanup

LEMMA CalmBack == ASSUME [Next]_vars, Calm' PROVE Calm
  <1>1. CASE LastPid
    BY <1>1 DEF LastPid, senderVars, Calm
  <1>2. CASE ~LastPid
    BY <1>2, SenderStep, SameSender, Constants, SP!CalmBack DEF SP!Calm, Calm
  <1> QED BY <1>1, <1>2

LEMMA LostBack == ASSUME TurnInv, [Next]_vars, ~lost' PROVE ~lost
  <1>1. CASE LastPid
    BY <1>1 DEF LastPid, TurnInv
  <1>2. ~LastPid => lost' = lost
    BY OtherSteps DEF SenderMain, CutShort, SenderProcess, ReaderMain, ReaderCutShort, ReaderProcess
  <1> QED BY <1>1, <1>2

\* A failed read() that the master has sent for is its last.
LEMMA StuckStays ==
  ASSUME SenderInv, Calm, [Next]_vars, readed_bytes < 0 PROVE UNCHANGED readed_bytes
  <1>1. main_pc # "get"
    BY DEF SenderInv, SP!BoundaryInv, SP!StuckInv, SP!Calm, Calm
  <1> QED BY <1>1, BytesKept

LEMMA SaneBack == ASSUME SenderInv, TurnInv, [Next]_vars, Sane' PROVE Sane
  <1>1. Calm /\ ~lost
    BY CalmBack, LostBack DEF Sane
  <1>2. readed_bytes \in Int
    BY DEF SenderInv, SP!TypeOK
  <1> QED BY <1>1, <1>2, StuckStays DEF Sane

LEMMA HealthySane == ASSUME SenderInv, Healthy PROVE Sane
  BY DEF Healthy, Sane, SenderInv, SP!TypeOK, SP!BoundaryInv, SP!StuckInv, SP!Calm, Calm

\* Nothing changes for the reader.
LEMMA NothingSeen ==
  ASSUME UNCHANGED readerVars, UNCHANGED <<link, urg, reader_urg, sent>>, PeerPc' = PeerPc,
         PeerLeft' = PeerLeft, readed_bytes' = readed_bytes \/ PeerPc # "told"
  PROVE  UNCHANGED R!vars
  BY DEF readerVars, R!vars, R!r_mainVars, R!r_childVars, R!chainVars, R!peerVars

\* What the reader sees of a step of the sender's master.
LEMMA SenderMainSeen ==
  ASSUME SenderInv, TurnInv, Sane, SenderMain, Sane' PROVE [R!Next]_(R!vars)
  <1>0. /\ UNCHANGED readerVars /\ UNCHANGED <<link, child_pc>> /\ SP!Main
        /\ UNCHANGED <<r_main_pc, need_write, adding, r_waits, out, short, r_cut, r_master, n_bytes_to_send,
                       r_quit, r_child_pc, fdsi_n, slice_at>>
    BY SameMain DEF SenderMain, SenderProcess, S!Main, S!childVars, readerVars
  <1>1. SP!StageInv
    BY DEF SenderInv, SP!BoundaryInv
  <1>2. Calm /\ readed_bytes >= 0 /\ readed_bytes' >= 0 /\ readed_bytes \in Int
    BY DEF Sane, SenderInv, SP!TypeOK
  <1> USE DEF SP!MainPc, SP!mainData, SP!cmdVars, SP!D_master
  <1>3. CASE SP!Main_Boot
    <2>1. /\ main_pc = "boot" /\ main_pc' = "chain" /\ is_first /\ is_first'
          /\ UNCHANGED <<usr2, urg, reader_urg, sent, readed_bytes>>
      BY <1>1, <1>3 DEF SP!Main_Boot, SP!StageInv
    <2>2. PeerPc = "own" /\ PeerPc' = "own"
      BY <2>1 DEF PeerPc
    <2>3. PeerLeft' = PeerLeft
      BY <1>0, <2>1, <2>2 DEF PeerLeft
    <2> QED BY <1>0, <2>1, <2>2, <2>3, NothingSeen
  <1>4. CASE SP!Main_TakeFull \/ SP!Main_GetBytes
    <2>1. /\ main_pc \in {"take", "get"} /\ UNCHANGED <<usr2, urg, reader_urg, sent>>
          /\ main_pc' \in {"get", "send"} \/ (main_pc' = "say" /\ readed_bytes' = 0)
      BY <1>4 DEF SP!Main_TakeFull, SP!Main_GetBytes
    <2>2. PeerPc = "own" /\ PeerPc' = "own"
      BY <2>1 DEF PeerPc
    <2>3. PeerLeft' = PeerLeft
      BY <1>0, <2>1, <2>2 DEF PeerLeft
    <2> QED BY <1>0, <2>1, <2>2, <2>3, NothingSeen
  <1>5. CASE SP!Main_ChainWait
    <2>1. /\ main_pc = "chain" /\ main_pc' = "take" /\ UNCHANGED <<usr2, reader_urg, sent, readed_bytes>>
          /\ (is_first /\ UNCHANGED urg) \/ (~is_first /\ urg /\ urg' = FALSE)
      BY <1>5 DEF SP!Main_ChainWait
    <2>2. PeerPc' = "own" /\ PeerPc = IF is_first THEN "own" ELSE "wait"
      BY <2>1 DEF PeerPc
    <2>3. PeerLeft' = PeerLeft
      BY <1>0, <2>1, <2>2 DEF PeerLeft
    <2>4. CASE is_first
      BY <1>0, <2>1, <2>2, <2>3, <2>4, NothingSeen
    <2>5. CASE ~is_first
      <3>1. R!EnvTake
        BY <2>1, <2>2, <2>3, <2>5 DEF R!EnvTake, R!EnvMaster
      <3>2. R!EnvSender
        BY <3>1, <1>0 DEF R!EnvSender, R!r_mainVars, R!r_childVars
      <3> QED BY <3>2 DEF R!Next
    <2> QED BY <2>4, <2>5
  <1>6. CASE SP!Main_SendSwapBuffer
    <2>1. /\ main_pc = "send" /\ main_pc' = "childs" /\ UNCHANGED <<urg, reader_urg, sent, readed_bytes>>
          /\ usr2' = [i \in SP!Child |-> TRUE]
      BY <1>6 DEF SP!Main_SendSwapBuffer
    <2>2. PeerPc = "own" /\ PeerPc' = "told"
      BY <2>1 DEF PeerPc
    <2>3. PeerLeft' = R!Child
      BY <2>1, <2>2, SameChilds DEF PeerLeft
    <2>4. readed_bytes \in 1 .. BUFFER_SIZE * N_CHILDS /\ sent + readed_bytes <= MaxFileLen
      BY <1>2, <2>1, RoundFacts DEF SWAP_BUF_SIZE, SenderInv, SP!TypeOK
    <2>5. R!EnvRound
      BY <2>1, <2>2, <2>3, <2>4 DEF R!EnvRound, R!EnvMaster, R!chainVars
    <2>6. R!EnvSender
      BY <2>5, <1>0 DEF R!EnvSender, R!r_mainVars, R!r_childVars
    <2> QED BY <2>6 DEF R!Next
  <1>7. CASE SP!Main_WaitChilds
    <2>1. main_pc = "childs" /\ main_pc' = "free" /\ UNCHANGED <<usr2, urg, reader_urg, sent, readed_bytes>>
      BY <1>7 DEF SP!Main_WaitChilds
    <2>2. PeerPc = "told" /\ PeerPc' = "told"
      BY <2>1 DEF PeerPc
    <2>3. PeerLeft' = PeerLeft
      BY <1>0, <2>1, <2>2 DEF PeerLeft
    <2> QED BY <1>0, <2>1, <2>2, <2>3, NothingSeen
  <1>8. CASE SP!Main_FreeBuffer
    <2>0. readed_bytes \in 1 .. SWAP_BUF_SIZE
      BY <1>2, <1>8, RoundFacts DEF SP!Main_FreeBuffer
    <2>1. /\ main_pc = "free" /\ main_pc' = "say" /\ UNCHANGED <<usr2, urg, reader_urg, readed_bytes>>
          /\ sent' = sent + readed_bytes
      BY <1>8, <2>0 DEF SP!Main_FreeBuffer, SP!Advance
    <2>2. PeerPc = "told" /\ PeerPc' = "tell"
      BY <2>0, <2>1 DEF PeerPc
    <2>3. \A i \in Child : ~usr2[i] /\ child_pc[i] = "idle" /\ link[i] = R!Quiet
      BY <1>2, <2>1, RestFacts
    <2>4. PeerLeft = {} /\ PeerLeft' = {}
      BY <1>0, <2>1, <2>2, <2>3, SameChilds DEF PeerLeft
    <2>5. R!EnvRoundOver
      BY <2>1, <2>2, <2>3, <2>4, SameChilds DEF R!EnvRoundOver, R!EnvMaster, R!chainVars
    <2>6. R!EnvSender
      BY <2>5, <1>0 DEF R!EnvSender, R!r_mainVars, R!r_childVars
    <2> QED BY <2>6 DEF R!Next
  <1>9. CASE SP!Main_SayReady
    <2>1. /\ main_pc = "say" /\ UNCHANGED <<usr2, sent, readed_bytes, is_first, urg>> /\ reader_urg' = TRUE
          /\ main_pc' = (IF readed_bytes # 0 THEN "chain" ELSE "quit") /\ ~is_first
      BY <1>1, <1>9 DEF SP!Main_SayReady, SP!StageInv
    <2>2. /\ PeerPc = IF readed_bytes = 0 THEN "own" ELSE "tell"
          /\ PeerPc' = IF readed_bytes = 0 THEN "over" ELSE "wait"
      BY <2>1 DEF PeerPc
    <2>3. CASE readed_bytes # 0
      <3>1. PeerLeft' = PeerLeft
        BY <1>0, <2>1, <2>2, <2>3 DEF PeerLeft
      <3>2. R!EnvSay
        BY <2>1, <2>2, <2>3, <3>1 DEF R!EnvSay, R!EnvMaster
      <3>3. R!EnvSender
        BY <3>2, <1>0 DEF R!EnvSender, R!r_mainVars, R!r_childVars
      <3> QED BY <3>3 DEF R!Next
    <2>4. CASE readed_bytes = 0
      <3>1. \A i \in Child : child_pc[i] = "idle"
        BY <1>2, <2>1, RestFacts
      <3>2. PeerLeft' = R!Child
        BY <1>0, <2>2, <2>4, <3>1, SameChilds DEF PeerLeft
      <3>3. R!EnvSay
        BY <2>1, <2>2, <2>4, <3>2 DEF R!EnvSay, R!EnvMaster
      <3>4. R!EnvSender
        BY <3>3, <1>0 DEF R!EnvSender, R!r_mainVars, R!r_childVars
      <3> QED BY <3>4 DEF R!Next
    <2> QED BY <2>3, <2>4
  <1>10. CASE SP!Main_QuitChilds \/ SP!Main_Wait \/ SP!Main_Cleanup
    <2>1. /\ main_pc \in {"quit", "reap"} /\ main_pc' \in {"reap", "exit"}
          /\ UNCHANGED <<urg, reader_urg, sent, readed_bytes>>
      BY <1>10 DEF SP!Main_QuitChilds, SP!Main_Wait, SP!Main_Cleanup
    <2>2. PeerPc = "over" /\ PeerPc' = "over"
      BY <2>1 DEF PeerPc
    <2>3. PeerLeft' = PeerLeft
      BY <1>0, <2>2 DEF PeerLeft
    <2> QED BY <1>0, <2>1, <2>2, <2>3, NothingSeen
  <1> QED BY <1>0, <1>3, <1>4, <1>5, <1>6, <1>7, <1>8, <1>9, <1>10 DEF SP!Main

\* What the reader sees of a step of a child of the sender.
LEMMA SenderChildSeen ==
  ASSUME SenderInv, Calm, readed_bytes >= 0, NEW i \in Child, SenderChild(i) PROVE [R!Next]_(R!vars)
  <1>0. /\ UNCHANGED readerVars /\ S!ChildStep(i)
        /\ UNCHANGED <<main_pc, is_first, readed_bytes, sent, urg, reader_urg>>
        /\ UNCHANGED <<r_main_pc, need_write, adding, r_waits, out, short, r_cut, r_master, n_bytes_to_send,
                       r_quit, r_child_pc, fdsi_n, slice_at>>
    BY DEF SenderChild, SenderProcess, readerVars, S!ChildStep, S!mainVars, S!mainData, S!chainVars
  <1>1. /\ usr2 \in [Child -> BOOLEAN] /\ sigquit \in [Child -> BOOLEAN]
        /\ child_pc \in [Child -> {"start", "idle", "load", "sync", "final", "post", "exit"}]
        /\ link \in [Child -> [st : {"idle", "req", "go", "data", "ack", "stop"}, n : Int, at : Int]]
    BY PairTypes
  <1>2. PeerPc' = PeerPc
    BY <1>0 DEF PeerPc
  <1>3. SP!BootInv /\ SP!RoundInv /\ SP!RestInv /\ SP!QuitInv /\ SP!LinkInv /\ i \in SP!Child
    BY SameChilds DEF SenderInv, SP!IInv, SP!ContentInv, SP!Calm, Calm
  <1>4. ASSUME R!EnvChild(i) PROVE R!Next
    BY <1>4, SameChilds DEF R!Next
  <1>5. PeerPc = "over" <=> main_pc \in {"quit", "reap", "exit"}
    BY DEF PeerPc, SenderInv, SP!TypeOK, SP!MainPcs
  <1> USE DEF S!ChildPc, S!cmdVars, S!A_master
  \* Neither the link nor what the master has commanded changes.
  <1>6. CASE S!Child_Ready(i) \/ S!Child_Command(i) \/ S!Child_Done(i)
    <2>1. /\ UNCHANGED link
          /\ \/ child_pc[i] \in {"start", "post"} /\ child_pc' = [child_pc EXCEPT ![i] = "idle"] /\ usr2' = usr2
             \/ /\ child_pc[i] = "idle" /\ child_pc' = [child_pc EXCEPT ![i] = "load"]
                /\ usr2[i] /\ usr2' = [usr2 EXCEPT ![i] = FALSE]
      BY <1>6 DEF S!Child_Ready, S!Child_Command, S!Child_Done
    <2>2. \A j \in Child : /\ child_pc'[j] # "exit" <=> child_pc[j] # "exit"
                           /\ usr2'[j] \/ child_pc'[j] = "load" <=> usr2[j] \/ child_pc[j] = "load"
      BY <1>1, <2>1
    <2>3. PeerLeft' = PeerLeft
      BY <1>2, <2>2, SameChilds DEF PeerLeft
    <2> QED BY <1>0, <1>2, <2>1, <2>3, NothingSeen
  <1>7. CASE S!Child_Announce(i)
    <2>1. main_pc = "childs" /\ ~usr2[i] /\ child_pc[i] = "load"
      BY <1>3, <1>7 DEF S!Child_Announce, SP!BootInv, SP!RoundInv, SP!RestInv
    <2>2. PeerPc = "told"
      BY <2>1 DEF PeerPc
    <2>3. /\ child_pc' = [child_pc EXCEPT ![i] = "sync"] /\ usr2' = usr2
          /\ link' = [link EXCEPT ![i] = [st |-> "req", n |-> cfgs[i].n_bytes_to_send, at |-> R!NoData]]
      BY <1>7 DEF S!Child_Announce, S!NoData, R!NoData
    <2>4. cfgs[i].n_bytes_to_send = R!Share(readed_bytes, i)
      BY <1>3, <2>1 DEF SP!LinkInv, SP!Share, R!Share
    <2>5. i \in PeerLeft /\ PeerLeft' = PeerLeft \ {i}
      BY <1>1, <1>2, <2>1, <2>2, <2>3, SameChilds DEF PeerLeft
    <2>6. R!EnvChild(i)
      BY <1>0, <1>2, <2>2, <2>3, <2>4, <2>5 DEF R!EnvChild, R!r_mainVars, R!r_childVars, R!chainVars
    <2> QED BY <1>4, <2>6
  <1>8. CASE S!Child_Words(i)
    <2>1. /\ child_pc[i] = "sync" /\ child_pc' = [child_pc EXCEPT ![i] = "final"] /\ usr2' = usr2
          /\ link[i].st = "go"
          /\ link' = [link EXCEPT ![i].st = "data", ![i].at = S!SlicePos(child_buf[i], i)]
      BY <1>8 DEF S!Child_Words
    <2>2. main_pc = "childs" /\ child_buf[i] = swp_idx
      BY <1>3, <2>1 DEF SP!BootInv, SP!RoundInv, SP!RestInv
    <2>3. S!SlicePos(child_buf[i], i) = sent + BUFFER_SIZE * i
      BY <2>2, RoundFacts DEF S!SlicePos
    <2>4. PeerLeft' = PeerLeft
      BY <1>1, <1>2, <1>5, <2>1, <2>2, SameChilds DEF PeerLeft
    <2>5. R!EnvChild(i)
      BY <1>0, <1>2, <2>1, <2>3, <2>4 DEF R!EnvChild, R!r_mainVars, R!r_childVars, R!chainVars
    <2> QED BY <1>4, <2>5
  <1>9. CASE S!Child_Final(i)
    <2>1. /\ child_pc[i] = "final" /\ child_pc' = [child_pc EXCEPT ![i] = "post"] /\ usr2' = usr2
          /\ link[i].st = "ack" /\ link' = [link EXCEPT ![i] = R!Quiet]
      BY <1>9 DEF S!Child_Final, S!Quiet, R!Quiet, S!NoData, R!NoData
    <2>2. PeerLeft' = PeerLeft
      BY <1>1, <1>2, <2>1, SameChilds DEF PeerLeft
    <2>3. R!EnvChild(i)
      BY <1>0, <1>2, <2>1, <2>2 DEF R!EnvChild, R!r_mainVars, R!r_childVars, R!chainVars
    <2> QED BY <1>4, <2>3
  <1>10. CASE S!Child_Quit(i)
    <2>1. /\ child_pc[i] = "idle" /\ child_pc' = [child_pc EXCEPT ![i] = "exit"] /\ sigquit[i]
          /\ link' = [link EXCEPT ![i] = [st |-> "stop", n |-> 0, at |-> R!NoData]]
      BY <1>10 DEF S!Child_Quit, S!NoData, R!NoData
    <2>2. PeerPc = "over"
      BY <1>3, <1>5, <2>1 DEF SP!QuitInv
    <2>3. i \in PeerLeft /\ PeerLeft' = PeerLeft \ {i}
      BY <1>1, <1>2, <2>1, <2>2, SameChilds DEF PeerLeft
    <2>4. R!EnvChild(i)
      BY <1>0, <1>2, <2>1, <2>2, <2>3 DEF R!EnvChild, R!r_mainVars, R!r_childVars, R!chainVars
    <2> QED BY <1>4, <2>4
  <1> QED BY <1>0, <1>6, <1>7, <1>8, <1>9, <1>10 DEF S!ChildStep

LEMMA ReaderStep == ASSUME SenderInv, TurnInv, [Next]_vars, Sane' PROVE [R!Next]_(R!vars)
  <1>0. Sane /\ Calm /\ Calm' /\ readed_bytes >= 0 /\ ~lost'
    BY SaneBack DEF Sane
  <1>1. CASE ReaderThread
    <2>1. /\ UNCHANGED readerVars /\ UNCHANGED <<main_pc, is_first, readed_bytes, sent, usr2, child_pc>>
          /\ UNCHANGED <<link, urg, reader_urg>>
      BY <1>1 DEF ReaderThread, SenderProcess, S!ReaderThread, S!mainVars, S!mainData, S!cmdVars,
         S!childVars, S!peerVars, S!chainVars
    <2>2. PeerPc' = PeerPc /\ PeerLeft' = PeerLeft
      BY <2>1 DEF PeerPc, PeerLeft
    <2> QED BY <2>1, <2>2, NothingSeen
  <1>2. CASE CutShort
    <2>1. /\ UNCHANGED readerVars /\ UNCHANGED <<main_pc, is_first, readed_bytes, sent, usr2, child_pc>>
          /\ UNCHANGED <<link, urg, reader_urg>>
      BY <1>0, <1>2 DEF CutShort, SenderProcess, S!Alarm, S!NoWaitSemop, S!LeaveSemop, S!Asleep, S!cmdVars,
         S!childVars, S!peerVars, S!chainVars, Calm
    <2>2. PeerPc' = PeerPc /\ PeerLeft' = PeerLeft
      BY <2>1 DEF PeerPc, PeerLeft
    <2> QED BY <2>1, <2>2, NothingSeen
  <1>3. CASE LastPid
    <2>1. /\ UNCHANGED readerVars /\ UNCHANGED <<main_pc, is_first, readed_bytes, sent, usr2, child_pc>>
          /\ UNCHANGED <<link, urg, reader_urg>>
      BY <1>0, <1>3, PairTypes DEF LastPid, senderVars
    <2>2. PeerPc' = PeerPc /\ PeerLeft' = PeerLeft
      BY <2>1 DEF PeerPc, PeerLeft
    <2> QED BY <2>1, <2>2, NothingSeen
  <1>4. CASE UNCHANGED vars
    <2>1. /\ UNCHANGED readerVars /\ UNCHANGED <<main_pc, is_first, readed_bytes, sent, usr2, child_pc>>
          /\ UNCHANGED <<link, urg, reader_urg>>
      BY <1>4 DEF vars, senderVars
    <2>2. PeerPc' = PeerPc /\ PeerLeft' = PeerLeft
      BY <2>1 DEF PeerPc, PeerLeft
    <2> QED BY <2>1, <2>2, NothingSeen
  <1>5. CASE ReaderMain
    BY <1>5 DEF ReaderMain, ReaderProcess, R!Next
  <1>7. CASE ReaderCutShort
    BY <1>7 DEF ReaderCutShort, ReaderProcess, R!Next
  <1>6. ASSUME NEW i \in Child, ReaderChild(i) PROVE R!Next
    BY <1>6, SameChilds DEF ReaderChild, ReaderProcess, R!Next
  <1> QED BY <1>0, <1>1, <1>2, <1>3, <1>4, <1>5, <1>6, <1>7, SenderMainSeen, SenderChildSeen DEF Next, Ended

\* For the reader the sender program is the environment that Reader assumes, as long as
\* nothing goes wrong in the sender.
THEOREM ReaderSafety == SafeSpec => ImplementsReader
  <1>1. SharedInv /\ SharedInv' /\ [Next]_vars => [Healthy' => R!Next]_(R!vars)
    <2>1. SenderInv' /\ Healthy' => Sane'
      BY HealthySane, PTL
    <2> QED BY <2>1, ReaderStep DEF SharedInv
  <1>2. Init => R!Init
    BY DEF Init
  <1> QED BY <1>1, <1>2, SharedCorrect, PTL DEF SafeSpec, ImplementsReader

\* What ReaderProofs proves of the reader holds of the two programs together, as long as
\* the sender keeps to the protocol.
ReaderInv == Sane /\ ~r_cut => RP!TypeOK /\ RP!IInv

LEMMA InitReader == Init => ReaderInv
  <1> SUFFICES ASSUME Init, ~r_cut PROVE RP!TypeOK /\ RP!IInv
    BY DEF ReaderInv
  <1>1. R!Init
    BY DEF Init
  <1>2. RP!Init
    BY <1>1 DEF R!Init, RP!Init, R!Child, RP!Child, R!Quiet, RP!Quiet, R!NoData, RP!NoData
  <1> QED BY <1>2, Constants, RP!InitInv

LEMMA ReaderInvKept == ASSUME SenderInv, TurnInv, ReaderInv, [Next]_vars PROVE ReaderInv'
  <1> SUFFICES ASSUME Sane', ~r_cut' PROVE RP!TypeOK' /\ RP!IInv'
    BY DEF ReaderInv
  <1>1. RP!TypeOK /\ RP!IInv
    BY SaneBack, CutBack DEF ReaderInv
  <1>2. [RP!Next]_(RP!vars)
    BY ReaderStep, SameReader
  <1> QED BY <1>1, <1>2, Constants, RP!NextInv

LEMMA ReaderInvCorrect == SafeSpec => []ReaderInv
  <1>1. SharedInv /\ ReaderInv /\ [Next]_vars => ReaderInv'
    BY ReaderInvKept DEF SharedInv
  <1> QED BY InitReader, SharedCorrect, <1>1, PTL DEF SafeSpec

-----------------------------------------------------------------------------
(* The output file *)

\* As long as nothing went wrong the output holds the rounds before the reader's.
LEMMA OutputSoFar ==
  ASSUME SharedInv, ReaderInv, Sane, ~short, ~r_cut
  PROVE  /\ Len(out) <= file_pos /\ sent <= file_len
         /\ \A p \in 1 .. Len(out) : out[p] = p - 1
         /\ PeerPc = "own" => Len(out) = sent
         /\ r_main_pc \in {"quit", "reap", "exit"} => Len(out) = sent /\ PeerPc = "over"
         /\ r_main_pc = "write" => /\ need_write \in 1 .. SWAP_BUF_SIZE
                                   /\ Len(out) + need_write = sent
                                   /\ R!Gathered(need_write) = [p \in 1 .. need_write |-> Len(out) + p - 1]
         /\ r_main_pc = "say" /\ need_write = 0 => Len(out) = sent /\ PeerPc = "over"
  <1>1. RP!TypeOK /\ RP!IInv /\ SenderInv /\ Calm /\ readed_bytes >= 0
    BY DEF ReaderInv, SharedInv, Sane
  <1>2. PICK n \in 0 .. RP!SWAP_BUF_SIZE : RP!RoundInv(n)
    BY <1>1 DEF RP!IInv
  <1> DEFINE n_ == IF PeerPc = "told" THEN readed_bytes ELSE 0
  <1>3. RP!Base(n) = sent + n_ - n /\ n_ \in Nat /\ sent \in Nat /\ n \in Nat
    BY <1>1 DEF RP!Base, SenderInv, SP!TypeOK, RP!SWAP_BUF_SIZE
  <1> HIDE DEF n_
  <1>4. Len(out) = sent + n_ - n /\ \A p \in 1 .. Len(out) : out[p] = p - 1
    BY <1>2, <1>3 DEF RP!RoundInv, RP!Output
  <1>5. sent + n_ <= file_pos
    <2>1. CASE PeerPc = "told"
      <3>1. main_pc \in {"childs", "free"}
        BY <2>1 DEF PeerPc
      <3> QED BY <1>1, <2>1, <3>1, RoundFacts DEF n_
    <2>2. CASE PeerPc # "told"
      <3>1. PICK b \in SP!Buf : b = swp_idx
        BY <1>1 DEF SenderInv, SP!TypeOK
      <3>2. SP!RingInv /\ SP!FileInv /\ SP!BookInv
        BY <1>1 DEF SenderInv, SP!ContentInv, SP!BoundaryInv, SP!Calm, Calm
      <3>3. SP!Pos <= file_pos /\ SP!Pos \in Int /\ file_pos \in Nat
        BY <1>1, <3>2 DEF SP!Pos, SP!FileInv, SenderInv, SP!TypeOK
      <3>4. sent = IF SP!Occupied(b) THEN SP!Begin(b) ELSE SP!Pos
        BY <3>1, <3>2 DEF SP!RingInv, SP!EndsInv
      <3>5. SP!Occupied(b) => SP!Begin(b) <= SP!Pos
        BY <1>1, <3>2, <3>3 DEF SP!BookInv, SP!Begin, SP!Upto, SenderInv, SP!TypeOK
      <3> QED BY <1>3, <2>2, <3>3, <3>4, <3>5 DEF n_
    <2> QED BY <2>1, <2>2
  <1>6. file_pos \in Nat
    BY <1>1 DEF SenderInv, SP!TypeOK
  <1>7. Len(out) <= file_pos /\ sent <= file_len
    <2>1. file_pos <= file_len /\ file_len \in Nat
      BY <1>1 DEF SenderInv, SP!BoundaryInv, SP!FileInv, SP!TypeOK
    <2> QED BY <1>3, <1>4, <1>5, <1>6, <2>1
  <1>8. PeerPc = "own" => n = 0 /\ n_ = 0
    BY <1>2 DEF RP!RoundInv, RP!Turn, RP!Round, RP!Gather, RP!Over, n_
  <1>9. r_main_pc \in {"quit", "reap", "exit"} => n = 0 /\ n_ = 0 /\ PeerPc = "over"
    BY <1>2 DEF RP!RoundInv, RP!Turn, RP!Round, RP!Gather, RP!Over, n_
  <1>10. r_main_pc = "say" /\ need_write = 0 => n = 0 /\ n_ = 0 /\ PeerPc = "over"
    BY <1>2 DEF RP!RoundInv, RP!Turn, RP!Round, RP!Gather, RP!Over, n_
  <1>11. ASSUME r_main_pc = "write"
         PROVE  /\ need_write \in 1 .. SWAP_BUF_SIZE /\ Len(out) + need_write = sent
                /\ R!Gathered(need_write) = [p \in 1 .. need_write |-> Len(out) + p - 1]
    <2>1. n > 0 /\ need_write = n /\ n_ = 0 /\ \A i \in RP!Child : RP!Has(i, n)
      BY <1>2, <1>11 DEF RP!RoundInv, RP!Turn, RP!Round, RP!Gather, RP!Over, n_
    <2>2. RP!Base(n) = Len(out) /\ RP!Base(n) \in Nat
      BY <1>2, <1>3, <1>4 DEF RP!RoundInv, RP!Output
    <2>3. n \in 0 .. n
      BY <1>3
    <2>4. RP!Gathered(n) = [p \in 1 .. n |-> RP!Base(n) + p - 1]
      BY <2>1, <2>2, <2>3, Constants, RP!GatheredIs
    <2>5. R!Gathered(n) = RP!Gathered(n)
      BY DEF R!Gathered, RP!Gathered
    <2>6. n \in 1 .. SWAP_BUF_SIZE
      BY <2>1 DEF RP!SWAP_BUF_SIZE, SWAP_BUF_SIZE
    <2>7. Len(out) + n = sent
      BY <1>3, <1>4, <2>1
    <2> QED BY <2>1, <2>2, <2>4, <2>5, <2>6, <2>7
  <1> QED BY <1>3, <1>4, <1>7, <1>8, <1>9, <1>10, <1>11

LEMMA InitFail == Init => FailInv
  BY DEF Init, S!Init, FailInv

LEMMA ShortBack == ASSUME [Next]_vars, ~short' PROVE ~short
  <1>1. CASE ReaderMain
    BY <1>1 DEF ReaderMain, ReaderProcess, R!R_Main, R!RM_ChainWait, R!RM_Gather, R!RM_Sum, R!RM_Write,
       R!RM_SayReady, R!RM_QuitChilds, R!RM_Wait, R!RM_Cleanup
  <1>2. CASE SenderMain \/ CutShort \/ LastPid
    BY <1>2 DEF SenderMain, CutShort, SenderProcess, readerVars, LastPid
  <1> QED BY <1>1, <1>2, ReaderCut, OtherSteps

LEMMA Appended ==
  ASSUME NEW o \in Seq(Int), NEW g \in Seq(Int)
  PROVE  /\ Len(o \o g) = Len(o) + Len(g)
         /\ \A p \in 1 .. Len(o) : (o \o g)[p] = o[p]
  OBVIOUS

LEMMA FailKept == ASSUME SharedInv, ReaderInv, FailInv, [Next]_vars PROVE FailInv'
  <1> SUFFICES ASSUME Calm', ~lost', readed_bytes' < 0, ~short', ~r_cut'
               PROVE  /\ \A p \in 1 .. sent' : out'[p] = p - 1
                      /\ IF LastRound' THEN Len(out') = sent' ELSE Len(out') \in sent' .. sent' + SWAP_BUF_SIZE
    BY DEF FailInv
  <1>1. Calm /\ ~lost /\ ~short /\ ~r_cut /\ ~ReaderCutShort /\ SenderInv /\ TurnInv
    BY CalmBack, LostBack, ShortBack, CutBack DEF SharedInv
  <1>2. readed_bytes \in Int /\ sent \in Nat /\ SWAP_BUF_SIZE \in Nat /\ out \in Seq(Int)
    BY <1>1 DEF SenderInv, SP!TypeOK, SWAP_BUF_SIZE, SharedInv, SizeInv
  <1>3. CASE readed_bytes >= 0
    <2>1. main_pc = "get" /\ SenderMain /\ S!Main_GetBytes
      BY <1>2, <1>3, BytesKept
    <2>2. UNCHANGED <<out, sent>> /\ main_pc' = "send"
      BY <2>1 DEF SenderMain, SenderProcess, readerVars, S!Main_GetBytes, S!MainPc
    <2>3. PeerPc = "own" /\ Sane
      BY <1>1, <1>3, <2>1 DEF PeerPc, Sane
    <2>4. Len(out) = sent /\ \A p \in 1 .. Len(out) : out[p] = p - 1
      BY <1>1, <2>3, OutputSoFar
    <2> QED BY <2>2, <2>4 DEF LastRound
  <1>4. CASE readed_bytes < 0
    <2>1. /\ \A p \in 1 .. sent : out[p] = p - 1
          /\ IF LastRound THEN Len(out) = sent ELSE Len(out) \in sent .. sent + SWAP_BUF_SIZE
      BY <1>1, <1>4 DEF FailInv
    <2>2. UNCHANGED readed_bytes
      BY <1>1, <1>4, StuckStays
    <2>3. SP!StuckInv
      BY <1>1 DEF SenderInv, SP!BoundaryInv, SP!Calm, Calm
    <2>4. ASSUME UNCHANGED <<out, sent>>, LastRound => Len(out) = sent,
                 LastRound' => LastRound
          PROVE  /\ \A p \in 1 .. sent' : out'[p] = p - 1
                 /\ IF LastRound' THEN Len(out') = sent' ELSE Len(out') \in sent' .. sent' + SWAP_BUF_SIZE
      BY <1>2, <2>1, <2>4
    <2>5. LastRound => Len(out) = sent
      BY <2>1
    <2>6. CASE SenderMain
      <3>1. UNCHANGED <<out, r_main_pc>> /\ S!Main
        BY <2>6 DEF SenderMain, SenderProcess, readerVars
      <3> USE DEF S!MainPc, S!mainData
      <3>2. \/ main_pc \in {"send", "childs", "free", "say"}
            \/ S!Main_ChainWait
        <4>1. swap_sem[swp_idx] \in Int
          BY <1>1 DEF SenderInv, SP!TypeOK
        <4>2. ~S!Main_TakeFull \/ main_pc # "take"
          BY <1>4, <2>3, <4>1 DEF SP!StuckInv, S!Main_TakeFull
        <4>3. main_pc \in {"send", "childs", "free", "say", "chain", "take"}
          BY <1>4, <2>3 DEF SP!StuckInv
        <4> QED BY <3>1, <4>2, <4>3 DEF S!Main, S!Main_Boot, S!Main_TakeFull, S!Main_GetBytes,
           S!Main_SendSwapBuffer, S!Main_WaitChilds, S!Main_FreeBuffer, S!Main_SayReady,
           S!Main_QuitChilds, S!Main_Wait, S!Main_Cleanup
      <3>3. sent' = sent
        BY <1>2, <1>4, <3>1 DEF S!Main, S!Main_Boot, S!Main_TakeFull, S!Main_GetBytes, S!Main_ChainWait, S!Advance,
           S!Main_SendSwapBuffer, S!Main_WaitChilds, S!Main_FreeBuffer, S!Main_SayReady,
           S!Main_QuitChilds, S!Main_Wait, S!Main_Cleanup
      <3>4. LastRound' => LastRound
        BY <3>1, <3>2 DEF LastRound, S!Main_ChainWait
      <3> QED BY <2>4, <2>5, <3>1, <3>3, <3>4
    <2>7. CASE ReaderMain /\ ~R!RM_Write
      <3>1. UNCHANGED <<main_pc, sent>> /\ R!R_Main
        BY <2>7 DEF ReaderMain, ReaderProcess, senderVars
      <3> USE DEF R!R_MainPc, R!chainVars
      <3>2. UNCHANGED out /\ (LastRound' => LastRound)
        BY <2>7, <3>1 DEF R!R_Main, R!RM_ChainWait, R!RM_Gather, R!RM_Sum, R!AfterSum, R!RM_SayReady,
           R!RM_QuitChilds, R!RM_Wait, R!RM_Cleanup, LastRound
      <3> QED BY <2>4, <2>5, <3>1, <3>2
    <2>8. CASE ReaderMain /\ R!RM_Write
      <3>1. UNCHANGED <<main_pc, sent, is_first>> /\ r_main_pc = "write" /\ r_main_pc' = "say" /\ UNCHANGED reader_urg
        BY <2>8 DEF ReaderMain, ReaderProcess, senderVars, R!RM_Write, R!R_MainPc, R!chainVars
      <3>2. PICK k \in 0 .. need_write : out' = out \o R!Gathered(k)
        BY <2>8 DEF R!RM_Write
      <3>3. k \in 0 .. SWAP_BUF_SIZE
        BY DEF SharedInv, SizeInv, SWAP_BUF_SIZE
      <3>4. R!Gathered(k) \in Seq(Int) /\ Len(R!Gathered(k)) = k
        <4>1. R!Gathered(k) \in Seq(Int)
          BY <3>3, SliceTypes DEF SharedInv, SizeInv
        <4>2. DOMAIN R!Gathered(k) = 1 .. k /\ k \in Nat
          BY <1>2, <3>3 DEF R!Gathered
        <4> QED BY <4>1, <4>2
      <3>5. Len(out) = sent /\ ~LastRound'
        <4>1. LastRound
          BY <3>1 DEF LastRound
        <4>2. ~LastRound'
          BY <1>1, <3>1 DEF LastRound, TurnInv, ReaderTurn, SenderTurn
        <4> QED BY <2>5, <4>1, <4>2
      <3>6. Len(out') = sent + k /\ \A p \in 1 .. Len(out) : out'[p] = out[p]
        BY <1>2, <3>2, <3>4, <3>5, Appended
      <3> QED BY <1>2, <2>1, <3>1, <3>3, <3>5, <3>6
    <2>9. CASE CutShort \/ LastPid
      <3>1. UNCHANGED <<out, sent, main_pc, r_main_pc, reader_urg>>
        <4>1. CASE CutShort
          BY <4>1 DEF CutShort, SenderProcess, readerVars, S!Alarm, S!NoWaitSemop, S!LeaveSemop,
             S!Asleep, S!peerVars, S!chainVars, Calm
        <4>2. CASE LastPid
          BY <4>2, PairTypes, <1>1 DEF LastPid, senderVars, readerVars
        <4> QED BY <2>9, <4>1, <4>2
      <3>2. LastRound' => LastRound
        BY <3>1 DEF LastRound
      <3> QED BY <2>4, <2>5, <3>1, <3>2
    <2>10. CASE ~(SenderMain \/ CutShort \/ ReaderMain \/ LastPid)
      <3>1. UNCHANGED <<out, sent, main_pc, r_main_pc, reader_urg>>
        BY <1>1, <2>10, OtherSteps
      <3>2. LastRound' => LastRound
        BY <3>1 DEF LastRound
      <3> QED BY <2>4, <2>5, <3>1, <3>2
    <2> QED BY <2>6, <2>7, <2>8, <2>9, <2>10
  <1> QED BY <1>2, <1>3, <1>4

EveryInv == SharedInv /\ ReaderInv /\ FailInv

\* The invariants of the sender, of the reader and of what is between them.
LEMMA EveryInvCorrect == SafeSpec => []EveryInv
  <1>1. Init => SharedInv /\ ReaderInv /\ FailInv
    BY InitSender, InitTurn, InitSize, InitPiece, InitReader, InitFail DEF SharedInv
  <1>2. EveryInv /\ [Next]_vars => EveryInv'
    BY SenderInvKept, TurnKept, SizeKept, PieceKept, ReaderInvKept, FailKept DEF EveryInv, SharedInv
  <1> QED BY <1>1, <1>2, PTL DEF SafeSpec, EveryInv

\* As long as no semop() is cut short and no write() writes less, the output is the input
\* file byte by byte, but for one round that is sent for a failed read().
THEOREM PrefixCopied == SafeSpec => []OutputIsPrefix
  <1>1. EveryInv => OutputIsPrefix
    <2> SUFFICES ASSUME EveryInv, Calm, ~short, ~r_cut
                 PROVE  /\ Len(out) <= file_pos + (IF readed = -1 THEN BUFFER_SIZE * N_CHILDS ELSE 0)
                        /\ \A p \in 1 .. Len(out) : p <= file_pos => out[p] = p - 1
      BY DEF OutputIsPrefix
    <2>1. SharedInv /\ ReaderInv /\ FailInv /\ SenderInv /\ TurnInv
      BY DEF EveryInv, SharedInv
    <2>2. file_pos \in Nat /\ readed_bytes \in Int /\ out \in Seq(Int) /\ SWAP_BUF_SIZE \in Nat
          /\ SWAP_BUF_SIZE = BUFFER_SIZE * N_CHILDS
      BY <2>1 DEF SharedInv, SenderInv, SP!TypeOK, SizeInv, SWAP_BUF_SIZE
    <2>3. CASE lost
      <3>1. out = <<>>
        BY <2>1, <2>3 DEF TurnInv
      <3> QED BY <2>2, <3>1
    <2>4. CASE ~lost /\ readed_bytes >= 0
      <3>1. Sane
        BY <2>4 DEF Sane
      <3> QED BY <2>1, <2>2, <3>1, OutputSoFar
    <2>5. CASE ~lost /\ readed_bytes < 0
      <3>1. readed = -1 /\ sent = file_pos
        BY <2>1, <2>5 DEF SenderInv, SP!BoundaryInv, SP!StuckInv, SP!Calm, Calm
      <3>2. /\ \A p \in 1 .. sent : out[p] = p - 1
            /\ Len(out) <= sent + SWAP_BUF_SIZE
        BY <2>1, <2>2, <2>5, <3>1 DEF FailInv
      <3> QED BY <2>2, <3>1, <3>2
    <2> QED BY <2>2, <2>3, <2>4, <2>5
  <1> QED BY <1>1, EveryInvCorrect, PTL

\* The end of the file is sent for when every byte of it is.
LEMMA AllSent ==
  ASSUME SenderInv, Healthy, PeerPc = "over" PROVE sent = file_len
  <1>1. PICK b \in SP!Buf : b = swp_idx
    BY DEF SenderInv, SP!TypeOK
  <1>2. SP!RingInv /\ SP!StageInv /\ SP!FileInv /\ SP!BookInv
    BY DEF SenderInv, SP!ContentInv, SP!BoundaryInv, SP!Calm, Calm, Healthy
  <1>3. main_pc \in {"quit", "reap", "exit"} /\ readed_bytes = 0
    BY <1>2 DEF PeerPc, SP!StageInv, SenderInv, SP!TypeOK, SP!MainPcs
  <1>4. SP!Owns /\ SP!Occupied(b)
    BY <1>1, <1>3 DEF SP!Owns, SP!Occupied
  <1>5. active_bytes[b] = 0
    BY <1>1, <1>2, <1>3, <1>4 DEF SP!RingInv, SP!HandsInv
  <1>6. sent = SP!Pos
    BY <1>1, <1>2, <1>4, <1>5 DEF SP!RingInv, SP!EndsInv, SP!Begin
  <1>7. rt_pc = "done" /\ readed = 0
    BY <1>2, <1>4, <1>5 DEF SP!RingInv, SP!ChainInv, SP!BookInv
  <1> QED BY <1>2, <1>6, <1>7 DEF SP!Pos, SP!FileInv

\* When the reader's master has left its main loop, the whole file is in the output.
THEOREM AllCopied == SafeSpec => []WholeFileCopied
  <1>1. EveryInv => WholeFileCopied
    <2> SUFFICES ASSUME EveryInv, Intact, r_main_pc \in {"quit", "reap", "exit"} PROVE Len(out) = file_len
      BY DEF WholeFileCopied
    <2>1. Healthy /\ Sane /\ ~short /\ ~r_cut /\ SenderInv
      BY HealthySane DEF Intact, EveryInv, SharedInv
    <2>2. Len(out) = sent /\ PeerPc = "over"
      BY <2>1, OutputSoFar DEF EveryInv
    <2> QED BY <2>1, <2>2, AllSent
  <1> QED BY <1>1, EveryInvCorrect, PTL

\* The output changes in one place, and the reader leaves its loop in one.
LEMMA OutputSteps ==
  ASSUME [Next]_vars, ~(ReaderMain /\ (R!RM_Write \/ R!RM_SayReady)) PROVE UNCHANGED Transfer!vars
  <1>1. UNCHANGED file_len
    BY DEF Next, ReaderThread, SenderMain, CutShort, ReaderMain, ReaderCutShort, LastPid, SenderChild, ReaderChild,
       SenderProcess, ReaderProcess, senderVars, Ended, vars, S!ReaderThread, S!Main, S!rtVars, S!Alarm,
       S!NoWaitSemop, S!ChildStep
  <1>2. CASE ReaderMain
    <2>1. UNCHANGED out /\ (r_main_pc' \in {"quit", "reap", "exit"} <=> r_main_pc \in {"quit", "reap", "exit"})
      BY <1>2 DEF ReaderMain, ReaderProcess, R!R_Main, R!R_MainPc, R!RM_ChainWait, R!RM_Gather, R!RM_Sum,
         R!AfterSum, R!RM_QuitChilds, R!RM_Wait, R!RM_Cleanup
    <2> QED BY <1>1, <2>1 DEF Transfer!vars
  <1>3. CASE ~ReaderMain /\ ~ReaderCutShort
    <2>1. UNCHANGED <<out, r_main_pc>>
      BY <1>3, OtherSteps DEF SenderMain, CutShort, SenderProcess, readerVars, LastPid
    <2> QED BY <1>1, <2>1 DEF Transfer!vars
  <1>4. CASE ReaderCutShort
    BY <1>1, <1>4, ReaderCut DEF Transfer!vars
  <1> QED BY <1>2, <1>3, <1>4

\* The two programs together copy the file chunk by chunk.
THEOREM TransferSafety == SafeSpec => CopiesByChunks
  <1>1. Init => Transfer!Init
    BY DEF Init, S!Init, R!Init, Transfer!Init
  <1>2. ASSUME EveryInv, SharedInv', WholeFileCopied', [Next]_vars, Intact', ReaderMain, R!RM_Write
        PROVE  Transfer!Write
    <2>1. Sane /\ SharedInv /\ SenderInv /\ ReaderInv /\ ~r_cut
      BY <1>2, HealthySane, SaneBack, CutBack, PTL DEF Intact, EveryInv, SharedInv
    <2>2. r_main_pc = "write" /\ r_main_pc' = "say" /\ UNCHANGED <<file_len, sent, file_pos>>
      BY <1>2 DEF ReaderMain, ReaderProcess, senderVars, R!RM_Write, R!R_MainPc
    <2>3. PICK n \in 0 .. need_write : out' = out \o R!Gathered(n) /\ short' = (short \/ n < need_write)
      BY <1>2 DEF R!RM_Write
    <2>4. ~short /\ n = need_write
      <3>1. ~short' /\ short \in BOOLEAN /\ need_write \in 0 .. SWAP_BUF_SIZE /\ SWAP_BUF_SIZE \in Nat
        BY <1>2, <2>1 DEF Intact, SharedInv, SizeInv, SWAP_BUF_SIZE
      <3>2. ~short /\ ~(n < need_write)
        BY <2>3, <3>1
      <3> QED BY <2>3, <3>1, <3>2
    <2>5. /\ need_write \in 1 .. SWAP_BUF_SIZE /\ Len(out) + need_write = sent
          /\ R!Gathered(need_write) = [p \in 1 .. need_write |-> Len(out) + p - 1]
          /\ sent <= file_len
      BY <2>1, <2>2, <2>4, OutputSoFar
    <2> QED BY <2>2, <2>3, <2>4, <2>5 DEF Transfer!Write, Transfer!NextBytes, SWAP_BUF_SIZE
  <1>3. ASSUME WholeFileCopied', [Next]_vars, Intact', ReaderMain, R!RM_SayReady
        PROVE  [Transfer!Next]_(Transfer!vars)
    <2>1. /\ r_main_pc = "say" /\ r_main_pc' = (IF need_write > 0 THEN "chain" ELSE "quit")
          /\ UNCHANGED <<file_len, out>>
      BY <1>3 DEF ReaderMain, ReaderProcess, senderVars, R!RM_SayReady, R!R_MainPc
    <2>2. CASE need_write > 0
      BY <2>1, <2>2 DEF Transfer!vars
    <2>3. CASE ~(need_write > 0)
      <3>1. Transfer!Stop
        BY <1>3, <2>1, <2>3 DEF WholeFileCopied, Transfer!Stop
      <3> QED BY <3>1 DEF Transfer!Next
    <2> QED BY <2>2, <2>3
  <1>4. EveryInv /\ EveryInv' /\ WholeFileCopied' /\ [Next]_vars => [Intact' => Transfer!Next]_(Transfer!vars)
    BY <1>2, <1>3, OutputSteps DEF EveryInv, Transfer!Next
  <1> QED BY <1>1, <1>4, EveryInvCorrect, AllCopied, PTL DEF SafeSpec, CopiesByChunks
=============================================================================
