--------------------------- MODULE HandshakeProofs ---------------------------
(***************************************************************************)
(* Proofs, for every number of children, attempts and strangers, of what    *)
(* HandshakeProperties states.                                             *)
(***************************************************************************)
EXTENDS HandshakeProperties, TLAPS

USE HandshakeAssumption

\* The inductive invariant.
HInv == TypeOK /\ InStep /\ CfgsRight

LEMMA HInit == Init => HInv
  <1> SUFFICES ASSUME Init PROVE HInv
    OBVIOUS
  <1>1. 0 \in Child
    BY DEF Child
  <1>2. TypeOK
    <2>1. cfg \in [Child -> Child \cup {None}]
      BY DEF Init
    <2>2. attempts \in 0 .. Attempts /\ strangers \in 0 .. Strangers /\ s_i \in 0 .. N_CHILDS
      BY DEF Init
    <2> QED BY <1>1, <2>1, <2>2 DEF Init, TypeOK, SenderPcs, ReaderPcs
  <1>3. InStep
    BY <1>1 DEF Init, InStep
  <1>4. CfgsRight
    BY DEF Init, CfgsRight, Child
  <1> QED BY <1>2, <1>3, <1>4 DEF HInv

\* The sender's loop moves on in step with the pid it has read.
LEMMA HSender == ASSUME HInv, S_Step PROVE HInv'
  <1> USE DEF HInv, TypeOK, InStep, CfgsRight, SenderPcs, ReaderPcs, readerVars, Child, None
  <1>1. CASE S_Start
    BY <1>1 DEF S_Start
  <1>2. CASE S_Ask
    BY <1>2 DEF S_Ask
  <1>3. CASE S_Read
    <2>1. s_i \in Child /\ usr1 = s_i
      BY <1>3 DEF S_Read
    <2>2. cfg' = [cfg EXCEPT ![s_i] = s_i]
      BY <1>3, <2>1 DEF S_Read
    <2> QED BY <1>3, <2>1, <2>2 DEF S_Read
  <1>4. CASE S_Say
    <2>1. s_i \in Child /\ cfg[s_i] = s_i /\ s_i' = s_i + 1 /\ cfg' = cfg
      BY <1>4 DEF S_Say
    <2>2. urg' \in {"none", "sender", "stranger"} /\ (r_pc = "error" => urg' # "sender")
      BY <1>4 DEF S_Say, SayToReader, Blocked
    <2>3. CfgsRight'
      BY <1>4, <2>1 DEF S_Say
    <2> QED BY <1>4, <2>1, <2>2, <2>3 DEF S_Say
  <1>5. CASE S_IgnoreTimeout
    BY <1>5 DEF S_IgnoreTimeout
  <1>6. CASE S_Chain
    BY <1>6 DEF S_Chain, SayToReader, Blocked
  <1> QED BY <1>1, <1>2, <1>3, <1>4, <1>5, <1>6 DEF S_Step

\* The reader sends the next pid only when the sender has read the last one.
LEMMA HReader == ASSUME HInv, R_Step PROVE HInv'
  <1> USE DEF HInv, TypeOK, InStep, CfgsRight, SenderPcs, ReaderPcs, senderVars, Child, None
  <1>1. CASE R_SetHandler
    BY <1>1 DEF R_SetHandler
  <1>2. CASE R_Send
    BY <1>2 DEF R_Send
  <1>3. CASE R_TakeUrg
    <2>1. attempts' \in 0 .. Attempts
      BY <1>3 DEF R_TakeUrg
    <2>2. CASE attempts' = 0
      BY <1>3, <2>2 DEF R_TakeUrg
    <2>3. CASE attempts' # 0 /\ urg = "sender"
      BY <1>3, <2>1, <2>3 DEF R_TakeUrg, R_NextPid
    <2>4. CASE attempts' # 0 /\ urg # "sender"
      BY <1>3, <2>1, <2>4 DEF R_TakeUrg
    <2> QED BY <2>2, <2>3, <2>4
  <1>4. CASE R_Chain
    BY <1>4 DEF R_Chain
  <1> QED BY <1>1, <1>2, <1>3, <1>4 DEF R_Step

LEMMA HOthers == ASSUME HInv, S_Alarm \/ Stranger \/ Stop PROVE HInv'
  <1> USE DEF HInv, TypeOK, InStep, CfgsRight, SenderPcs, ReaderPcs, readerVars, Child, None
  <1>1. CASE S_Alarm
    BY <1>1 DEF S_Alarm
  <1>2. CASE Stranger
    BY <1>2 DEF Stranger, senderVars, SayToReader, Blocked
  <1>3. CASE Stop
    BY <1>3 DEF Stop, vars, senderVars
  <1> QED BY <1>1, <1>2, <1>3

\* A step that changes nothing keeps what holds.
LEMMA HStutter == ASSUME HInv, UNCHANGED vars PROVE HInv'
  BY DEF HInv, TypeOK, InStep, CfgsRight, vars, senderVars, readerVars

\* The invariant holds in every state (sender_get_pids_thread, send_pids_thread).
THEOREM HandshakeInv == SafeSpec => []HInv
  <1>1. HInv /\ [Next]_vars => HInv'
    BY HSender, HReader, HOthers, HStutter DEF Next
  <1> QED BY <1>1, HInit, PTL DEF SafeSpec

\* The two loops keep step, for any number of children and strangers.
THEOREM LoopsInStep == Spec => []InStep
  BY HandshakeInv, PTL DEF HInv, Spec

\* Every pid lands at its child's place, for any number of children and strangers.
THEOREM PidsRight == Spec => []CfgsRight
  BY HandshakeInv, PTL DEF HInv, Spec

-----------------------------------------------------------------------------
\* As long as no stranger has sent a SIGURG, every SIGURG is the sender's and none is
\* lost before the chain (SessionStart rests on it).
Alone ==
  strangers = Strangers =>
    /\ urg # "stranger" /\ r_pc # "error"
    /\ r_pc = "wait" => attempts = Attempts
    /\ r_pc = "wait" /\ urg = "none" => s_pc \in {"read", "say", "dead"} /\ s_i = r_i
    /\ r_pc = "wait" /\ urg = "sender" /\ s_i = N_CHILDS => r_i = N_CHILDS - 1
    /\ r_pc \in {"chain", "turn"} => s_pc \in {"done", "chain", "turn", "dead"}
    /\ r_pc = "chain" /\ urg = "sender" => s_pc \in {"turn", "dead"}
    /\ r_pc = "turn" => s_pc \in {"turn", "dead"}
    /\ s_pc \in {"done", "chain"} => r_pc \in {"wait", "chain"}

LEMMA AInit == Init => Alone
  BY DEF Init, Alone

LEMMA ASender == ASSUME HInv, Alone, S_Step PROVE Alone'
  <1> USE DEF HInv, TypeOK, InStep, Alone, SenderPcs, ReaderPcs, readerVars, Child, None
  <1>1. CASE S_Start
    BY <1>1 DEF S_Start
  <1>2. CASE S_Ask
    BY <1>2 DEF S_Ask
  <1>3. CASE S_Read
    BY <1>3 DEF S_Read
  <1>4. CASE S_Say
    <2> SUFFICES ASSUME strangers = Strangers PROVE Alone'
      BY <1>4 DEF S_Say
    <2>1. r_pc = "wait" /\ urg = "none" /\ r_i = s_i
      BY <1>4 DEF S_Say
    <2> QED BY <1>4, <2>1 DEF S_Say, SayToReader, Blocked
  <1>5. CASE S_IgnoreTimeout
    BY <1>5 DEF S_IgnoreTimeout
  <1>6. CASE S_Chain
    BY <1>6 DEF S_Chain, SayToReader, Blocked
  <1> QED BY <1>1, <1>2, <1>3, <1>4, <1>5, <1>6 DEF S_Step

LEMMA AReader == ASSUME HInv, Alone, R_Step PROVE Alone'
  <1> USE DEF HInv, TypeOK, InStep, CfgsRight, Alone, SenderPcs, ReaderPcs, senderVars, Child, None
  <1>1. CASE R_SetHandler
    BY <1>1 DEF R_SetHandler
  <1>2. CASE R_Send
    BY <1>2 DEF R_Send
  <1>3. CASE R_TakeUrg
    <2> SUFFICES ASSUME strangers = Strangers PROVE Alone'
      BY <1>3 DEF R_TakeUrg
    <2>1. urg = "sender" /\ attempts = Attempts /\ s_i = r_i + 1
      BY <1>3 DEF R_TakeUrg
    <2>2. attempts' # 0
      BY <1>3, <2>1 DEF R_TakeUrg
    <2> QED BY <1>3, <2>1, <2>2 DEF R_TakeUrg, R_NextPid
  <1>4. CASE R_Chain
    BY <1>4 DEF R_Chain
  <1> QED BY <1>1, <1>2, <1>3, <1>4 DEF R_Step

LEMMA AOthers == ASSUME HInv, Alone, S_Alarm \/ Stranger \/ Stop PROVE Alone'
  <1> USE DEF HInv, TypeOK, InStep, Alone, SenderPcs, ReaderPcs, readerVars, Child, None
  <1>1. CASE S_Alarm
    BY <1>1 DEF S_Alarm
  <1>2. CASE Stranger
    BY <1>2 DEF Stranger
  <1>3. CASE Stop
    BY <1>3 DEF Stop, vars, senderVars
  <1> QED BY <1>1, <1>2, <1>3

LEMMA AStutter == ASSUME Alone, UNCHANGED vars PROVE Alone'
  BY DEF Alone, vars, senderVars, readerVars

LEMMA AloneStarts == ASSUME HInv, Alone PROVE SessionStart
  BY DEF HInv, TypeOK, InStep, CfgsRight, Alone, SessionStart, SenderPcs, ReaderPcs, Child

\* What Session starts from is what the handshake ends with, for any number of children
\* (sender.c:115-116, reader.c:241-242).
THEOREM HandsOver == Spec => []SessionStart
  <1>1. HInv /\ Alone /\ [Next]_vars => Alone'
    BY ASender, AReader, AOthers, AStutter DEF Next
  <1>2. SafeSpec => []Alone
    BY <1>1, HandshakeInv, AInit, PTL DEF SafeSpec
  <1>3. HInv /\ Alone => SessionStart
    BY AloneStarts
  <1> QED BY <1>2, <1>3, HandshakeInv, PTL DEF Spec

-----------------------------------------------------------------------------
\* Every attempt that is gone was spent on a SIGURG of a stranger: the one that is
\* answered with the next pid gives a new count.
Counted ==
  /\ urg = "stranger" => strangers < Strangers
  /\ r_pc = "wait" => Attempts - attempts <= Strangers - strangers
  /\ r_pc = "wait" /\ urg = "stranger" => Attempts - attempts < Strangers - strangers
  /\ GivesUpForStrangers

LEMMA CInit == Init => Counted
  BY DEF Init, Counted, GivesUpForStrangers

LEMMA CStep == ASSUME HInv, Counted, [Next]_vars PROVE Counted'
  <1> USE DEF HInv, TypeOK, Counted, GivesUpForStrangers
  <1>1. CASE S_Step
    <2>1. S_Start \/ S_Ask \/ S_Read \/ S_IgnoreTimeout => Counted'
      BY DEF S_Start, S_Ask, S_Read, S_IgnoreTimeout, readerVars
    <2>2. S_Say \/ S_Chain => Counted'
      BY DEF S_Say, S_Chain, SayToReader, readerVars
    <2> QED BY <1>1, <2>1, <2>2 DEF S_Step
  <1>2. CASE R_SetHandler \/ R_Send \/ R_Chain
    BY <1>2 DEF R_SetHandler, R_Send, R_Chain, senderVars
  <1>3. CASE R_TakeUrg
    <2>1. CASE attempts' = 0
      <3>1. attempts = 1 /\ r_pc = "wait" /\ urg' = "none" /\ strangers' = strangers
        BY <1>3, <2>1 DEF R_TakeUrg
      <3>2. r_pc' = "error"
        BY <1>3, <2>1 DEF R_TakeUrg
      <3> QED BY <3>1, <3>2
    <2>2. CASE attempts' # 0 /\ urg = "sender"
      BY <1>3, <2>2 DEF R_TakeUrg, R_NextPid
    <2>3. CASE attempts' # 0 /\ urg # "sender"
      <3>1. urg = "stranger" /\ urg' = "none" /\ strangers' = strangers
        BY <1>3, <2>3 DEF R_TakeUrg
      <3>2. r_pc = "wait" /\ r_pc' = "wait" /\ attempts' = attempts - 1
        BY <1>3, <2>3 DEF R_TakeUrg
      <3> QED BY <3>1, <3>2
    <2> QED BY <2>1, <2>2, <2>3
  <1>4. CASE Stranger
    BY <1>4 DEF Stranger, SayToReader, senderVars, readerVars
  <1>5. CASE S_Alarm \/ Stop \/ UNCHANGED vars
    BY <1>5 DEF S_Alarm, Stop, vars, senderVars, readerVars
  <1> QED BY <1>1, <1>2, <1>3, <1>4, <1>5 DEF Next, R_Step

\* The reader gives up only when others sent it Attempts - 1 SIGURGs or more, for any
\* number of children, attempts and strangers (wait_until_readyp).
THEOREM GivesUpRightly == Spec => []GivesUpForStrangers
  <1>1. HInv /\ Counted /\ [Next]_vars => Counted'
    BY CStep
  <1> QED BY <1>1, HandshakeInv, CInit, PTL DEF Spec, SafeSpec, Counted
=============================================================================
