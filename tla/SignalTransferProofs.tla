------------------------ MODULE SignalTransferProofs -------------------------
(***************************************************************************)
(* Proofs, for every number of words and of real-time signals, of what      *)
(* SignalTransferProperties states.                                        *)
(***************************************************************************)
EXTENDS SignalTransferProperties, SequenceTheorems, TLAPS

USE TransferAssumption

-----------------------------------------------------------------------------
(* The kernel's queues *)

LEMMA Numbers ==
  /\ SIGQUIT \in Mask /\ SIGUSR1 \in Mask /\ SIGUSR2 \in Mask
  /\ SIGQUIT < START_SIGNAL /\ SIGUSR1 < START_SIGNAL /\ SIGUSR2 < START_SIGNAL
  /\ \A n \in Array : START_SIGNAL + n \in Mask /\ START_SIGNAL + n >= START_SIGNAL
  /\ \A n \in Mask : n < START_SIGNAL => n \in {SIGQUIT, SIGUSR1, SIGUSR2}
  /\ \A n \in Mask : n >= START_SIGNAL => n - START_SIGNAL \in Array
  BY DEF SIGQUIT, SIGUSR1, SIGUSR2, START_SIGNAL, Mask, Array

LEMMA QueueIs ==
  ASSUME TypeOK, NEW n \in Mask, NEW info \in Infos, Queue(n, info)
  PROVE  /\ to_r' \in [urg : BOOLEAN, q : [Mask -> Seq(Infos)]] /\ to_r'.urg = to_r.urg
         /\ \A j \in Mask : j # n => to_r'.q[j] = to_r.q[j]
         /\ to_r'.q[n] = IF n < START_SIGNAL /\ to_r.q[n] # <<>> THEN to_r.q[n]
                         ELSE Append(to_r.q[n], info)
  <1> DEFINE new == IF n < START_SIGNAL /\ to_r.q[n] # <<>> THEN to_r.q[n]
                    ELSE Append(to_r.q[n], info)
  <1>1. to_r' = [to_r EXCEPT !.q[n] = new]
    BY DEF Queue
  <1>2. to_r.q[n] \in Seq(Infos)
    BY DEF TypeOK
  <1>3. new \in Seq(Infos)
    BY <1>2
  <1> HIDE DEF new
  <1>4. /\ to_r' \in [urg : BOOLEAN, q : [Mask -> Seq(Infos)]] /\ to_r'.urg = to_r.urg
        /\ \A j \in Mask : j # n => to_r'.q[j] = to_r.q[j]
        /\ to_r'.q[n] = new
    BY <1>1, <1>3 DEF TypeOK
  <1> QED BY <1>4 DEF new

LEMMA ReadIs ==
  ASSUME TypeOK, NEW n \in Mask, Read(n)
  PROVE  /\ to_r' \in [urg : BOOLEAN, q : [Mask -> Seq(Infos)]] /\ to_r'.urg = to_r.urg
         /\ \A j \in Mask : j # n => to_r'.q[j] = to_r.q[j]
         /\ to_r.q[n] # <<>> /\ to_r'.q[n] = Tail(to_r.q[n])
         /\ Head(to_r.q[n]) \in Infos
         /\ \A j \in Mask : j < n => to_r.q[j] = <<>>
  <1>1. to_r.q[n] \in Seq(Infos) /\ to_r.q[n] # <<>>
    BY DEF TypeOK, Read
  <1>2. Tail(to_r.q[n]) \in Seq(Infos) /\ Head(to_r.q[n]) \in Infos
    BY <1>1
  <1>3. \A j \in Mask : j < n => j \in 0 .. n - 1
    BY DEF Mask, START_SIGNAL
  <1> QED BY <1>1, <1>2, <1>3 DEF TypeOK, Read

\* A queue of one is empty after the read; an empty one has one after the send.
LEMMA OneInQueue ==
  ASSUME NEW info \in Infos
  PROVE  /\ Append(<<>>, info) = <<info>> /\ Head(<<info>>) = info /\ Tail(<<info>>) = <<>>
         /\ <<info>> # <<>>
  OBVIOUS

LEMMA InfoType ==
  /\ NoValue \in Seq(Nat)
  /\ \A pid \in {"child", "group", "master", "nobody"}, v \in Seq(Nat) : Info(pid, v) \in Infos
  /\ \A t \in Nat, p \in Nat : Word(t, p) \in Seq(Nat)
  /\ \A t \in Nat : <<t>> \in Seq(Nat)
  BY DEF Info, Infos, NoValue, Word

LEMMA ArraysType == Arrays \in Nat
  BY DEF Arrays

\* Word p is word p % SIGNAL_RANGE of array p \div SIGNAL_RANGE.
LEMMA PlaceType ==
  ASSUME NEW i \in Nat, NEW k \in Nat
  PROVE  /\ i * SIGNAL_RANGE + k \in Nat
         /\ (i + 1) * SIGNAL_RANGE + 0 = i * SIGNAL_RANGE + SIGNAL_RANGE
         /\ i < Arrays /\ k < SIGNAL_RANGE => i * SIGNAL_RANGE + k \in Slot
  <1>1. i * SIGNAL_RANGE \in Nat /\ (i + 1) * SIGNAL_RANGE = i * SIGNAL_RANGE + SIGNAL_RANGE
    OBVIOUS
  <1>2. Arrays \in Nat /\ Arrays * SIGNAL_RANGE <= Words
    BY DEF Arrays
  <1>3. i < Arrays => (i + 1) * SIGNAL_RANGE <= Arrays * SIGNAL_RANGE
    BY <1>2
  <1>4. Arrays * SIGNAL_RANGE \in Nat
    BY <1>2
  <1> QED BY <1>1, <1>2, <1>3, <1>4 DEF Slot

-----------------------------------------------------------------------------
(* Type correctness *)

LEMMA InitType == Init => TypeOK
  <1> SUFFICES ASSUME Init PROVE TypeOK
    OBVIOUS
  <1>1. Info("nobody", NoValue) \in Infos /\ NoValue \in Seq(Nat)
    BY InfoType
  <1>2. [n \in Mask |-> <<>>] \in [Mask -> Seq(Infos)]
    OBVIOUS
  <1> QED BY <1>1, <1>2 DEF Init, TypeOK

LEMMA SStepType == ASSUME TypeOK, S_Step PROVE TypeOK'
  <1> USE DEF TypeOK
  <1>0. UNCHANGED <<r, buffer, helloed, acked>>
    BY DEF S_Step
  <1>1. CASE S_Command
    <2>1. begun' = begun + 1 /\ <<begun + 1>> \in Seq(Nat)
      BY <1>1 DEF S_Command
    <2>2. to_r' \in [urg : BOOLEAN, q : [Mask -> Seq(Infos)]]
      BY <1>1, <2>1, QueueIs, InfoType, Numbers DEF S_Command
    <2>3. s' \in [pc : {"idle", "ready", "word", "say", "post", "exit"}, i : Nat, k : Nat]
      BY <1>1 DEF S_Command
    <2>4. to_s' \in [quit : BOOLEAN, usr2 : BOOLEAN, urg : BOOLEAN]
      BY <1>1 DEF S_Command
    <2>5. failed' \in BOOLEAN /\ merged' = merged
      BY <1>1 DEF S_Command
    <2> QED BY <1>0, <2>1, <2>2, <2>3, <2>4, <2>5
  <1>2. CASE S_Ready
    BY <1>0, <1>2 DEF S_Ready
  <1>3. CASE S_Word
    <2>1. s.i * SIGNAL_RANGE + s.k \in Nat
      BY PlaceType
    <2>2. Info("child", Word(begun, s.i * SIGNAL_RANGE + s.k)) \in Infos
      BY <2>1, InfoType
    <2>3. to_r' \in [urg : BOOLEAN, q : [Mask -> Seq(Infos)]]
      <3>1. CASE Queue(START_SIGNAL + s.k, Info("child", Word(begun, s.i * SIGNAL_RANGE + s.k)))
        <4>1. CASE START_SIGNAL + s.k \in Mask
          BY <2>2, <3>1, <4>1, QueueIs
        <4>2. CASE START_SIGNAL + s.k \notin Mask
          BY <3>1, <4>2 DEF Queue
        <4> QED BY <4>1, <4>2
      <3>2. CASE UNCHANGED to_r
        BY <3>2
      <3> QED BY <1>3, <3>1, <3>2 DEF S_Word
    <2>4. s' \in [pc : {"idle", "ready", "word", "say", "post", "exit"}, i : Nat, k : Nat]
      <3> DEFINE pc == IF s.k + 1 = SIGNAL_RANGE THEN "say" ELSE "word"
      <3>1. s' = [s EXCEPT !.k = s.k + 1, !.pc = pc]
        BY <1>3 DEF S_Word
      <3>2. pc \in {"idle", "ready", "word", "say", "post", "exit"} /\ s.k + 1 \in Nat
        OBVIOUS
      <3> HIDE DEF pc
      <3> QED BY <3>1, <3>2
    <2> QED BY <1>0, <1>3, <2>3, <2>4 DEF S_Word
  <1>4. CASE S_SayReady
    <2>1. s' \in [pc : {"idle", "ready", "word", "say", "post", "exit"}, i : Nat, k : Nat]
      BY <1>4 DEF S_SayReady
    <2>2. to_r' \in [urg : BOOLEAN, q : [Mask -> Seq(Infos)]] /\ merged' \in BOOLEAN
      BY <1>4 DEF S_SayReady, SayToReader
    <2> QED BY <1>0, <1>4, <2>1, <2>2 DEF S_SayReady
  <1>5. CASE S_Post
    BY <1>0, <1>5 DEF S_Post
  <1>6. CASE S_Quit
    <2>1. to_r' \in [urg : BOOLEAN, q : [Mask -> Seq(Infos)]]
      BY <1>6, QueueIs, InfoType, Numbers DEF S_Quit
    <2> QED BY <1>0, <1>6, <2>1 DEF S_Quit
  <1> QED BY <1>1, <1>2, <1>3, <1>4, <1>5, <1>6 DEF S_Step

LEMMA RSayType ==
  ASSUME TypeOK, R_Say
  PROVE  /\ to_s' \in [quit : BOOLEAN, usr2 : BOOLEAN, urg : BOOLEAN]
         /\ to_r' \in [urg : BOOLEAN, q : [Mask -> Seq(Infos)]]
         /\ merged' \in BOOLEAN
  BY DEF TypeOK, R_Say, SayToSender, SayToReader

LEMMA RStepType == ASSUME TypeOK, R_Step PROVE TypeOK'
  <1> USE DEF TypeOK
  <1>0. UNCHANGED <<s, begun, failed>>
    BY DEF R_Step
  <1>1. CASE R_Request
    BY <1>0, <1>1, ReadIs, Numbers DEF R_Request
  <1>2. CASE R_Hello
    <2>1. r' \in [pc : {"idle", "hello", "ready", "word", "say", "post", "exit"},
                  i : Nat, k : Nat, fdsi : Infos]
      BY <1>2 DEF R_Hello
    <2> QED BY <1>0, <1>2, <2>1, RSayType DEF R_Hello
  <1>3. CASE R_Ready
    BY <1>0, <1>3 DEF R_Ready
  <1>4. CASE R_Word
    <2>1. PICK n \in Mask :
            /\ Read(n)
            /\ buffer' = [buffer EXCEPT ![r.i * SIGNAL_RANGE + r.k] = Head(to_r.q[n]).value]
      BY <1>4 DEF R_Word
    <2>2. Head(to_r.q[n]).value \in Seq(Nat)
      BY <2>1, ReadIs DEF Infos
    <2>3. buffer' \in [Slot -> Seq(Nat)]
      BY <2>1, <2>2
    <2>4. to_r' \in [urg : BOOLEAN, q : [Mask -> Seq(Infos)]]
      BY <2>1, ReadIs
    <2>5. r' \in [pc : {"idle", "hello", "ready", "word", "say", "post", "exit"},
                  i : Nat, k : Nat, fdsi : Infos]
      <3> DEFINE pc == IF r.k + 1 = SIGNAL_RANGE THEN "say" ELSE "word"
      <3>1. r' = [r EXCEPT !.k = r.k + 1, !.pc = pc]
        BY <1>4 DEF R_Word
      <3>2. pc \in {"idle", "hello", "ready", "word", "say", "post", "exit"} /\ r.k + 1 \in Nat
        OBVIOUS
      <3> HIDE DEF pc
      <3> QED BY <3>1, <3>2
    <2> QED BY <1>0, <1>4, <2>3, <2>4, <2>5 DEF R_Word
  <1>5. CASE R_SayReady
    <2>1. r' \in [pc : {"idle", "hello", "ready", "word", "say", "post", "exit"},
                  i : Nat, k : Nat, fdsi : Infos]
      <3> DEFINE pc == IF r.i + 1 < Arrays THEN "ready" ELSE "post"
      <3>1. r' = [r EXCEPT !.i = r.i + 1, !.k = 0, !.pc = pc]
        BY <1>5 DEF R_SayReady, R_Next
      <3>2. pc \in {"idle", "hello", "ready", "word", "say", "post", "exit"} /\ r.i + 1 \in Nat
        OBVIOUS
      <3> HIDE DEF pc
      <3> QED BY <3>1, <3>2
    <2>2. acked' \in Nat
      BY <1>5 DEF R_SayReady, R_Next
    <2> QED BY <1>0, <1>5, <2>1, <2>2, RSayType DEF R_SayReady
  <1>6. CASE R_Post
    BY <1>0, <1>6 DEF R_Post
  <1>7. CASE R_Stop \/ R_Quit
    BY <1>0, <1>7, ReadIs, Numbers DEF R_Stop, R_Quit
  <1> QED BY <1>1, <1>2, <1>3, <1>4, <1>5, <1>6, <1>7 DEF R_Step

LEMMA MasterType == ASSUME TypeOK, Command \/ Quit \/ QuitReader PROVE TypeOK'
  <1> USE DEF TypeOK, MasterStep, counts
  <1>1. CASE Command \/ Quit
    BY <1>1 DEF Command, Quit
  <1>2. CASE QuitReader
    <2>1. to_r' \in [urg : BOOLEAN, q : [Mask -> Seq(Infos)]]
      BY <1>2, QueueIs, InfoType, Numbers DEF QuitReader
    <2> QED BY <1>2, <2>1 DEF QuitReader
  <1> QED BY <1>1, <1>2

\* Every variable of the two children and of the kernel's queues keeps its type.
LEMMA TypeCorrect == SafeSpec => []TypeOK
  <1>1. TypeOK /\ [Next]_vars => TypeOK'
    <2> SUFFICES ASSUME TypeOK, [Next]_vars PROVE TypeOK'
      OBVIOUS
    <2>1. CASE UNCHANGED vars
      BY <2>1 DEF TypeOK, vars, counts
    <2> QED BY <2>1, SStepType, RStepType, MasterType DEF Next, Ended
  <1> QED BY InitType, <1>1, PTL DEF SafeSpec
-----------------------------------------------------------------------------
(* Signals that leave the words alone *)

Std == {SIGQUIT, SIGUSR1, SIGUSR2}
SameWords == \A n \in Array : to_r'.q[START_SIGNAL + n] = to_r.q[START_SIGNAL + n]

LEMMA WordsElsewhere ==
  ASSUME NEW n \in Mask, n < START_SIGNAL,
         \A j \in Mask : j # n => to_r'.q[j] = to_r.q[j]
  PROVE  SameWords
  <1> SUFFICES ASSUME NEW a \in Array
               PROVE  to_r'.q[START_SIGNAL + a] = to_r.q[START_SIGNAL + a]
    BY DEF SameWords
  <1>1. START_SIGNAL + a \in Mask /\ START_SIGNAL + a # n
    BY Numbers DEF Mask, START_SIGNAL
  <1> QED BY <1>1

LEMMA TailOfOne ==
  ASSUME NEW q \in Seq(Infos), q # <<>>, Len(q) <= 1
  PROVE  Tail(q) = <<>>
  <1>1. Len(q) = 1
    <2>1. Len(q) \in Nat /\ Len(q) # 0
      BY EmptySeq, LenProperties
    <2>2. \A l \in Nat : l # 0 /\ l <= 1 => l = 1
      OBVIOUS
    <2> QED BY <2>1, <2>2, Zenon
  <1>2. Tail(q) \in Seq(Infos) /\ Len(Tail(q)) = 0
    BY <1>1, HeadTailProperties
  <1> QED BY <1>2, EmptySeq

\* A standard signal is merged with one that is pending, and passes the words by.
LEMMA QueueStd ==
  ASSUME TypeOK, NEW n \in Std, NEW info \in Infos, Queue(n, info)
  PROVE  /\ to_r'.urg = to_r.urg /\ SameWords
         /\ \A j \in Std : j # n => to_r'.q[j] = to_r.q[j]
         /\ to_r.q[n] = <<>> => to_r'.q[n] = <<info>>
         /\ Len(to_r.q[n]) <= 1 => Len(to_r'.q[n]) <= 1
  <1>1. n \in Mask /\ n < START_SIGNAL /\ Std \subseteq Mask
    BY Numbers DEF Std
  <1>2. /\ to_r'.urg = to_r.urg
        /\ \A j \in Mask : j # n => to_r'.q[j] = to_r.q[j]
        /\ to_r'.q[n] = IF to_r.q[n] # <<>> THEN to_r.q[n] ELSE Append(to_r.q[n], info)
    BY <1>1, QueueIs
  <1>3. SameWords
    BY <1>1, <1>2, WordsElsewhere
  <1>4. to_r.q[n] = <<>> => to_r'.q[n] = <<info>> /\ Len(to_r'.q[n]) = 1
    BY <1>2, OneInQueue
  <1> QED BY <1>1, <1>2, <1>3, <1>4

LEMMA ReadStd ==
  ASSUME TypeOK, NEW n \in Std, Read(n), Len(to_r.q[n]) <= 1
  PROVE  /\ to_r'.urg = to_r.urg /\ SameWords
         /\ \A j \in Std : j # n => to_r'.q[j] = to_r.q[j]
         /\ to_r.q[n] # <<>> /\ to_r'.q[n] = <<>>
  <1>1. n \in Mask /\ n < START_SIGNAL /\ Std \subseteq Mask
    BY Numbers DEF Std
  <1>2. SameWords
    <2>1. \A j \in Mask : j # n => to_r'.q[j] = to_r.q[j]
      BY <1>1, ReadIs
    <2> QED BY <1>1, <2>1, WordsElsewhere
  <1>3. to_r.q[n] \in Seq(Infos) /\ to_r.q[n] # <<>>
    BY <1>1, ReadIs DEF TypeOK
  <1>5. Tail(to_r.q[n]) = <<>>
    BY <1>3, TailOfOne
  <1> QED BY <1>1, <1>2, <1>3, <1>5, ReadIs

LEMMA StdOne ==
  ASSUME SignalInv
  PROVE  \A n \in Std : Len(to_r.q[n]) <= 1
  BY DEF SignalInv, Std, SIGQUIT, SIGUSR1, SIGUSR2, START_SIGNAL

LEMMA OneStd ==
  ASSUME \A n \in Std : Len(to_r'.q[n]) <= 1
  PROVE  \A n \in 0 .. START_SIGNAL - 1 : Len(to_r'.q[n]) <= 1
  BY DEF Std, SIGQUIT, SIGUSR1, SIGUSR2, START_SIGNAL

LEMMA NoWordsKept == ASSUME NoWords, SameWords PROVE NoWords'
  BY DEF NoWords, SameWords, Queued

-----------------------------------------------------------------------------
(* IInv is inductive *)

LEMMA InitInv == Init => IInv
  <1> SUFFICES ASSUME Init PROVE IInv
    OBVIOUS
  <1>1. \A n \in Mask : to_r.q[n] = <<>>
    BY DEF Init
  <1>2. NoWords /\ Unasked /\ \A n \in Std : to_r.q[n] = <<>>
    BY <1>1, Numbers DEF NoWords, Queued, Unasked, Std
  <1>3. \A n \in 0 .. START_SIGNAL - 1 : Len(to_r.q[n]) <= 1
    BY <1>2 DEF Std, SIGQUIT, SIGUSR1, SIGUSR2, START_SIGNAL
  <1>4. Rest
    BY <1>2 DEF Init, Rest, NoUrg
  <1>5. SignalInv
    BY <1>2, <1>3 DEF Init, SignalInv, Std
  <1> QED BY <1>4, <1>5 DEF Init, IInv, JointInv, BufferInv

\* A command finds the two children at rest.
LEMMA CommandInv == ASSUME TypeOK, IInv, S_Command, UNCHANGED <<r, buffer, helloed, acked>> PROVE IInv'
  <1> USE DEF TypeOK, IInv
  <1>1. /\ s.pc = "idle" /\ s' = [pc |-> "ready", i |-> 0, k |-> 0] /\ begun' = begun + 1
        /\ to_s'.urg = to_s.urg /\ merged' = merged
    BY DEF S_Command
  <1>2. Rest \/ NoArray
    BY <1>1 DEF JointInv, Announced, InArray, AllRead, Stranded
  <1>3. PICK info \in Infos :
          /\ Queue(SIGUSR1, info)
          /\ \/ info = Info("child", <<begun'>>) /\ failed' = failed
             \/ info = Info("group", NoValue) /\ failed' = TRUE
    <2>1. <<begun + 1>> \in Seq(Nat)
      OBVIOUS
    <2> QED BY <2>1, InfoType DEF S_Command
  <1>4. /\ to_r'.urg = to_r.urg /\ SameWords
        /\ to_r'.q[SIGQUIT] = to_r.q[SIGQUIT] /\ to_r'.q[SIGUSR2] = to_r.q[SIGUSR2]
        /\ to_r.q[SIGUSR1] = <<>> => to_r'.q[SIGUSR1] = <<info>>
        /\ Len(to_r'.q[SIGUSR1]) <= 1
    BY <1>3, QueueStd, StdOne DEF Std, SIGQUIT, SIGUSR1, SIGUSR2
  <1>5. SignalInv'
    <2>1. \A n \in Std : Len(to_r'.q[n]) <= 1
      BY <1>4, StdOne DEF Std
    <2> QED BY <1>1, <1>4, <2>1, OneStd DEF SignalInv
  <1>6. JointInv'
    <2>1. CASE Rest
      <3>1. NoWords'
        BY <1>4, <2>1, NoWordsKept DEF Rest
      <3>2. CASE info = Info("child", <<begun'>>) /\ failed' = failed
        BY <1>1, <1>4, <2>1, <3>1, <3>2 DEF JointInv, Announced, Rest, NoUrg, Unasked, Fdsi
      <3>3. CASE info = Info("group", NoValue) /\ failed' = TRUE
        BY <1>1, <1>4, <2>1, <3>1, <3>3 DEF JointInv, Stranded, Rest, NoUrg, Unasked
      <3> QED BY <1>3, <3>2, <3>3
    <2>2. CASE NoArray
      <3>1. NoWords'
        BY <1>4, <2>2, NoWordsKept DEF NoArray
      <3> QED BY <1>1, <1>4, <2>2, <3>1 DEF JointInv, NoArray
    <2> QED BY <1>2, <2>1, <2>2
  <1>7. BufferInv'
    BY <1>2 DEF BufferInv, Rest, NoArray, SignalInv, Slot
  <1> QED BY <1>5, <1>6, <1>7

LEMMA BufferKept ==
  ASSUME BufferInv, UNCHANGED <<r, buffer, begun, acked>>, failed => failed'
  PROVE  BufferInv'
  BY DEF BufferInv

LEMMA HoldsKept ==
  ASSUME NEW lo, NEW hi, Holds(lo, hi), Missing(lo, hi), to_r'.q = to_r.q,
         r'.i = r.i, begun' = begun, failed' = failed
  PROVE  Holds(lo, hi)' /\ Missing(lo, hi)'
  BY DEF Holds, Missing, Queued

LEMMA SReadyInv == ASSUME TypeOK, IInv, S_Ready, UNCHANGED <<r, buffer, helloed, acked>> PROVE IInv'
  <1> USE DEF TypeOK, IInv
  <1>1. /\ s.pc = "ready" /\ to_s.urg /\ s.k = 0 /\ s'.i = s.i /\ s'.k = 0 /\ ~to_s'.urg
        /\ s'.pc = IF s.i < Arrays THEN "word" ELSE "post"
        /\ UNCHANGED <<to_r, begun, merged, failed>>
    BY DEF S_Ready, SignalInv
  <1>2. BufferInv'
    BY <1>1, BufferKept
  <1>3. SignalInv'
    BY <1>1 DEF SignalInv
  <1>4. JointInv'
    <2>1. CASE InArray
      <3>1. /\ s.i = r.i /\ ~to_r.urg /\ NoWords /\ ~failed /\ r.pc = "ready"
            /\ r.i < Arrays /\ r.fdsi = Fdsi /\ Unasked /\ helloed = begun /\ acked + 1 = begun
        BY <1>1, <2>1 DEF InArray, NoUrg
      <3>2. Holds(0, 0)' /\ Missing(0, 0)'
        BY <1>1, <3>1 DEF Holds, Missing, NoWords, Queued
      <3>3. s'.pc = "word" /\ s'.k < SIGNAL_RANGE /\ NoUrg'
        BY <1>1, <3>1 DEF NoUrg
      <3>4. Holds(0, s.k)' /\ Missing(0, s.k)'
        BY <1>1, <3>2 DEF Holds, Missing, Queued
      <3> QED BY <1>1, <3>1, <3>3, <3>4 DEF JointInv, InArray, Fdsi, Unasked
    <2>2. CASE AllRead
      BY <1>1, <2>2 DEF AllRead, JointInv, Rest, Unasked, NoUrg, NoWords, Queued
    <2>3. CASE NoArray
      BY <1>1, <2>3 DEF NoArray, JointInv, NoWords, Queued
    <2> QED BY <1>1, <2>1, <2>2, <2>3 DEF JointInv, Rest, Announced, Stranded, NoUrg
  <1> QED BY <1>2, <1>3, <1>4

\* A word is queued behind none; one that is lost is the last missing.
LEMMA SWordInv == ASSUME TypeOK, IInv, S_Word, UNCHANGED <<r, buffer, helloed, acked>> PROVE IInv'
  <1> USE DEF TypeOK, IInv
  <1> DEFINE n == START_SIGNAL + s.k
             info == Info("child", Word(begun, r.i * SIGNAL_RANGE + s.k))
  <1>1. /\ s.pc = "word" /\ s'.i = s.i /\ s'.k = s.k + 1
        /\ s'.pc = IF s.k + 1 = SIGNAL_RANGE THEN "say" ELSE "word"
        /\ UNCHANGED <<to_s, begun, merged>>
    BY DEF S_Word
  <1>2. /\ r.pc = "ready" /\ s.i = r.i /\ s.k < SIGNAL_RANGE /\ NoUrg
        /\ Holds(0, s.k) /\ Missing(0, s.k)
        /\ r.i < Arrays /\ r.fdsi = Fdsi /\ Unasked /\ helloed = begun /\ acked + 1 = begun
    BY <1>1 DEF JointInv, Rest, Announced, InArray, AllRead, Stranded, NoArray
  <1>3. s.k \in Array /\ n \in Mask /\ n >= START_SIGNAL
    BY <1>2, Numbers DEF Array
  <1>4. info \in Infos
    BY InfoType, PlaceType
  <1>5. to_r.q[n] = <<>>
    BY <1>2, <1>3 DEF Holds, Queued
  <1>6. /\ to_r'.urg = to_r.urg /\ \A j \in Std : to_r'.q[j] = to_r.q[j]
        /\ \A a \in Array : a # s.k => to_r'.q[START_SIGNAL + a] = to_r.q[START_SIGNAL + a]
        /\ \/ to_r'.q[n] = <<info>> /\ failed' = failed
           \/ to_r'.q[n] = <<>> /\ failed'
    <2>1. CASE Queue(n, info) /\ failed' = failed
      <3>1. /\ to_r'.urg = to_r.urg /\ \A j \in Mask : j # n => to_r'.q[j] = to_r.q[j]
            /\ to_r'.q[n] = Append(to_r.q[n], info)
        BY <1>3, <1>4, <1>5, <2>1, QueueIs
      <3>2. to_r'.q[n] = <<info>>
        BY <1>4, <1>5, <3>1, OneInQueue
      <3>3. \A j \in Std : j \in Mask /\ j # n
        BY <1>3, Numbers DEF Std, START_SIGNAL
      <3>4. \A a \in Array : a # s.k => START_SIGNAL + a \in Mask /\ START_SIGNAL + a # n
        BY Numbers DEF Array, START_SIGNAL
      <3> HIDE DEF n, info
      <3> QED BY <2>1, <3>1, <3>2, <3>3, <3>4
    <2>2. CASE failed' = TRUE /\ UNCHANGED to_r
      BY <1>5, <2>2
    <2> QED BY <1>2, <2>1, <2>2 DEF S_Word
  <1>k. PICK k \in Nat : k = s.k
    OBVIOUS
  <1>7. Holds(0, k + 1)'
    <2> SUFFICES ASSUME NEW a \in Array
                 PROVE  /\ Queued(a)' => /\ a \in 0 .. s.k
                                         /\ to_r'.q[START_SIGNAL + a] =
                                              <<Info("child", Word(begun, r.i * SIGNAL_RANGE + a))>>
                        /\ ~failed' /\ a \in 0 .. s.k => Queued(a)'
      <3>1. (k + 1) - 1 = s.k
        BY <1>k
      <3> QED BY <1>1, <3>1 DEF Holds
    <2>1. CASE a = s.k
      <3>1. a \in 0 .. s.k /\ to_r'.q[START_SIGNAL + a] = to_r'.q[n]
        BY <1>3, <2>1 DEF Array
      <3>2. <<info>> # <<>>
        BY <1>4, OneInQueue
      <3> QED BY <1>6, <2>1, <3>1, <3>2 DEF Queued
    <2>2. CASE a # s.k
      <3>1. a \in 0 .. s.k <=> a \in 0 .. s.k - 1
        BY <2>2 DEF Array
      <3>2. to_r'.q[START_SIGNAL + a] = to_r.q[START_SIGNAL + a] /\ (~failed' => ~failed)
        BY <1>6, <2>2
      <3> HIDE DEF n, info
      <3> QED BY <1>2, <3>1, <3>2 DEF Queued, Holds
    <2> QED BY <2>1, <2>2
  <1>8. Missing(0, k + 1)'
    <2> SUFFICES ASSUME failed'
                 PROVE  \E m \in Array : m < s.k + 1 /\ ~Queued(m)'
      BY <1>1, <1>k DEF Missing, Array
    <2>1. CASE failed /\ to_r'.q[n] # <<>>
      <3>1. PICK m \in Array : m < s.k /\ ~Queued(m)
        BY <1>2, <2>1 DEF Missing
      <3>2. m # s.k /\ m < s.k + 1
        BY <3>1 DEF Array
      <3> HIDE DEF n, info
      <3> QED BY <1>6, <3>1, <3>2 DEF Queued
    <2>2. CASE to_r'.q[n] = <<>>
      BY <1>3, <2>2 DEF Queued
    <2> QED BY <1>6, <2>1, <2>2
  <1> HIDE DEF n, info
  <1>9. BufferInv'
    BY <1>1, <1>6, BufferKept
  <1>10. SignalInv'
    <2>1. \A j \in Std : Len(to_r'.q[j]) <= 1
      BY <1>6, StdOne
    <2>2. /\ \A j \in 0 .. START_SIGNAL - 1 : Len(to_r'.q[j]) <= 1
          /\ to_r'.q[SIGQUIT] = to_r.q[SIGQUIT] /\ to_r'.q[SIGUSR2] = to_r.q[SIGUSR2]
      BY <1>6, <2>1, OneStd DEF Std
    <2> QED BY <1>1, <2>2 DEF SignalInv
  <1>11. JointInv'
    <2>1. Holds(0, s.k)' /\ Missing(0, s.k)'
      <3>1. s'.k = k + 1
        BY <1>1, <1>k
      <3> QED BY <1>7, <1>8, <3>1 DEF Holds, Missing
    <2>2. s'.pc = "say" => s'.k = SIGNAL_RANGE
      BY <1>1
    <2>3. s'.pc = "say" => Holds(0, SIGNAL_RANGE)' /\ Missing(0, SIGNAL_RANGE)'
      BY <2>1, <2>2 DEF Holds, Missing
    <2>4. Unasked' /\ NoUrg' /\ (s'.pc = "word" => s'.k < SIGNAL_RANGE)
      BY <1>1, <1>2, <1>6 DEF Unasked, NoUrg, Std
    <2> QED BY <1>1, <1>2, <2>1, <2>3, <2>4 DEF JointInv, InArray, Fdsi
  <1> QED BY <1>9, <1>10, <1>11

LEMMA SSayReadyInv ==
  ASSUME TypeOK, IInv, S_SayReady, UNCHANGED <<r, buffer, helloed, acked>>
  PROVE  IInv'
  <1> USE DEF TypeOK, IInv
  <1>1. /\ s.pc = "say" /\ s' = [pc |-> "ready", i |-> s.i + 1, k |-> 0]
        /\ to_r'.urg /\ to_r'.q = to_r.q /\ merged' = (merged \/ to_r.urg)
        /\ UNCHANGED <<to_s, begun, failed>>
    BY DEF S_SayReady, SayToReader
  <1>2. /\ r.pc = "ready" /\ s.i = r.i /\ NoUrg
        /\ Holds(0, SIGNAL_RANGE) /\ Missing(0, SIGNAL_RANGE)
        /\ r.i < Arrays /\ r.fdsi = Fdsi /\ Unasked /\ helloed = begun /\ acked + 1 = begun
    BY <1>1 DEF JointInv, Rest, Announced, InArray, AllRead, Stranded, NoArray
  <1>3. BufferInv'
    BY <1>1, BufferKept
  <1>4. SignalInv'
    BY <1>1, <1>2 DEF SignalInv, NoUrg
  <1>5. Holds(0, SIGNAL_RANGE)' /\ Missing(0, SIGNAL_RANGE)'
    BY <1>1, <1>2, HoldsKept
  <1>6. JointInv'
    BY <1>1, <1>2, <1>5 DEF JointInv, InArray, NoUrg, Unasked, Fdsi
  <1> QED BY <1>3, <1>4, <1>6

LEMMA SPostInv == ASSUME TypeOK, IInv, S_Post, UNCHANGED <<r, buffer, helloed, acked>> PROVE IInv'
  <1> USE DEF TypeOK, IInv
  <1>1. /\ s.pc = "post" /\ s'.pc = "idle" /\ UNCHANGED <<to_s, to_r, begun, merged, failed>>
    BY DEF S_Post
  <1>2. BufferInv' /\ SignalInv'
    BY <1>1, BufferKept DEF SignalInv
  <1>3. CASE Rest
    BY <1>1, <1>2, <1>3 DEF JointInv, Rest, Unasked, NoUrg, NoWords, Queued
  <1>4. CASE NoArray
    BY <1>1, <1>2, <1>4 DEF JointInv, NoArray, NoWords, Queued
  <1> QED BY <1>1, <1>3, <1>4 DEF JointInv, Announced, InArray, AllRead, Stranded

LEMMA SQuitInv == ASSUME TypeOK, IInv, S_Quit, UNCHANGED <<r, buffer, helloed, acked>> PROVE IInv'
  <1> USE DEF TypeOK, IInv
  <1>1. /\ s.pc = "idle" /\ s'.pc = "exit" /\ to_s'.urg = to_s.urg
        /\ UNCHANGED <<begun, merged, failed>>
    BY DEF S_Quit
  <1>2. /\ to_r'.urg = to_r.urg /\ SameWords /\ to_r'.q[SIGUSR1] = to_r.q[SIGUSR1]
        /\ \A j \in Std : Len(to_r'.q[j]) <= 1
    <2>1. Info("child", NoValue) \in Infos /\ Queue(SIGUSR2, Info("child", NoValue))
      BY InfoType DEF S_Quit
    <2>2. SIGUSR2 \in Std /\ SIGUSR1 \in Std /\ SIGUSR1 # SIGUSR2
      BY DEF Std, SIGUSR1, SIGUSR2
    <2> QED BY <2>1, <2>2, QueueStd, StdOne
  <1>3. BufferInv' /\ SignalInv'
    BY <1>1, <1>2, BufferKept, OneStd DEF SignalInv
  <1>4. CASE Rest
    BY <1>1, <1>2, <1>3, <1>4, NoWordsKept DEF JointInv, Rest, Unasked, NoUrg
  <1>5. CASE NoArray
    BY <1>1, <1>2, <1>3, <1>5, NoWordsKept DEF JointInv, NoArray
  <1> QED BY <1>1, <1>4, <1>5 DEF JointInv, Announced, InArray, AllRead, Stranded

LEMMA RRequestInv == ASSUME TypeOK, IInv, R_Request, UNCHANGED <<s, begun, failed>> PROVE IInv'
  <1> USE DEF TypeOK, IInv
  <1>1. /\ r.pc = "idle" /\ Read(SIGUSR1)
        /\ r' = [pc |-> "hello", i |-> 0, k |-> 0, fdsi |-> Head(to_r.q[SIGUSR1])]
        /\ UNCHANGED <<to_s, buffer, helloed, acked, merged>>
    BY DEF R_Request
  <1>2. SIGUSR1 \in Std /\ SIGQUIT \in Std /\ SIGUSR2 \in Std /\ SIGUSR1 # SIGQUIT /\ SIGUSR1 # SIGUSR2
    BY DEF Std, SIGQUIT, SIGUSR1, SIGUSR2
  <1>3. /\ to_r'.urg = to_r.urg /\ SameWords /\ to_r.q[SIGUSR1] # <<>> /\ to_r'.q[SIGUSR1] = <<>>
        /\ \A j \in Std : j # SIGUSR1 => to_r'.q[j] = to_r.q[j]
    BY <1>1, <1>2, ReadStd, StdOne
  <1>4. \A j \in Std : Len(to_r'.q[j]) <= 1
    <2>1. Len(<<>>) <= 1
      OBVIOUS
    <2> QED BY <1>3, <2>1, StdOne
  <1>5. BufferInv' /\ SignalInv'
    <2>1. SignalInv'
      BY <1>1, <1>2, <1>3, <1>4, OneStd DEF SignalInv
    <2> QED BY <1>1, <2>1 DEF BufferInv
  <1>6. CASE Announced
    <2>1. Head(<<Fdsi>>) = Fdsi /\ to_r.q[SIGUSR1] = <<Fdsi>>
      BY <1>1, <1>3, <1>6 DEF Announced
    <2> QED BY <1>1, <1>3, <1>5, <1>6, <2>1, NoWordsKept DEF JointInv, Announced, Unasked, NoUrg, Fdsi
  <1>7. CASE Stranded
    <2>1. to_r.q[SIGUSR1] = <<Info("group", NoValue)>> /\ ~to_r.urg /\ helloed + 1 = begun
      BY <1>1, <1>3, <1>7 DEF Stranded
    <2>2. r'.fdsi = Info("group", NoValue)
      BY <1>1, <2>1
    <2> QED BY <1>1, <1>3, <1>5, <1>7, <2>1, <2>2, NoWordsKept DEF JointInv, Stranded, Unasked
  <1> QED BY <1>1, <1>3, <1>6, <1>7 DEF JointInv, Rest, InArray, AllRead, NoArray, Unasked

LEMMA Pids == Info("child", <<begun>>).pid = "child" /\ Info("group", NoValue).pid = "group"
  BY DEF Info

\* The first SIGURG of a slice goes to the sender's child, or to nobody that waits.
LEMMA RHelloInv == ASSUME TypeOK, IInv, R_Hello, UNCHANGED <<s, begun, failed>> PROVE IInv'
  <1> USE DEF TypeOK, IInv
  <1>1. /\ r.pc = "hello" /\ r'.pc = "ready" /\ r'.i = r.i /\ r'.k = r.k /\ r'.fdsi = r.fdsi
        /\ R_Say /\ helloed' = helloed + 1 /\ UNCHANGED <<buffer, acked>>
    BY DEF R_Hello
  <1>2. to_r'.q = to_r.q
    BY <1>1 DEF R_Say, SayToSender, SayToReader
  <1>3. CASE Announced
    <2>1. /\ r.i = 0 /\ r.k = 0 /\ r.fdsi = Fdsi /\ Unasked /\ NoUrg /\ NoWords /\ ~failed
          /\ s.pc = "ready" /\ s.i = 0
      BY <1>1, <1>3 DEF Announced
    <2>2. to_s'.urg /\ to_r' = to_r /\ merged' = merged
      BY <1>1, <2>1, Pids DEF R_Say, SayToSender, NoUrg, Fdsi
    <2>3. SignalInv'
      BY <1>1, <2>1, <2>2 DEF SignalInv
    <2>4. BufferInv'
      BY <1>1, <2>1 DEF BufferInv, Slot
    <2>5. NoWords' /\ Unasked' /\ ~to_r'.urg
      BY <2>1, <2>2 DEF NoWords, Queued, Unasked, NoUrg
    <2>6. CASE 0 < Arrays
      BY <1>1, <1>3, <2>1, <2>2, <2>3, <2>4, <2>5, <2>6 DEF JointInv, InArray, Announced, Fdsi
    <2>7. CASE Arrays = 0
      BY <1>1, <2>1, <2>3, <2>4, <2>5, <2>7 DEF JointInv, NoArray
    <2>8. Arrays \in Nat
      BY ArraysType
    <2> QED BY <2>6, <2>7, <2>8
  <1>4. CASE Stranded
    <2>1. /\ r.k = 0 /\ r.fdsi = Info("group", NoValue) /\ Unasked /\ ~to_r.urg /\ helloed + 1 = begun
          /\ NoWords /\ failed
      BY <1>1, <1>4 DEF Stranded
    <2>2. to_r'.urg /\ to_s' = to_s /\ merged' = merged
      BY <1>1, <2>1, Pids DEF R_Say, SayToReader, SignalInv
    <2>3. SignalInv'
      BY <1>1, <1>2, <2>1, <2>2 DEF SignalInv
    <2>4. BufferInv'
      BY <1>1, <2>1 DEF BufferInv
    <2>5. NoWords' /\ Unasked'
      BY <1>2, <2>1 DEF NoWords, Queued, Unasked
    <2> QED BY <1>1, <1>4, <2>1, <2>2, <2>3, <2>4, <2>5 DEF JointInv, Stranded
  <1> QED BY <1>1, <1>3, <1>4 DEF JointInv, Rest, InArray, AllRead, NoArray

LEMMA RReadyInv == ASSUME TypeOK, IInv, R_Ready, UNCHANGED <<s, begun, failed>> PROVE IInv'
  <1> USE DEF TypeOK, IInv
  <1>1. /\ r.pc = "ready" /\ r'.pc = "word" /\ r'.i = r.i /\ r'.k = 0 /\ r.k = 0 /\ r'.fdsi = r.fdsi
        /\ to_r.urg /\ ~to_r'.urg /\ to_r'.q = to_r.q
        /\ UNCHANGED <<to_s, buffer, helloed, acked, merged>>
    BY DEF R_Ready, SignalInv
  <1>2. BufferInv'
    BY <1>1 DEF BufferInv
  <1>3. SignalInv'
    BY <1>1 DEF SignalInv
  <1>4. CASE InArray
    <2>1. /\ s.pc = "ready" /\ s.i = r.i + 1 /\ ~to_s.urg
          /\ Holds(0, SIGNAL_RANGE) /\ Missing(0, SIGNAL_RANGE)
          /\ r.i < Arrays /\ r.fdsi = Fdsi /\ Unasked /\ helloed = begun /\ acked + 1 = begun
      BY <1>1, <1>4 DEF InArray, NoUrg
    <2>2. Holds(0, SIGNAL_RANGE)' /\ Missing(0, SIGNAL_RANGE)'
      BY <1>1, <2>1, HoldsKept
    <2>3. Holds(r.k, SIGNAL_RANGE)' /\ Missing(r.k, SIGNAL_RANGE)'
      BY <1>1, <2>2
    <2> QED BY <1>1, <1>2, <1>3, <2>1, <2>3 DEF JointInv, InArray, NoUrg, Unasked, Fdsi
  <1>5. CASE Stranded
    BY <1>1, <1>2, <1>3, <1>5 DEF JointInv, Stranded, NoWords, Queued, Unasked
  <1> QED BY <1>1, <1>4, <1>5 DEF JointInv, Rest, Announced, AllRead, NoArray, NoUrg

\* read(sfd) of an array returns the first word that is not read yet, unless it is
\* missing: then a later one, and the end of the array is never reached.
LEMMA RWordInv == ASSUME TypeOK, IInv, R_Word, UNCHANGED <<s, begun, failed>> PROVE IInv'
  <1> USE DEF TypeOK, IInv
  <1>1. /\ r.pc = "word" /\ r'.i = r.i /\ r'.k = r.k + 1 /\ r'.fdsi = r.fdsi
        /\ r'.pc = IF r.k + 1 = SIGNAL_RANGE THEN "say" ELSE "word"
        /\ UNCHANGED <<to_s, helloed, acked, merged>>
    BY DEF R_Word
  <1>2. PICK n \in Mask :
          /\ Read(n)
          /\ buffer' = [buffer EXCEPT ![r.i * SIGNAL_RANGE + r.k] = Head(to_r.q[n]).value]
    BY DEF R_Word
  <1>3. /\ to_r'.urg = to_r.urg /\ \A j \in Mask : j # n => to_r'.q[j] = to_r.q[j]
        /\ to_r.q[n] # <<>> /\ to_r'.q[n] = Tail(to_r.q[n])
        /\ \A j \in Mask : j < n => to_r.q[j] = <<>>
    BY <1>2, ReadIs
  <1>4. /\ s.pc = "ready" /\ Unasked
        /\ \/ InArray /\ s.i = r.i + 1 /\ r.k < SIGNAL_RANGE /\ NoUrg
              /\ Holds(r.k, SIGNAL_RANGE) /\ Missing(r.k, SIGNAL_RANGE)
              /\ r.i < Arrays /\ r.fdsi = Fdsi /\ helloed = begun /\ acked + 1 = begun
           \/ NoWords
    BY <1>1 DEF JointInv, Rest, Announced, InArray, AllRead, Stranded, NoArray
  <1>5. to_r.q[SIGQUIT] = <<>> /\ to_r.q[SIGUSR1] = <<>> /\ to_r.q[SIGUSR2] = <<>>
    BY <1>4 DEF SignalInv, Unasked
  <1>6. n >= START_SIGNAL
    <2>1. ~(n < START_SIGNAL)
      BY <1>3, <1>5, Numbers
    <2> QED BY <2>1 DEF Mask, START_SIGNAL
  <1>7. PICK a \in Array : n = START_SIGNAL + a
    <2>1. n - START_SIGNAL \in Array /\ n = START_SIGNAL + (n - START_SIGNAL)
      BY <1>6, Numbers DEF Mask, START_SIGNAL
    <2> QED BY <2>1
  <1>8. /\ Queued(a) /\ \A b \in Array : b < a => ~Queued(b)
        /\ \A b \in Array : b # a => to_r'.q[START_SIGNAL + b] = to_r.q[START_SIGNAL + b]
    <2>1. \A b \in Array : /\ START_SIGNAL + b \in Mask
                           /\ b < a => START_SIGNAL + b < n
                           /\ b # a => START_SIGNAL + b # n
      BY <1>7, Numbers DEF Array, START_SIGNAL
    <2> QED BY <1>3, <1>7, <2>1 DEF Queued
  <1>9. /\ s.i = r.i + 1 /\ r.k < SIGNAL_RANGE /\ NoUrg
        /\ Holds(r.k, SIGNAL_RANGE) /\ Missing(r.k, SIGNAL_RANGE)
        /\ r.i < Arrays /\ r.fdsi = Fdsi /\ helloed = begun /\ acked + 1 = begun
    BY <1>4, <1>8 DEF NoWords
  <1>10. /\ a >= r.k /\ to_r.q[n] = <<Info("child", Word(begun, r.i * SIGNAL_RANGE + a))>>
         /\ ~failed => a = r.k
    <2>1. /\ a \in r.k .. SIGNAL_RANGE - 1
          /\ to_r.q[n] = <<Info("child", Word(begun, r.i * SIGNAL_RANGE + a))>>
      BY <1>7, <1>8, <1>9 DEF Holds
    <2>2. ~failed => Queued(r.k)
      BY <1>9 DEF Holds, Array
    <2>3. r.k \in Array
      BY <1>9 DEF Array
    <2>4. ~failed => ~(r.k < a)
      BY <1>8, <2>2, <2>3
    <2> QED BY <2>1, <2>4 DEF Array
  <1>11. to_r'.q[n] = <<>> /\ ~Queued(a)'
    <2>1. Info("child", Word(begun, r.i * SIGNAL_RANGE + a)) \in Infos
      <3>1. r.i * SIGNAL_RANGE + a \in Nat
        BY PlaceType DEF Array
      <3> QED BY <3>1, InfoType
    <2>2. to_r'.q[n] = <<>>
      BY <1>3, <1>10, <2>1, OneInQueue
    <2> QED BY <1>7, <2>2 DEF Queued
  <1>k. PICK k \in Nat : k = r.k
    OBVIOUS
  <1>12. Holds(k + 1, SIGNAL_RANGE)'
    <2> SUFFICES ASSUME NEW b \in Array
                 PROVE  /\ Queued(b)' =>
                             /\ b \in k + 1 .. SIGNAL_RANGE - 1
                             /\ to_r'.q[START_SIGNAL + b] =
                                  <<Info("child", Word(begun, r.i * SIGNAL_RANGE + b))>>
                        /\ ~failed /\ b \in k + 1 .. SIGNAL_RANGE - 1 => Queued(b)'
      BY <1>1 DEF Holds
    <2>1. CASE b = a
      <3>1. ~failed => ~(b \in k + 1 .. SIGNAL_RANGE - 1)
        BY <1>10, <1>k, <2>1
      <3> QED BY <1>11, <2>1, <3>1
    <2>2. CASE b # a
      <3>1. Queued(b)' <=> Queued(b)
        BY <1>8, <2>2 DEF Queued
      <3>2. Queued(b) => b > a /\ a >= k
        <4>1. Queued(b) => ~(b < a)
          BY <1>8
        <4>2. ~(b < a) /\ b # a => b > a
          BY DEF Array
        <4> QED BY <1>10, <1>k, <2>2, <4>1, <4>2
      <3>3. /\ Queued(b) => /\ b \in k .. SIGNAL_RANGE - 1
                            /\ to_r.q[START_SIGNAL + b] =
                                 <<Info("child", Word(begun, r.i * SIGNAL_RANGE + b))>>
            /\ ~failed /\ b \in k .. SIGNAL_RANGE - 1 => Queued(b)
        BY <1>9, <1>k DEF Holds
      <3>4. b \in k + 1 .. SIGNAL_RANGE - 1 => b \in k .. SIGNAL_RANGE - 1
        OBVIOUS
      <3>5. Queued(b) => b \in k + 1 .. SIGNAL_RANGE - 1
        BY <3>2, <3>3 DEF Array
      <3>6. to_r'.q[START_SIGNAL + b] = to_r.q[START_SIGNAL + b]
        BY <1>8, <2>2
      <3> QED BY <3>1, <3>3, <3>4, <3>5, <3>6
    <2> QED BY <2>1, <2>2
  <1>13. failed => \E m \in Array :
                     ~Queued(m)' /\ \A b \in Array : Queued(b)' /\ b > m => b > k + 1
    <2> SUFFICES ASSUME failed
                 PROVE  \E m \in Array :
                          ~Queued(m)' /\ \A b \in Array : Queued(b)' /\ b > m => b > k + 1
      OBVIOUS
    <2>1. PICK m \in Array : ~Queued(m) /\ \A b \in Array : Queued(b) /\ b > m => b > k
      BY <1>9, <1>k DEF Missing
    <2>2. \A b \in Array : Queued(b)' => Queued(b) /\ b > a
      <3>1. ASSUME NEW b \in Array, Queued(b)'
            PROVE  Queued(b) /\ b > a
        <4>1. b # a
          BY <1>11, <3>1
        <4>2. Queued(b)
          BY <1>8, <3>1, <4>1 DEF Queued
        <4>3. ~(b < a)
          BY <1>8, <4>2
        <4> QED BY <4>1, <4>2, <4>3 DEF Array
      <3> QED BY <3>1
    <2>3. CASE m < a
      <3>1. ASSUME NEW b \in Array, Queued(b)', b > m
            PROVE  b > k + 1
        <4>1. b > a /\ a >= k
          BY <1>10, <1>k, <2>2, <3>1
        <4>2. CASE a > k
          BY <4>1, <4>2 DEF Array
        <4>3. CASE a = k
          \* The word read is that of number k, and m < k was missing before it.
          <5>1. Queued(a) /\ a > m => a > k
            BY <2>1
          <5> QED BY <1>8, <2>3, <4>3, <5>1 DEF Array
        <4> QED BY <4>1, <4>2, <4>3 DEF Array
      <3>2. ~Queued(m)'
        BY <2>1, <2>2
      <3> QED BY <3>1, <3>2
    <2>4. CASE m > a
      <3>1. ASSUME NEW b \in Array, Queued(b)', b > m
            PROVE  b > k + 1
        <4>1. a >= k
          BY <1>10, <1>k
        <4> QED BY <2>4, <3>1, <4>1 DEF Array
      <3>2. ~Queued(m)'
        BY <2>1, <2>2
      <3> QED BY <3>1, <3>2
    <2>5. m # a
      BY <1>8, <2>1
    <2> QED BY <2>3, <2>4, <2>5 DEF Array
  <1>14. Missing(k + 1, SIGNAL_RANGE)'
    <2>1. \A m \in Array : m < SIGNAL_RANGE
      BY DEF Array
    <2> QED BY <1>13, <2>1 DEF Missing
  <1>15. failed => k + 1 < SIGNAL_RANGE
    <2> SUFFICES ASSUME failed, k + 1 = SIGNAL_RANGE PROVE FALSE
      BY <1>9, <1>k
    <2>1. PICK m \in Array : ~Queued(m) /\ \A b \in Array : Queued(b) /\ b > m => b > k
      BY <1>9, <1>k DEF Missing
    <2>2. a = k /\ m # a
      BY <1>8, <1>10, <1>k, <2>1 DEF Array
    <2>3. m < a
      BY <2>2 DEF Array
    <2> QED BY <1>8, <2>1, <2>2, <2>3 DEF Array
  <1>16. SignalInv'
    <2>1. /\ \A j \in 0 .. START_SIGNAL - 1 : to_r'.q[j] = to_r.q[j]
          /\ SIGQUIT \in 0 .. START_SIGNAL - 1 /\ SIGUSR2 \in 0 .. START_SIGNAL - 1
      <3>1. \A j \in 0 .. START_SIGNAL - 1 : j \in Mask /\ j # n
        BY <1>6 DEF Mask, START_SIGNAL
      <3> QED BY <1>3, <3>1 DEF SIGQUIT, SIGUSR2, START_SIGNAL
    <2> QED BY <1>1, <2>1 DEF SignalInv
  <1>17. JointInv'
    <2>1. Unasked' /\ NoUrg'
      <3>1. to_r'.q[SIGUSR1] = to_r.q[SIGUSR1]
        BY <1>3, <1>6, Numbers DEF Mask, START_SIGNAL
      <3> QED BY <1>1, <1>3, <1>4, <1>9, <3>1 DEF Unasked, NoUrg
    <2>2. CASE k + 1 = SIGNAL_RANGE
      <3>1. NoWords'
        BY <1>12, <2>2 DEF Holds, NoWords
      <3>2. r'.pc = "say" /\ r'.k = SIGNAL_RANGE /\ ~failed
        BY <1>1, <1>15, <1>k, <2>2
      <3> QED BY <1>1, <1>4, <1>9, <2>1, <3>1, <3>2 DEF JointInv, InArray, Fdsi
    <2>3. CASE k + 1 # SIGNAL_RANGE
      <3>1. r'.pc = "word" /\ r'.k = k + 1 /\ k + 1 < SIGNAL_RANGE
        BY <1>1, <1>9, <1>k, <2>3
      <3>2. Holds(r.k, SIGNAL_RANGE)' /\ Missing(r.k, SIGNAL_RANGE)'
        BY <1>12, <1>14, <3>1
      <3> QED BY <1>1, <1>4, <1>9, <2>1, <3>1, <3>2 DEF JointInv, InArray, Fdsi
    <2> QED BY <2>2, <2>3
  <1>18. BufferInv'
    <2>1. r'.pc # "post"
      BY <1>1
    <2> SUFFICES ASSUME ~failed, NEW p \in Slot, p < r.i * SIGNAL_RANGE + (r.k + 1)
                 PROVE  buffer'[p] = Word(begun, p)
      BY <1>1, <2>1 DEF BufferInv
    <2>2. /\ r.i * SIGNAL_RANGE \in Nat /\ r.i * SIGNAL_RANGE + r.k \in Slot
      BY <1>9, PlaceType
    <2>3. Head(to_r.q[n]).value = Word(begun, r.i * SIGNAL_RANGE + r.k)
      <3>1. a = r.k
        BY <1>10
      <3>2. Info("child", Word(begun, r.i * SIGNAL_RANGE + a)) \in Infos
        BY <2>2, <3>1, InfoType, PlaceType
      <3> QED BY <1>10, <3>1, <3>2, OneInQueue DEF Info
    <2>4. CASE p = r.i * SIGNAL_RANGE + r.k
      BY <1>2, <2>2, <2>3, <2>4
    <2>5. CASE p # r.i * SIGNAL_RANGE + r.k
      <3>1. p < r.i * SIGNAL_RANGE + r.k
        BY <2>2, <2>5 DEF Slot
      <3>2. buffer[p] = Word(begun, p)
        BY <1>1, <3>1 DEF BufferInv
      <3> QED BY <1>2, <2>5, <3>2
    <2> QED BY <2>4, <2>5
  <1> QED BY <1>16, <1>17, <1>18

LEMMA RSayReadyInv == ASSUME TypeOK, IInv, R_SayReady, UNCHANGED <<s, begun, failed>> PROVE IInv'
  <1> USE DEF TypeOK, IInv
  <1>1. /\ r.pc = "say" /\ R_Say /\ r'.i = r.i + 1 /\ r'.k = 0 /\ r'.fdsi = r.fdsi
        /\ r'.pc = IF r.i + 1 < Arrays THEN "ready" ELSE "post"
        /\ acked' = IF r.i + 1 < Arrays THEN acked ELSE acked + 1
        /\ UNCHANGED <<buffer, helloed>>
    BY DEF R_SayReady, R_Next
  <1>2. /\ r.i < Arrays /\ r.fdsi = Fdsi /\ Unasked /\ helloed = begun /\ acked + 1 = begun
        /\ s.pc = "ready" /\ s.i = r.i + 1 /\ r.k = SIGNAL_RANGE /\ NoUrg /\ NoWords /\ ~failed
    BY <1>1 DEF JointInv, Rest, Announced, InArray, AllRead, Stranded, NoArray
  <1>3. to_s'.urg /\ to_r' = to_r /\ merged' = merged
    BY <1>1, <1>2, Pids DEF R_Say, SayToSender, NoUrg, Fdsi
  <1>4. SignalInv'
    BY <1>1, <1>3 DEF SignalInv
  <1>5. ~to_r'.urg /\ NoWords' /\ Unasked' /\ Fdsi' = Fdsi
    BY <1>2, <1>3 DEF NoUrg, NoWords, Queued, Unasked, Fdsi
  <1>6. JointInv'
    <2>1. CASE r.i + 1 < Arrays
      BY <1>1, <1>2, <1>3, <1>5, <2>1 DEF JointInv, InArray
    <2>2. CASE ~(r.i + 1 < Arrays)
      <3>1. r.i + 1 = Arrays
        BY <1>2, <2>2, ArraysType
      <3> QED BY <1>1, <1>2, <1>3, <1>5, <2>2, <3>1 DEF JointInv, AllRead
    <2> QED BY <2>1, <2>2
  <1>7. BufferInv'
    <2>1. (r.i + 1) * SIGNAL_RANGE + 0 = r.i * SIGNAL_RANGE + r.k
      BY <1>2, PlaceType
    <2>2. \A p \in Slot : p < (r.i + 1) * SIGNAL_RANGE + 0 => buffer[p] = Word(begun, p)
      BY <1>1, <1>2, <2>1 DEF BufferInv
    <2>3. r'.pc = "post" => acked' = begun /\ r'.i = Arrays /\ r'.fdsi.value = <<begun>>
      <3>1. ~(r.i + 1 < Arrays) => r.i + 1 = Arrays
        BY <1>2, ArraysType
      <3>2. Fdsi.value = <<begun>>
        BY DEF Fdsi, Info
      <3> QED BY <1>1, <1>2, <3>1, <3>2
    <2> QED BY <1>1, <1>2, <2>2, <2>3 DEF BufferInv
  <1> QED BY <1>4, <1>6, <1>7

LEMMA RPostInv == ASSUME TypeOK, IInv, R_Post, UNCHANGED <<s, begun, failed>> PROVE IInv'
  <1> USE DEF TypeOK, IInv
  <1>1. /\ r.pc = "post" /\ r'.pc = "idle" /\ r'.fdsi = r.fdsi
        /\ UNCHANGED <<to_s, to_r, buffer, helloed, acked, merged>>
    BY DEF R_Post
  <1>2. BufferInv' /\ SignalInv'
    BY <1>1 DEF BufferInv, SignalInv
  <1>3. JointInv'
    BY <1>1 DEF JointInv, Rest, Announced, InArray, AllRead, Stranded, NoArray,
                Unasked, NoUrg, NoWords, Queued, Fdsi
  <1> QED BY <1>2, <1>3

\* The signals of the end are read at rest.
LEMMA REndInv ==
  ASSUME TypeOK, IInv, R_Stop \/ R_Quit, UNCHANGED <<s, begun, failed>> PROVE IInv'
  <1> USE DEF TypeOK, IInv
  <1>1. PICK n \in {SIGQUIT, SIGUSR2} :
          /\ Read(n) /\ r.pc = "idle" /\ r'.pc \in {"idle", "exit"}
          /\ UNCHANGED <<to_s, buffer, helloed, acked, merged>>
    BY DEF R_Stop, R_Quit
  <1>2. n \in Std /\ SIGUSR1 \in Std /\ n # SIGUSR1
    BY DEF Std, SIGQUIT, SIGUSR1, SIGUSR2
  <1>3. /\ to_r'.urg = to_r.urg /\ SameWords /\ to_r.q[n] # <<>> /\ to_r'.q[n] = <<>>
        /\ \A j \in Std : j # n => to_r'.q[j] = to_r.q[j]
    BY <1>1, <1>2, ReadStd, StdOne
  <1>4. s.pc = "exit"
    BY <1>1, <1>3 DEF SignalInv
  <1>5. Rest
    BY <1>1, <1>4 DEF JointInv, Announced, InArray, AllRead, Stranded, NoArray
  <1>6. \A j \in Std : Len(to_r'.q[j]) <= 1
    <2>1. Len(<<>>) <= 1
      OBVIOUS
    <2> QED BY <1>3, <2>1, StdOne
  <1>7. SignalInv' /\ BufferInv'
    <2>1. BufferInv'
      BY <1>1 DEF BufferInv
    <2>2. r'.pc # "ready"
      BY <1>1
    <2> QED BY <1>1, <1>4, <1>6, <2>1, <2>2, OneStd DEF SignalInv
  <1>8. NoWords' /\ Unasked' /\ NoUrg'
    BY <1>1, <1>2, <1>3, <1>5, NoWordsKept DEF Rest, Unasked, NoUrg
  <1> QED BY <1>1, <1>4, <1>5, <1>7, <1>8 DEF JointInv, Rest

LEMMA MasterInv == ASSUME TypeOK, IInv, Command \/ Quit \/ QuitReader PROVE IInv'
  <1> USE DEF TypeOK, IInv
  <1>1. UNCHANGED <<s, r, buffer, begun, helloed, acked, merged, failed>>
    BY DEF Command, Quit, QuitReader, MasterStep, counts
  <1>2. BufferInv'
    BY <1>1, BufferKept
  <1>3. CASE Command \/ Quit
    <2>1. to_s'.urg = to_s.urg /\ to_r' = to_r
      BY <1>3 DEF Command, Quit
    <2>2. SignalInv'
      BY <1>1, <2>1 DEF SignalInv
    <2>3. JointInv'
      BY <1>1, <2>1 DEF JointInv, Rest, Announced, InArray, AllRead, Stranded, NoArray,
                        Unasked, NoUrg, NoWords, Queued, Fdsi, Holds, Missing
    <2> QED BY <1>2, <2>2, <2>3
  <1>4. CASE QuitReader
    <2>1. /\ s.pc = "exit" /\ r.pc = "idle" /\ to_s' = to_s
          /\ Queue(SIGQUIT, Info("master", NoValue)) /\ Info("master", NoValue) \in Infos
      BY <1>4, InfoType DEF QuitReader
    <2>2. SIGQUIT \in Std /\ SIGUSR1 \in Std /\ SIGUSR1 # SIGQUIT
      BY DEF Std, SIGQUIT, SIGUSR1
    <2>3. /\ to_r'.urg = to_r.urg /\ SameWords /\ to_r'.q[SIGUSR1] = to_r.q[SIGUSR1]
          /\ \A j \in Std : Len(to_r'.q[j]) <= 1
      BY <2>1, <2>2, QueueStd, StdOne
    <2>4. Rest
      BY <2>1 DEF JointInv, Announced, InArray, AllRead, Stranded, NoArray
    <2>5. SignalInv'
      BY <1>1, <2>1, <2>3, OneStd DEF SignalInv
    <2>6. NoWords' /\ Unasked' /\ NoUrg'
      BY <2>1, <2>3, <2>4, NoWordsKept DEF Rest, Unasked, NoUrg
    <2> QED BY <1>1, <1>2, <2>1, <2>4, <2>5, <2>6 DEF JointInv, Rest
  <1> QED BY <1>3, <1>4

LEMMA NextInv == ASSUME TypeOK, IInv, [Next]_vars PROVE IInv'
  <1>1. CASE UNCHANGED vars
    BY <1>1 DEF vars, counts, IInv, JointInv, Rest, Announced, InArray, AllRead, Stranded, NoArray,
                Unasked, NoUrg, NoWords, Queued, Fdsi, Holds, Missing, SignalInv, BufferInv
  <1>2. CASE S_Step
    BY <1>2, CommandInv, SReadyInv, SWordInv, SSayReadyInv, SPostInv, SQuitInv DEF S_Step
  <1>3. CASE R_Step
    BY <1>3, RRequestInv, RHelloInv, RReadyInv, RWordInv, RSayReadyInv, RPostInv, REndInv
       DEF R_Step
  <1> QED BY <1>1, <1>2, <1>3, MasterInv DEF Next, Ended

-----------------------------------------------------------------------------
(* What the protocol promises *)

\* The two children are always in one of the joint states of IInv: every SIGURG and
\* every word of transfer.c's send_buffer_via_signal and read_buff_via_signal is where
\* the two control points say, and the reader's buffer holds what was sent so far.
THEOREM ProtocolInvariant == SafeSpec => []IInv
  <1>1. IInv /\ TypeOK /\ [Next]_vars => IInv'
    BY NextInv
  <1> QED BY InitInv, TypeCorrect, <1>1, PTL DEF SafeSpec

\* No real-time signal is ever sent while one of its number is pending: an array is
\* read before the next is sent, also when a sigqueue() fails.
THEOREM OneWordPerNumber == SafeSpec => []OneArrayInFlight
  <1>1. TypeOK /\ IInv => OneArrayInFlight
    <2> SUFFICES ASSUME TypeOK, IInv, NEW n \in Mask PROVE Len(to_r.q[n]) <= 1
      BY DEF OneArrayInFlight
    <2>1. CASE n < START_SIGNAL
      <3>1. n \in Std
        BY <2>1, Numbers DEF Std
      <3> QED BY <3>1, StdOne DEF IInv
    <2>2. CASE n >= START_SIGNAL
      <3>1. n - START_SIGNAL \in Array /\ n = START_SIGNAL + (n - START_SIGNAL)
        BY <2>2, Numbers DEF Mask, START_SIGNAL
      <3>2. PICK a \in Array : n = START_SIGNAL + a
        BY <3>1
      <3>3. ~Queued(a) \/ \E info : to_r.q[n] = <<info>>
        BY <3>2 DEF IInv, JointInv, Rest, Announced, InArray, AllRead, Stranded, NoArray,
                    NoWords, Holds
      <3>4. Len(<<>>) <= 1 /\ \A info : Len(<<info>>) <= 1
        OBVIOUS
      <3> QED BY <3>2, <3>3, <3>4 DEF Queued
    <2> QED BY <2>1, <2>2 DEF Mask, START_SIGNAL
  <1> QED BY TypeCorrect, ProtocolInvariant, <1>1, PTL

\* No SIGURG is ever sent while one is pending, so none is merged.
THEOREM EveryReadyCounts == SafeSpec => []NoReadyMerged
  <1>1. IInv => NoReadyMerged
    BY DEF IInv, SignalInv, NoReadyMerged
  <1> QED BY ProtocolInvariant, <1>1, PTL

\* When BUFFER_SIZE is a multiple of the signals' range the slice that is posted is the
\* slice that was announced, word for word, with its own count.
THEOREM SliceArrives ==
  ASSUME Words % SIGNAL_RANGE = 0
  PROVE  SafeSpec => []SliceComplete
  <1>1. Arrays * SIGNAL_RANGE = Words
    BY DEF Arrays
  <1>2. IInv => SliceComplete
    <2> SUFFICES ASSUME IInv, r.pc = "post"
                 PROVE  r.fdsi.value = <<acked>> /\ \A p \in Slot : buffer[p] = Word(acked, p)
      BY DEF SliceComplete
    <2>1. r.i * SIGNAL_RANGE + r.k = Words
      BY <1>1 DEF IInv, BufferInv
    <2> QED BY <2>1 DEF IInv, BufferInv, Slot
  <1> QED BY ProtocolInvariant, <1>2, PTL

-----------------------------------------------------------------------------
(* The protocol implements the phases of a slice.  A slice is at least one  *)
(* array (240 words to 30 signals in the code).                            *)

LEMMA LinkInit == Init => Link!Init
  BY DEF Init, Link!Init, Phase

\* An action that moves neither the sender's child nor a count leaves the phase alone.
LEMMA SamePhase ==
  ASSUME UNCHANGED <<s, begun, helloed, acked>>,
         s.pc = "exit" => (to_r'.q[SIGUSR2] = <<>> <=> to_r.q[SIGUSR2] = <<>>)
  PROVE  UNCHANGED Link!vars
  BY DEF Phase, Link!vars

LEMMA SStepLink ==
  ASSUME Arrays >= 1, TypeOK, IInv, S_Step
  PROVE  [Link!Next]_(Link!vars)
  <1> USE DEF TypeOK, IInv, Link!vars, Link!Phase
  <1>0. UNCHANGED <<r, buffer, helloed, acked>> /\ Arrays \in Nat
    BY ArraysType DEF S_Step
  <1>1. CASE S_Command
    <2>1. s.pc = "idle" /\ s' = [pc |-> "ready", i |-> 0, k |-> 0] /\ begun' = begun + 1
      BY <1>1 DEF S_Command
    <2>2. Rest
      BY <1>0, <2>1 DEF JointInv, Announced, InArray, AllRead, Stranded, NoArray
    <2>3. Phase = "idle" /\ Phase' = "req"
      BY <1>0, <2>1, <2>2 DEF Phase, Rest
    <2> QED BY <1>0, <2>1, <2>3 DEF Link!Next, Link!Announce
  <1>2. CASE S_Ready
    <2>1. /\ s.pc = "ready" /\ to_s.urg /\ s'.i = s.i
          /\ s'.pc = IF s.i < Arrays THEN "word" ELSE "post"
          /\ begun' = begun
      BY <1>2 DEF S_Ready
    <2>2. CASE InArray
      <3>1. s.i < Arrays /\ helloed = begun
        BY <2>1, <2>2 DEF InArray, NoUrg
      <3>2. Phase = "go" /\ Phase' = "go"
        BY <1>0, <2>1, <3>1 DEF Phase
      <3> QED BY <1>0, <2>1, <3>2
    <2>3. CASE AllRead
      <3>1. Phase = "ack" /\ Phase' = "idle"
        BY <1>0, <2>1, <2>3 DEF Phase, AllRead
      <3> QED BY <1>0, <2>1, <3>1 DEF Link!Next, Link!Final
    <2> QED BY <1>0, <2>1, <2>2, <2>3 DEF JointInv, Rest, Announced, Stranded, NoArray, NoUrg
  <1>3. CASE S_Word
    <2>1. /\ s.pc = "word" /\ s'.i = s.i /\ s'.pc \in {"say", "word"} /\ begun' = begun
      BY <1>3 DEF S_Word
    <2>2. s.i < Arrays /\ helloed = begun /\ acked < begun
      BY <1>0, <2>1 DEF JointInv, Rest, Announced, InArray, AllRead, Stranded, NoArray
    <2>3. Phase = "go" /\ Phase' \in {"go", "data"}
      BY <1>0, <2>1, <2>2 DEF Phase
    <2> QED BY <1>0, <2>1, <2>3 DEF Link!Next, Link!Send
  <1>4. CASE S_SayReady
    <2>1. s.pc = "say" /\ s' = [pc |-> "ready", i |-> s.i + 1, k |-> 0] /\ begun' = begun
      BY <1>4 DEF S_SayReady
    <2>2. s.i < Arrays /\ helloed = begun /\ acked < begun
      BY <1>0, <2>1 DEF JointInv, Rest, Announced, InArray, AllRead, Stranded, NoArray
    <2>3. Phase' = Phase
      BY <1>0, <2>1, <2>2 DEF Phase
    <2> QED BY <1>0, <2>1, <2>3
  <1>5. CASE S_Post
    BY <1>0, <1>5 DEF S_Post, Phase
  <1>6. CASE S_Quit
    <2>1. s.pc = "idle" /\ s'.pc = "exit" /\ begun' = begun /\ to_r.q[SIGUSR2] = <<>>
      BY <1>6 DEF S_Quit, SignalInv
    <2>2. to_r'.q[SIGUSR2] # <<>>
      <3>1. Info("child", NoValue) \in Infos /\ SIGUSR2 \in Mask
        BY InfoType, Numbers
      <3>2. to_r'.q[SIGUSR2] = Append(<<>>, Info("child", NoValue))
        BY <1>6, <2>1, <3>1, QueueIs DEF S_Quit
      <3> QED BY <3>1, <3>2, OneInQueue
    <2>3. Phase = "idle" /\ Phase' = "stop"
      BY <2>1, <2>2 DEF Phase
    <2> QED BY <1>0, <2>1, <2>3 DEF Link!Next, Link!Stop
  <1> QED BY <1>1, <1>2, <1>3, <1>4, <1>5, <1>6 DEF S_Step

LEMMA RStepLink ==
  ASSUME Arrays >= 1, TypeOK, IInv, R_Step
  PROVE  [Link!Next]_(Link!vars)
  <1> USE DEF TypeOK, IInv
  <1>0. UNCHANGED <<s, begun, failed>> /\ Arrays \in Nat
    BY ArraysType DEF R_Step
  <1>1. CASE R_Request \/ R_Ready \/ R_Word \/ R_Post
    <2>1. UNCHANGED <<helloed, acked>> /\ (r.pc # "post" => s.pc # "exit")
      <3>1. UNCHANGED <<helloed, acked>>
        BY <1>1 DEF R_Request, R_Ready, R_Word, R_Post
      <3>2. CASE R_Request
        <4>1. to_r.q[SIGUSR1] # <<>>
          BY <3>2, ReadIs, Numbers DEF R_Request
        <4>2. r.pc = "idle"
          BY <3>2 DEF R_Request
        <4> QED BY <1>0, <3>1, <4>1, <4>2
                DEF JointInv, Rest, Announced, InArray, AllRead, Stranded, NoArray, Unasked
      <3>3. CASE R_Ready \/ R_Word \/ R_Post
        <4>1. r.pc \in {"ready", "word", "post"}
          BY <3>3 DEF R_Ready, R_Word, R_Post
        <4> QED BY <1>0, <3>1, <4>1
                DEF JointInv, Rest, Announced, InArray, AllRead, Stranded, NoArray
      <3> QED BY <1>1, <3>1, <3>2, <3>3
    <2>2. r.pc = "post" => to_r' = to_r
      BY <1>1 DEF R_Request, R_Ready, R_Word, R_Post
    <2> QED BY <1>0, <2>1, <2>2, SamePhase
  <1>2. CASE R_Hello
    <2>1. r.pc = "hello" /\ helloed' = helloed + 1 /\ acked' = acked
      BY <1>2 DEF R_Hello
    <2>2. s.pc = "ready" /\ s.i = 0 /\ helloed + 1 = begun
      BY <1>0, <2>1 DEF JointInv, Rest, Announced, InArray, AllRead, Stranded, NoArray
    <2>3. Phase = "req" /\ Phase' = "go"
      BY <1>0, <2>1, <2>2 DEF Phase
    <2> QED BY <1>0, <2>1, <2>3 DEF Link!Next, Link!Go, Link!Phase
  <1>3. CASE R_SayReady
    <2>1. /\ r.pc = "say" /\ helloed' = helloed
          /\ acked' = IF r.i + 1 < Arrays THEN acked ELSE acked + 1
      BY <1>3 DEF R_SayReady, R_Next
    <2>2. s.pc = "ready" /\ s.i = r.i + 1 /\ r.i < Arrays /\ helloed = begun /\ acked + 1 = begun
      BY <1>0, <2>1 DEF JointInv, Rest, Announced, InArray, AllRead, Stranded, NoArray
    <2>3. CASE r.i + 1 < Arrays
      <3>1. UNCHANGED <<begun, acked>> /\ Phase' = Phase
        BY <1>0, <2>1, <2>2, <2>3 DEF Phase
      <3> QED BY <3>1 DEF Link!vars
    <2>4. CASE ~(r.i + 1 < Arrays)
      <3>1. Phase = "data" /\ Phase' = "ack" /\ acked' = begun
        BY <1>0, <2>1, <2>2, <2>4 DEF Phase
      <3> QED BY <1>0, <3>1 DEF Link!Next, Link!Ack, Link!Phase
    <2> QED BY <2>3, <2>4
  <1>4. CASE R_Stop
    <2>1. Read(SIGUSR2) /\ UNCHANGED <<helloed, acked>>
      BY <1>4 DEF R_Stop
    <2>2. SIGUSR2 \in Std
      BY DEF Std
    <2>3. to_r.q[SIGUSR2] # <<>> /\ to_r'.q[SIGUSR2] = <<>>
      BY <2>1, <2>2, ReadStd, StdOne
    <2>4. s.pc = "exit"
      BY <2>3 DEF SignalInv
    <2>5. Phase = "stop" /\ Phase' = "idle"
      BY <1>0, <2>3, <2>4 DEF Phase
    <2> QED BY <1>0, <2>1, <2>5 DEF Link!Next, Link!Stopped, Link!Phase
  <1>5. CASE R_Quit
    <2>1. SIGUSR2 # SIGQUIT
      BY DEF SIGQUIT, SIGUSR2
    <2>2. to_r'.q[SIGUSR2] = to_r.q[SIGUSR2] /\ UNCHANGED <<helloed, acked>>
      BY <1>5, <2>1, ReadIs, Numbers DEF R_Quit
    <2> QED BY <1>0, <2>2, SamePhase
  <1> QED BY <1>1, <1>2, <1>3, <1>4, <1>5 DEF R_Step

LEMMA MasterLink ==
  ASSUME TypeOK, Command \/ Quit \/ QuitReader
  PROVE  UNCHANGED Link!vars
  <1>1. UNCHANGED <<s, begun, helloed, acked>>
    BY DEF Command, Quit, QuitReader, MasterStep, counts
  <1>2. to_r'.q[SIGUSR2] = to_r.q[SIGUSR2]
    <2>1. CASE Command \/ Quit
      BY <2>1 DEF Command, Quit
    <2>2. CASE QuitReader
      <3>1. SIGUSR2 # SIGQUIT
        BY DEF SIGQUIT, SIGUSR2
      <3> QED BY <2>2, <3>1, QueueIs, InfoType, Numbers DEF QuitReader
    <2> QED BY <2>1, <2>2
  <1> QED BY <1>1, <1>2, SamePhase

\* A slice is announced, asked for, sent and acknowledged in that order, once each,
\* whatever the number of its words and whether or not a sigqueue() fails: the safety
\* part of ImplementsLink.
THEOREM LinkSafety ==
  ASSUME SIGNAL_RANGE <= Words
  PROVE  SafeSpec => Link!Init /\ [][Link!Next]_(Link!vars)
  <1>1. Arrays >= 1
    BY DEF Arrays
  <1>2. TypeOK /\ IInv /\ [Next]_vars => [Link!Next]_(Link!vars)
    <2> SUFFICES ASSUME TypeOK, IInv, [Next]_vars PROVE [Link!Next]_(Link!vars)
      OBVIOUS
    <2>1. CASE UNCHANGED vars
      BY <2>1, SamePhase DEF vars, counts
    <2> QED BY <1>1, <2>1, SStepLink, RStepLink, MasterLink DEF Next, Ended
  <1> QED BY LinkInit, TypeCorrect, ProtocolInvariant, <1>2, PTL DEF SafeSpec
=============================================================================
