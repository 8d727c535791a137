----------------------------- MODULE LoopProofs ------------------------------
(***************************************************************************)
(* Proofs about the two loops that a single process runs: the one of        *)
(* send_swap_buffer, for every number of children and bytes and every size  *)
(* of a slice and a page, and the one of my_cp, for every window, page and  *)
(* int.                                                                    *)
(***************************************************************************)
EXTENDS ShareLoop, MyCp, SequenceTheorems, TLAPS

USE ShareLoopAssumption, MyCpAssumption

-----------------------------------------------------------------------------
(* send_swap_buffer *)

\* Rounding up to pages never takes a byte away.
LEMMA PagesRoundUp == ASSUME NEW s \in Nat PROVE Pages(s) \in Nat /\ Pages(s) >= s
  <1> DEFINE q == s \div PAGE_SIZE
             r == s % PAGE_SIZE
  <1>1. q \in Nat /\ r \in 0 .. PAGE_SIZE - 1 /\ s = PAGE_SIZE * q + r
    OBVIOUS
  <1>2. Pages(s) = (q + (IF r # 0 THEN 1 ELSE 0)) * PAGE_SIZE
    BY DEF Pages
  <1> HIDE DEF q, r
  <1>3. CASE r = 0
    BY <1>1, <1>2, <1>3
  <1>4. CASE r # 0
    <2>1. Pages(s) = PAGE_SIZE * q + PAGE_SIZE
      BY <1>1, <1>2, <1>4
    <2> QED BY <1>1, <2>1
  <1> QED BY <1>3, <1>4

\* The last slice ends where the buffer ends.
LEMMA SliceEnds == ASSUME NEW c \in Child
                   PROVE  /\ c * BUFFER_SIZE \in Nat /\ SWAP_BUF_SIZE \in Nat
                          /\ c * BUFFER_SIZE + BUFFER_SIZE <= SWAP_BUF_SIZE
  <1>1. c \in Nat /\ N_CHILDS - 1 - c \in Nat
    BY DEF Child
  <1>2. (N_CHILDS - 1 - c) * BUFFER_SIZE \in Nat
    BY <1>1
  <1>3. SWAP_BUF_SIZE = c * BUFFER_SIZE + BUFFER_SIZE + (N_CHILDS - 1 - c) * BUFFER_SIZE
    BY <1>1 DEF SWAP_BUF_SIZE
  <1> QED BY <1>1, <1>2, <1>3

\* What n_bytes is before turn i.
Rest == IF readed_bytes < 0 THEN n_bytes < 0
        ELSE n_bytes = IF readed_bytes >= BUFFER_SIZE * i THEN readed_bytes - BUFFER_SIZE * i ELSE 0

LoopInv ==
  /\ readed_bytes \in Int /\ n_bytes \in Int /\ i \in 0 .. N_CHILDS
  /\ n_bytes_to_send \in [Child -> Int] /\ segment = Allocated
  /\ \A c \in Child : n_bytes_to_send[c] <= BUFFER_SIZE
  /\ Rest /\ LoopIsShare

LEMMA LoopInit == Begin => LoopInv
  <1>1. SWAP_BUF_SIZE \in Int /\ BUFFER_SIZE * 0 = 0
    BY DEF SWAP_BUF_SIZE
  <1> QED BY <1>1 DEF Begin, LoopInv, Rest, LoopIsShare, Child

LEMMA LoopTurn == ASSUME LoopInv, Turn PROVE LoopInv'
  <1> DEFINE B == BUFFER_SIZE * i
             v == IF Full THEN BUFFER_SIZE ELSE n_bytes
  <1>1. i \in Child /\ B \in Nat /\ BUFFER_SIZE * (i + 1) = B + BUFFER_SIZE
    BY DEF LoopInv, Turn, Child
  <1>2. v \in Int /\ v <= BUFFER_SIZE
    BY DEF LoopInv, Full
  <1>3. /\ n_bytes_to_send' = [n_bytes_to_send EXCEPT ![i] = v] /\ i' = i + 1
        /\ n_bytes' = (IF Full THEN n_bytes - BUFFER_SIZE ELSE 0)
        /\ readed_bytes' = readed_bytes /\ segment' = segment /\ i < N_CHILDS
    BY DEF Turn
  <1>4. v = Share(readed_bytes, i)
    <2> HIDE DEF B
    <2>1. /\ readed_bytes \in Int /\ n_bytes \in Int
          /\ readed_bytes < 0 => n_bytes < 0
          /\ readed_bytes >= B => n_bytes = readed_bytes - B
          /\ readed_bytes >= 0 /\ readed_bytes < B => n_bytes = 0
      BY <1>1 DEF LoopInv, Rest, B
    <2>2. Share(readed_bytes, i) = IF readed_bytes < 0 \/ readed_bytes >= B + BUFFER_SIZE THEN BUFFER_SIZE
                                   ELSE IF readed_bytes > B THEN readed_bytes - B ELSE 0
      BY <1>1 DEF Share, B
    <2> QED BY <1>1, <2>1, <2>2 DEF Full
  <1>5. Rest'
    <2> HIDE DEF B
    <2>1. /\ readed_bytes \in Int /\ n_bytes \in Int
          /\ readed_bytes < 0 => n_bytes < 0
          /\ readed_bytes >= B => n_bytes = readed_bytes - B
          /\ readed_bytes >= 0 /\ readed_bytes < B => n_bytes = 0
      BY <1>1 DEF LoopInv, Rest, B
    <2>2. BUFFER_SIZE * i' = B + BUFFER_SIZE /\ n_bytes' = IF Full THEN n_bytes - BUFFER_SIZE ELSE 0
      BY <1>1, <1>3
    <2>3. readed_bytes < 0 => n_bytes' < 0
      BY <2>1, <2>2 DEF Full
    <2>4. readed_bytes >= 0 => n_bytes' = IF readed_bytes >= B + BUFFER_SIZE
                                         THEN readed_bytes - (B + BUFFER_SIZE) ELSE 0
      BY <1>1, <2>1, <2>2 DEF Full
    <2> QED BY <1>3, <2>1, <2>2, <2>3, <2>4 DEF Rest
  <1>6. LoopIsShare'
    <2> SUFFICES ASSUME NEW c \in Child, c < i'
                 PROVE n_bytes_to_send'[c] = Share(readed_bytes', c)
      BY DEF LoopIsShare
    <2>1. /\ n_bytes_to_send \in [Child -> Int] /\ i \in Int /\ c \in Int
          /\ \A d \in Child : d < i => n_bytes_to_send[d] = Share(readed_bytes, d)
      BY DEF LoopInv, LoopIsShare, Child
    <2>2. Share(readed_bytes', c) = Share(readed_bytes, c)
      BY <1>3
    <2> HIDE DEF v
    <2>3. CASE c = i
      BY <1>3, <1>4, <2>1, <2>2, <2>3
    <2>4. CASE c < i
      BY <1>3, <2>1, <2>2, <2>4
    <2> QED BY <1>3, <2>1, <2>3, <2>4
  <1> QED BY <1>1, <1>2, <1>3, <1>5, <1>6 DEF LoopInv

LEMMA LoopStep == LoopInv /\ [LoopNext]_loopVars => LoopInv'
  <1> SUFFICES ASSUME LoopInv, [LoopNext]_loopVars PROVE LoopInv'
    OBVIOUS
  <1>1. CASE Turn
    BY <1>1, LoopTurn
  <1>2. CASE Done \/ UNCHANGED loopVars
    BY <1>2 DEF Done, loopVars, LoopInv, Rest, LoopIsShare
  <1> QED BY <1>1, <1>2 DEF LoopNext

\* The closed form is right for any number of children and bytes (sender.c:275-282).
THEOREM ClosedForm == LoopSpec => []LoopIsShare
  <1>1. LoopInv => LoopIsShare
    BY DEF LoopInv
  <1> QED BY <1>1, LoopInit, LoopStep, PTL DEF LoopSpec

\* No slice leaves the segment, for any page and buffer size (swp.h:22-35).
THEOREM InsideSegment == LoopSpec => []SlicesInside
  <1>1. LoopInv => SlicesInside
    <2> SUFFICES ASSUME LoopInv, NEW c \in Child
                 PROVE  /\ n_bytes_to_send[c] <= BUFFER_SIZE
                        /\ SizeofInt + c * BUFFER_SIZE + BUFFER_SIZE <= segment
      BY DEF SlicesInside
    <2> DEFINE one == SWAP_BUF_SIZE + SizeofInt
               two == Pages(one) + SizeofInt
    <2>1. one \in Nat /\ c * BUFFER_SIZE + BUFFER_SIZE + SizeofInt <= one
      BY SliceEnds
    <2>2. Pages(one) \in Nat /\ Pages(one) >= one
      BY <2>1, PagesRoundUp
    <2>3. two \in Nat /\ Pages(two) \in Nat /\ Pages(two) >= two
      BY <2>2, PagesRoundUp
    <2>4. segment = Pages(two)
      BY DEF LoopInv, Allocated
    <2>5. c * BUFFER_SIZE \in Nat
      BY SliceEnds
    <2> HIDE DEF one, two
    <2> QED BY <2>1, <2>2, <2>3, <2>4, <2>5 DEF LoopInv, two
  <1> QED BY <1>1, LoopInit, LoopStep, PTL DEF LoopSpec

-----------------------------------------------------------------------------
(* my_cp *)

\* An int holds what fits, and its own range only.
LEMMA IntRange == ASSUME NEW n \in Nat
                  PROVE  /\ ToInt(n) \in -INT_MAX - 1 .. INT_MAX
                         /\ n <= INT_MAX => ToInt(n) = n
  <1>1. n % (2 * INT_MAX + 2) \in 0 .. 2 * INT_MAX + 1
    OBVIOUS
  <1>2. n <= INT_MAX => n % (2 * INT_MAX + 2) = n
    OBVIOUS
  <1> QED BY <1>1, <1>2 DEF ToInt

\* The next window lies on a page again.
LEMMA NextPage == ASSUME NEW a \in Nat, a % PageSize = 0, BUF_SIZE % PageSize = 0
                  PROVE  (a + BUF_SIZE) % PageSize = 0
  <1> DEFINE k == a \div PageSize
             j == BUF_SIZE \div PageSize
  <1>1. k \in Int /\ j \in Int /\ a = PageSize * k /\ BUF_SIZE = PageSize * j
    OBVIOUS
  <1> HIDE DEF k, j
  <1>2. a + BUF_SIZE = PageSize * (k + j)
    BY <1>1
  <1>3. (PageSize * (k + j)) % PageSize = 0
    BY <1>1
  <1> QED BY <1>2, <1>3

-----------------------------------------------------------------------------
Total == ToInt(size)

\* The inductive invariant: what is still to do and what is done make up the int, and
\* the output file is as long as the offset says while nothing was short.
Loop ==
  /\ pc = "open" => n_bytes_remained = 0 /\ off = 0 /\ out = <<>>
  /\ pc = "exit" => n_bytes_remained = 0
  /\ pc # "open" => off + n_bytes_remained = Total
  /\ pc # "open" /\ Total > 0 => off >= 0 /\ n_bytes_remained >= 0
  /\ pc # "open" /\ Total <= 0 =>
       out = <<>> /\ (off = 0 \/ n_bytes_remained = 0)
  /\ ~short /\ BUF_SIZE % PageSize = 0 /\ pc # "open" /\ Total > 0 =>
       /\ n_bytes_remained > 0 => off % PageSize = 0
       /\ Len(out) = off
       /\ \A p \in 1 .. Len(out) : out[p] = p - 1

MInv == TypeOK /\ Loop

LEMMA MInit == Init => MInv
  <1> SUFFICES ASSUME Init PROVE MInv
    OBVIOUS
  <1>1. TypeOK
    <2>1. off \in -INT_MAX - 1 .. INT_MAX /\ n_bytes_remained \in -INT_MAX - 1 .. INT_MAX
      BY DEF Init
    <2>2. {same, short} \subseteq BOOLEAN
      BY Zenon DEF Init
    <2>3. size \in 0 .. MaxSize /\ out \in Seq(Nat) /\ pc \in {"open", "loop", "exit"}
      BY DEF Init
    <2> QED BY <2>1, <2>2, <2>3 DEF TypeOK
  <1> QED BY <1>1 DEF Init, MInv, Loop

LEMMA MOpen == ASSUME MInv, Open PROVE MInv'
  <1> USE DEF MInv, TypeOK, Loop, Open, Total
  <1>1. size' \in 0 .. MaxSize /\ size' \in Nat
    OBVIOUS
  <1>2. n_bytes_remained' = ToInt(size') /\ ToInt(size') \in -INT_MAX - 1 .. INT_MAX
    BY <1>1, IntRange
  <1>3. 0 % PageSize = 0
    OBVIOUS
  <1>4. TypeOK'
    BY <1>1, <1>2
  <1>5. off' = 0 /\ out' = <<>> /\ Len(out') = 0 /\ pc' = "loop" /\ n_bytes_remained' = Total'
    BY <1>2
  <1>6. Loop'
    BY <1>2, <1>3, <1>5
  <1> QED BY <1>4, <1>6

\* One turn of the loop.
LEMMA MCopy == ASSUME MInv, Copy PROVE MInv'
  <1> USE DEF MInv, TypeOK
  <1>1. PICK k \in Nat : /\ k \in IF ~Mapped THEN {0} ELSE IF ShortWrites THEN 0 .. Actual ELSE {Actual}
                         /\ out' = out \o Window(k)
                         /\ short' = (short \/ (Mapped /\ k < Actual))
    <2>1. Actual \in Int
      BY DEF Actual
    <2>2. (IF ~Mapped THEN {0} ELSE IF ShortWrites THEN 0 .. Actual ELSE {Actual}) \subseteq Nat
      BY <2>1 DEF Mapped
    <2> QED BY <2>2 DEF Copy
  <1>2. /\ pc = "loop" /\ pc' = "loop" /\ n_bytes_remained # 0 /\ size' = size /\ same' = same
        /\ off' = off + Actual /\ n_bytes_remained' = n_bytes_remained - Actual
    BY DEF Copy
  <1>3. Total \in -INT_MAX - 1 .. INT_MAX /\ Total' = Total
    BY <1>2, IntRange DEF Total
  <1>4. CASE Total > 0
    <2>1. n_bytes_remained > 0 /\ off >= 0 /\ off + n_bytes_remained = Total
      BY <1>2, <1>4 DEF Loop
    <2>2. Actual \in 1 .. BUF_SIZE /\ Actual <= n_bytes_remained
      BY <2>1 DEF Actual
    <2>3. /\ off' \in 0 .. INT_MAX /\ n_bytes_remained' \in 0 .. INT_MAX
          /\ off' + n_bytes_remained' = Total
      BY <1>2, <1>3, <2>1, <2>2
    <2>4. Window(k) \in Seq(Nat) /\ Len(Window(k)) = k /\ \A p \in 1 .. k : Window(k)[p] = off + p - 1
      <3>1. \A p \in 1 .. k : off + p - 1 \in Nat
        BY <2>1
      <3>2. Window(k) = [p \in 1 .. k |-> off + p - 1]
        BY DEF Window
      <3>3. Window(k) \in Seq(Nat) /\ Len(Window(k)) = k
        BY <3>1, <3>2
      <3> QED BY <3>2, <3>3
    <2>5. out' \in Seq(Nat) /\ Len(out') = Len(out) + k
      BY <1>1, <2>4, ConcatProperties
    <2>6. TypeOK'
      BY <1>1, <1>2, <2>3, <2>5
    <2>7. ASSUME ~short', BUF_SIZE % PageSize = 0
          PROVE  /\ n_bytes_remained' > 0 => off' % PageSize = 0
                 /\ Len(out') = off'
                 /\ \A p \in 1 .. Len(out') : out'[p] = p - 1
      <3>1. /\ off % PageSize = 0 /\ Len(out) = off
            /\ \A p \in 1 .. Len(out) : out[p] = p - 1
        BY <1>1, <1>2, <1>4, <2>1, <2>7 DEF Loop
      <3>2. Mapped
        BY <2>2, <3>1 DEF Mapped
      <3>3. k = Actual
        BY <1>1, <2>2, <2>7, <3>2
      <3>4. n_bytes_remained' > 0 => off' % PageSize = 0
        <4>1. n_bytes_remained' > 0 => Actual = BUF_SIZE
          BY <1>2, <2>1 DEF Actual
        <4>2. (off + BUF_SIZE) % PageSize = 0
          BY <2>1, <2>7, <3>1, NextPage
        <4> QED BY <1>2, <4>1, <4>2
      <3>5. ASSUME NEW p \in 1 .. Len(out') PROVE out'[p] = p - 1
        <4>1. CASE p <= Len(out)
          BY <1>1, <2>4, <3>1, <4>1
        <4>2. CASE p > Len(out)
          <5>1. p - Len(out) \in 1 .. k /\ out'[p] = Window(k)[p - Len(out)]
            BY <1>1, <2>4, <2>5, <4>2
          <5> QED BY <5>1, <2>4, <3>1, <2>1
        <4> QED BY <4>1, <4>2
      <3> QED BY <1>2, <2>5, <3>1, <3>3, <3>4, <3>5
    <2>8. Loop'
      BY <1>2, <1>3, <1>4, <2>3, <2>7 DEF Loop
    <2> QED BY <2>6, <2>8
  <1>5. CASE Total <= 0
    <2>1. out = <<>> /\ off = 0 /\ n_bytes_remained = Total
      BY <1>2, <1>3, <1>5 DEF Loop
    <2>2. n_bytes_remained < 0 /\ Actual = n_bytes_remained
      BY <1>2, <1>5, <2>1 DEF Actual
    <2>3. ~Mapped /\ k = 0
      BY <1>1, <2>2 DEF Mapped
    <2>4. out' = <<>>
      BY <1>1, <2>1, <2>3 DEF Window
    <2>5. off' = Total /\ n_bytes_remained' = 0
      BY <1>2, <2>1, <2>2
    <2>6. TypeOK'
      BY <1>1, <1>2, <1>3, <2>4, <2>5
    <2> QED BY <1>2, <1>3, <1>5, <2>4, <2>5, <2>6 DEF Loop
  <1> QED BY <1>3, <1>4, <1>5

LEMMA MRest == ASSUME MInv, Close \/ Ended \/ UNCHANGED vars PROVE MInv'
  BY DEF MInv, TypeOK, Loop, Close, Ended, vars, Total

LEMMA MResult == MInv => Result
  <1> SUFFICES ASSUME MInv, pc = "exit", ~short, BUF_SIZE % PageSize = 0
               PROVE  /\ size <= INT_MAX => Len(out) = size
                      /\ Len(out) = (IF Total > 0 THEN Total ELSE 0)
                      /\ \A p \in 1 .. Len(out) : out[p] = p - 1
    BY DEF Result, Total
  <1>1. size \in Nat /\ Total \in -INT_MAX - 1 .. INT_MAX /\ (size <= INT_MAX => Total = size)
    BY IntRange DEF MInv, TypeOK, Total
  <1>2. CASE Total > 0
    BY <1>1, <1>2 DEF MInv, TypeOK, Loop
  <1>3. CASE Total <= 0
    BY <1>1, <1>3 DEF MInv, TypeOK, Loop
  <1> QED BY <1>1, <1>2, <1>3

\* What main has copied when it returns (my_cp.c:38-50), for every size, window and int.
THEOREM CopiesResult == Spec => []Result
  <1>1. MInv /\ [Next]_vars => MInv'
    BY MOpen, MCopy, MRest DEF Next
  <1> QED BY <1>1, MInit, MResult, PTL DEF Spec

\* No int overflows on the way (my_cp.c:38-49).
THEOREM IntsInRange == Spec => []TypeOK
  <1>1. MInv /\ [Next]_vars => MInv'
    BY MOpen, MCopy, MRest DEF Next
  <1>2. MInv => TypeOK
    BY DEF MInv
  <1> QED BY <1>1, <1>2, MInit, PTL DEF Spec
-----------------------------------------------------------------------------
(* The order of the bytes *)

\* InOrder with what makes it inductive: the next window lies behind every byte so far.
Order == InOrder /\ (pc # "open" /\ Total > 0 => \A p \in 1 .. Len(out) : out[p] < off)

\* A window put after bytes that all lie before it.
LEMMA WindowBehind ==
  ASSUME NEW o \in Seq(Nat), NEW a \in Nat, NEW k \in Nat,
         \A p, q \in 1 .. Len(o) : p < q => o[p] < o[q],
         \A p \in 1 .. Len(o) : o[p] < a
  PROVE  LET w == [p \in 1 .. k |-> a + p - 1]
         IN  /\ \A p, q \in 1 .. Len(o \o w) : p < q => (o \o w)[p] < (o \o w)[q]
             /\ \A p \in 1 .. Len(o \o w) : (o \o w)[p] < a + k
  <1> DEFINE w == [p \in 1 .. k |-> a + p - 1]
             v == o \o w
  <1>1. w \in Seq(Nat) /\ Len(w) = k /\ \A p \in 1 .. k : w[p] = a + p - 1
    OBVIOUS
  <1>2. Len(v) = Len(o) + k /\ Len(o) \in Nat
    BY <1>1, ConcatProperties
  <1>3. \A p \in 1 .. Len(o) : v[p] = o[p] /\ v[p] \in Nat
    BY <1>1, ConcatProperties
  <1>4. ASSUME NEW p \in Len(o) + 1 .. Len(o) + k PROVE v[p] = a + (p - Len(o)) - 1
    <2>1. p - Len(o) \in 1 .. k
      BY <1>2
    <2>2. v[p] = w[p - Len(o)]
      BY <1>1, <1>2
    <2> QED BY <1>1, <2>1, <2>2
  <1> HIDE DEF v, w
  <1>5. ASSUME NEW p \in 1 .. Len(v), NEW q \in 1 .. Len(v), p < q PROVE v[p] < v[q]
    <2>1. CASE q <= Len(o)
      BY <1>2, <1>3, <1>5, <2>1
    <2>2. CASE p <= Len(o) /\ q > Len(o)
      <3>1. v[p] < a /\ v[p] \in Nat
        BY <1>2, <1>3, <2>2
      <3>2. v[q] = a + (q - Len(o)) - 1
        BY <1>2, <1>4, <2>2
      <3> QED BY <1>2, <2>2, <3>1, <3>2
    <2>3. CASE p > Len(o)
      BY <1>2, <1>4, <1>5, <2>3
    <2> QED BY <1>2, <2>1, <2>2, <2>3
  <1>6. ASSUME NEW p \in 1 .. Len(v) PROVE v[p] < a + k
    <2>1. CASE p <= Len(o)
      BY <1>2, <1>3, <2>1
    <2>2. CASE p > Len(o)
      BY <1>2, <1>4, <2>2
    <2> QED BY <1>2, <2>1, <2>2
  <1> QED BY <1>5, <1>6 DEF v, w

LEMMA OrderCopy == ASSUME MInv, Order, Copy PROVE Order'
  <1>1. PICK k : /\ k \in IF ~Mapped THEN {0} ELSE IF ShortWrites THEN 0 .. Actual ELSE {Actual}
                 /\ out' = out \o Window(k)
    BY DEF Copy
  <1>2. /\ pc = "loop" /\ pc' = "loop" /\ n_bytes_remained # 0 /\ Total' = Total
        /\ off' = off + Actual
    BY DEF Copy, Total
  <1>3. out \in Seq(Nat) /\ off \in Int /\ Total \in Int /\ n_bytes_remained \in Int
    BY IntRange DEF MInv, TypeOK, Total
  <1>4. CASE Total > 0
    <2>1. n_bytes_remained > 0 /\ off >= 0
      BY <1>2, <1>3, <1>4 DEF MInv, Loop
    <2>2. Actual \in 1 .. BUF_SIZE
      BY <1>3, <2>1 DEF Actual
    <2>3. k \in 0 .. Actual
      BY <1>1, <2>2
    <2>4. Window(k) = [p \in 1 .. k |-> off + p - 1]
      BY DEF Window
    <2>5. /\ \A p, q \in 1 .. Len(out') : p < q => out'[p] < out'[q]
          /\ \A p \in 1 .. Len(out') : out'[p] < off + k
      <3>1. /\ \A p, q \in 1 .. Len(out) : p < q => out[p] < out[q]
            /\ \A p \in 1 .. Len(out) : out[p] < off
        BY <1>2, <1>4 DEF Order, InOrder
      <3>2. off \in Nat /\ k \in Nat
        BY <1>3, <2>1, <2>2, <2>3
      <3>3. out' = out \o [p \in 1 .. k |-> off + p - 1]
        BY <1>1, <2>4
      <3> HIDE DEF Total
      <3> QED BY <1>3, <3>1, <3>2, <3>3, WindowBehind
    <2>6. out' \in Seq(Nat)
      BY MCopy DEF MInv, TypeOK
    <2>7. \A p \in 1 .. Len(out') : out'[p] < off'
      BY <1>2, <1>3, <2>2, <2>3, <2>5, <2>6
    <2> QED BY <2>5, <2>7 DEF Order, InOrder
  <1>5. CASE Total <= 0
    <2>1. out = <<>> /\ n_bytes_remained < 0
      BY <1>2, <1>3, <1>5 DEF MInv, Loop
    <2>2. ~Mapped /\ k = 0
      BY <1>1, <1>3, <2>1 DEF Mapped, Actual
    <2>3. out' = <<>>
      BY <1>1, <2>1, <2>2 DEF Window
    <2> QED BY <1>2, <1>3, <1>5, <2>3 DEF Order, InOrder
  <1> QED BY <1>3, <1>4, <1>5

\* Whatever write() leaves out, no byte is ever out of its order (my_cp.c:44-48).
THEOREM BytesInOrder == Spec => []InOrder
  <1>1. Init => Order
    BY DEF Init, Order, InOrder
  <1>2. ASSUME MInv, Order, [Next]_vars PROVE Order'
    <2>1. CASE Open
      <3>1. out' = <<>> /\ Len(out') = 0
        BY <1>2, <2>1 DEF Open, MInv, Loop
      <3> QED BY <3>1 DEF Order, InOrder
    <2>2. CASE Close \/ Ended \/ UNCHANGED vars
      BY <1>2, <2>2 DEF Close, Ended, vars, Order, InOrder, Total
    <2> QED BY <1>2, <2>1, <2>2, OrderCopy DEF Next
  <1>3. MInv /\ [Next]_vars => MInv'
    BY MOpen, MCopy, MRest DEF Next
  <1>4. Order => InOrder
    BY DEF Order
  <1> QED BY <1>1, <1>2, <1>3, <1>4, MInit, PTL DEF Spec
=============================================================================
