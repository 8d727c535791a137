---------------------------- MODULE ReaderProofs ----------------------------
(***************************************************************************)
(* Proofs, for every number of children and every size of buffer and file,  *)
(* of what ReaderProperties states.                                        *)
(***************************************************************************)
EXTENDS ReaderProperties, FiniteSetTheorems, SequenceTheorems, TLAPS

USE ReaderAssumption

-----------------------------------------------------------------------------
(* Counting the children and the bytes *)

LEMMA ChildCount == IsFiniteSet(Child) /\ Cardinality(Child) = N_CHILDS
  BY FS_Interval, 0 \in Int, N_CHILDS - 1 \in Int DEF Child

LEMMA PostedType == Posted \in SUBSET Child /\ IsFiniteSet(Posted) /\ Cardinality(Posted) \in Nat
  <1>1. Posted \in SUBSET Child
    BY DEF Posted
  <1>2. IsFiniteSet(Posted)
    BY <1>1, ChildCount, FS_Subset
  <1> QED BY <1>1, <1>2, FS_CardinalityType

\* When D(master_chid_sem, N_CHILDS) may pass, every child has posted.
LEMMA BarrierFull ==
  ASSUME r_master = Cardinality(Posted), r_master >= N_CHILDS
  PROVE  r_master = N_CHILDS /\ Posted = Child
  <1>1. Cardinality(Posted) <= Cardinality(Child)
    BY PostedType, ChildCount, FS_Subset
  <1>2. Cardinality(Posted) = Cardinality(Child)
    BY <1>1, PostedType, ChildCount
  <1> QED BY <1>2, PostedType, ChildCount, FS_Subset

\* A(master_chid_sem, 1) keeps the semaphore equal to the children that posted.
LEMMA PostCounts ==
  ASSUME NEW i \in Child, i \notin Posted, r_master = Cardinality(Posted),
         r_master' = r_master + 1, Posted' = Posted \cup {i}
  PROVE  r_master' = Cardinality(Posted)'
  <1>1. Cardinality(Posted \cup {i}) = Cardinality(Posted) + 1
    BY PostedType, FS_AddElement
  <1> QED BY <1>1

LEMMA PlaceType ==
  ASSUME NEW i \in Nat
  PROVE  BUFFER_SIZE * i \in Nat /\ BUFFER_SIZE * (i + 1) = BUFFER_SIZE * i + BUFFER_SIZE
  OBVIOUS

LEMMA ShareType == ASSUME NEW n \in Nat, NEW i \in Child PROVE Share(n, i) \in Nat
  BY PlaceType DEF Share, Child

\* Adding up the shares one child at a time: what is left of n after k + 1 children.
LEMMA ShareAdds ==
  ASSUME NEW n \in Nat, NEW k \in Child
  PROVE  (IF n < BUFFER_SIZE * k THEN n ELSE BUFFER_SIZE * k) + Share(n, k)
           = IF n < BUFFER_SIZE * (k + 1) THEN n ELSE BUFFER_SIZE * (k + 1)
  BY PlaceType DEF Share, Child

LEMMA RoundBytes == SWAP_BUF_SIZE \in Nat
  BY DEF SWAP_BUF_SIZE

\* Byte p of a round lies in the slice of child (p - 1) \div BUFFER_SIZE.
LEMMA PlaceOf ==
  ASSUME NEW p \in Nat, p < SWAP_BUF_SIZE
  PROVE  /\ p \div BUFFER_SIZE \in Child
         /\ BUFFER_SIZE * (p \div BUFFER_SIZE) + (p % BUFFER_SIZE) = p
  <1> DEFINE d == p \div BUFFER_SIZE
  <1>1. d \in Nat /\ p % BUFFER_SIZE \in 0 .. BUFFER_SIZE - 1
    OBVIOUS
  <1>2. BUFFER_SIZE * d + (p % BUFFER_SIZE) = p
    OBVIOUS
  <1> HIDE DEF d
  <1>3. BUFFER_SIZE * d < BUFFER_SIZE * N_CHILDS
    BY <1>1, <1>2, PlaceType DEF SWAP_BUF_SIZE
  <1>4. d >= N_CHILDS => BUFFER_SIZE * d >= BUFFER_SIZE * N_CHILDS
    BY <1>1
  <1>5. d < N_CHILDS
    BY <1>1, <1>3, <1>4
  <1>6. d \in Child
    BY <1>1, <1>5 DEF Child
  <1> QED BY <1>2, <1>6 DEF d

-----------------------------------------------------------------------------
(* The output file *)

\* A window put after bytes that all lie before it.
LEMMA WindowBehind ==
  ASSUME NEW o \in Seq(Nat), NEW a \in Nat, NEW k \in Nat,
         \A p, q \in 1 .. Len(o) : p < q => o[p] < o[q],
         \A p \in 1 .. Len(o) : o[p] < a
  PROVE  LET v == o \o [p \in 1 .. k |-> a + p - 1]
         IN  /\ v \in Seq(Nat) /\ Len(v) = Len(o) + k
             /\ \A p, q \in 1 .. Len(v) : p < q => v[p] < v[q]
             /\ \A p \in 1 .. Len(v) : v[p] < a + k
             /\ Len(o) = a /\ (\A p \in 1 .. Len(o) : o[p] = p - 1) =>
                  \A p \in 1 .. Len(v) : v[p] = p - 1
  <1> DEFINE w == [p \in 1 .. k |-> a + p - 1]
             v == o \o w
  <1>1. w \in Seq(Nat) /\ Len(w) = k /\ \A p \in 1 .. k : w[p] = a + p - 1
    OBVIOUS
  <1>2. Len(v) = Len(o) + k /\ Len(o) \in Nat
    BY <1>1, ConcatProperties
  <1>t. v \in Seq(Nat)
    BY <1>1, ConcatProperties
  <1>3. \A p \in 1 .. Len(o) : v[p] = o[p] /\ v[p] \in Nat
    BY <1>1, ConcatProperties
  <1>4. ASSUME NEW p \in Len(o) + 1 .. Len(o) + k PROVE v[p] = a + (p - Len(o)) - 1
    <2>1. p - Len(o) \in 1 .. k
      BY <1>2
    <2>2. v[p] = w[p - Len(o)]
      BY <1>1, <1>2
    <2> QED BY <1>1, <2>1, <2>2
  <1> HIDE DEF v, w
  <1>5. ASSUME NEW p \in 1 .. Len(v), NEW q \in 1 .. Len(v), p < q PROVE v[p] < v[q]
    <2>1. CASE q <= Len(o)
      BY <1>2, <1>3, <1>5, <2>1
    <2>2. CASE p <= Len(o) /\ q > Len(o)
      <3>1. v[p] < a /\ v[p] \in Nat
        BY <1>2, <1>3, <2>2
      <3>2. v[q] = a + (q - Len(o)) - 1
        BY <1>2, <1>4, <2>2
      <3> QED BY <1>2, <2>2, <3>1, <3>2
    <2>3. CASE p > Len(o)
      BY <1>2, <1>4, <1>5, <2>3
    <2> QED BY <1>2, <2>1, <2>2, <2>3
  <1>6. ASSUME NEW p \in 1 .. Len(v) PROVE v[p] < a + k
    <2>1. CASE p <= Len(o)
      BY <1>2, <1>3, <2>1
    <2>2. CASE p > Len(o)
      BY <1>2, <1>4, <2>2
    <2> QED BY <1>2, <2>1, <2>2
  <1>7. ASSUME Len(o) = a, \A p \in 1 .. Len(o) : o[p] = p - 1, NEW p \in 1 .. Len(v)
        PROVE  v[p] = p - 1
    <2>1. CASE p <= Len(o)
      BY <1>2, <1>3, <1>7, <2>1
    <2>2. CASE p > Len(o)
      BY <1>2, <1>4, <1>7, <2>2
    <2> QED BY <1>2, <2>1, <2>2
  <1> QED BY <1>2, <1>t, <1>5, <1>6, <1>7 DEF v, w

\* What the master writes of a round are the bytes of the file from Base(n) on.
LEMMA GatheredIs ==
  ASSUME NEW n \in 0 .. SWAP_BUF_SIZE, NEW m \in 0 .. n, Base(n) \in Nat,
         \A i \in Child : Has(i, n)
  PROVE  Gathered(m) = [p \in 1 .. m |-> Base(n) + p - 1]
  <1> SUFFICES ASSUME NEW p \in 1 .. m
               PROVE  slice_at[(p - 1) \div BUFFER_SIZE] + ((p - 1) % BUFFER_SIZE) = Base(n) + p - 1
    BY DEF Gathered
  <1>1. p - 1 \in Nat /\ p - 1 < SWAP_BUF_SIZE
    BY RoundBytes
  <1>2. PICK d \in Child : d = (p - 1) \div BUFFER_SIZE
    BY <1>1, PlaceOf
  <1>3. BUFFER_SIZE * d + ((p - 1) % BUFFER_SIZE) = p - 1
    BY <1>1, <1>2, PlaceOf
  <1>4. slice_at[d] = Base(n) + BUFFER_SIZE * d
    BY DEF Has
  <1>5. (p - 1) % BUFFER_SIZE \in Nat /\ BUFFER_SIZE * d \in Nat
    BY <1>1, PlaceType DEF Child
  <1> QED BY <1>2, <1>3, <1>4, <1>5

-----------------------------------------------------------------------------
(* TypeOK and IInv are inductive *)

LEMMA Witness ==
  ASSUME NEW n \in 0 .. SWAP_BUF_SIZE, QuitInv', SumInv', RoundInv(n)'
  PROVE  IInv'
  BY DEF IInv

LEMMA OutputKept ==
  ASSUME NEW n, Output(n), UNCHANGED <<out, short, peer_sent, peer_n>>
  PROVE  Output(n)'
  BY DEF Output, Base

LEMMA InitInv == Init /\ ~r_cut => TypeOK /\ IInv
  <1> SUFFICES ASSUME Init, ~r_cut PROVE TypeOK /\ IInv
    OBVIOUS
  <1>1. 0 \in Child /\ 0 \in 0 .. SWAP_BUF_SIZE /\ NoData \in Int
    BY RoundBytes DEF Child, NoData
  <1>2. TypeOK
    BY <1>1 DEF Init, TypeOK, Quiet
  <1>3. \A i \in Child : AtRest(i)
    BY DEF Init, AtRest
  <1>4. Turn(0)
    BY <1>3 DEF Init, Turn
  <1>5. Output(0)
    BY DEF Init, Output, Base
  <1>6. RoundInv(0)
    BY <1>1, <1>4, <1>5, RoundBytes DEF RoundInv
  <1> QED BY <1>1, <1>2, <1>6 DEF Init, IInv, QuitInv, SumInv

\* The master's steps up to its semop() leave the round as it is.
LEMMA ChainWaitInv ==
  ASSUME TypeOK, QuitInv, SumInv, NEW n \in 0 .. SWAP_BUF_SIZE, RoundInv(n),
         RM_ChainWait, UNCHANGED <<r_cut, r_childVars, link, peerVars>>
  PROVE  TypeOK' /\ IInv'
  <1>1. /\ r_main_pc = "chain" /\ r_main_pc' = "gather" /\ reader_urg /\ reader_urg' = FALSE
        /\ UNCHANGED <<need_write, adding, r_waits, out, short, r_master, r_quit, urg,
                       r_cut, r_child_pc, fdsi_n, slice_at, n_bytes_to_send, link,
                       peer_pc, peer_left, peer_n, peer_sent>>
    BY DEF RM_ChainWait, R_MainPc, r_childVars, peerVars
  <1>2. TypeOK' /\ QuitInv' /\ SumInv'
    BY <1>1 DEF TypeOK, QuitInv, SumInv
  <1>3. Posted' = Posted /\ Output(n)'
    BY <1>1, OutputKept DEF Posted, RoundInv
  <1>4. Round(n) \/ Over(n)
    BY <1>1 DEF RoundInv, Turn, Gather
  <1>5. CASE Round(n)
    <2>1. Round(n)'
      BY <1>1, <1>3, <1>5 DEF Round, Has, Base
    <2> QED BY <1>2, <1>3, <2>1, Witness DEF RoundInv
  <1>6. CASE Over(n)
    <2>1. Over(n)'
      BY <1>1, <1>3, <1>6 DEF Over, Leaving, Fresh
    <2> QED BY <1>2, <1>3, <2>1, Witness DEF RoundInv
  <1> QED BY <1>4, <1>5, <1>6

\* D(master_chid_sem, N_CHILDS): every child has posted, so none is at work any more.
LEMMA GatherInv ==
  ASSUME TypeOK, QuitInv, SumInv, NEW n \in 0 .. SWAP_BUF_SIZE, RoundInv(n),
         RM_Gather, UNCHANGED <<r_cut, r_childVars, link, peerVars>>
  PROVE  TypeOK' /\ IInv'
  <1>1. /\ r_main_pc = "gather" /\ r_main_pc' = "sum" /\ need_write' = 0 /\ adding' = adding
        /\ r_master >= N_CHILDS /\ r_master' = r_master - N_CHILDS
        /\ UNCHANGED <<r_waits, out, short, r_quit, urg, reader_urg,
                       r_cut, r_child_pc, fdsi_n, slice_at, n_bytes_to_send, link,
                       peer_pc, peer_left, peer_n, peer_sent>>
    BY DEF RM_Gather, R_MainPc, r_childVars, peerVars, chainVars
  <1>2. TypeOK' /\ QuitInv' /\ SumInv'
    BY <1>1 DEF TypeOK, QuitInv, SumInv
  <1>3. Output(n)' /\ adding' = 0
    BY <1>1, OutputKept DEF SumInv, RoundInv
  <1>4. r_master = Cardinality(Posted) /\ (Round(n) \/ Over(n))
    BY <1>1 DEF RoundInv, Turn, Gather, Round, Over
  <1>5. r_master' = 0 /\ Posted = Child
    BY <1>1, <1>4, BarrierFull
  <1>6. \A i \in Child : i \notin peer_left /\ r_child_pc[i] = "idle" /\ link[i].st \in {"idle", "ack"}
    BY <1>5 DEF Posted
  <1>7. CASE Round(n)
    <2>1. /\ n > 0 /\ ~urg /\ ~reader_urg /\ peer_pc = "wait" /\ peer_n = 0
          /\ \A i \in Child : link[i] = Quiet /\ Has(i, n)
      BY <1>1, <1>7 DEF Round
    <2>2. \A i \in Child : AtRest(i)' /\ Has(i, n)'
      BY <1>1, <1>6, <2>1 DEF AtRest, Has, Base
    <2>3. need_write' = IF n < BUFFER_SIZE * adding' THEN n ELSE BUFFER_SIZE * adding'
      BY <1>1, <1>3
    <2>4. Gather(n)'
      BY <1>1, <1>5, <2>1, <2>2, <2>3 DEF Gather
    <2> QED BY <1>2, <1>3, <2>4, Witness DEF RoundInv
  <1>8. CASE Over(n)
    <2>1. n = 0 /\ peer_n = 0 /\ peer_pc = "over" /\ ~reader_urg /\ \A i \in Child : Leaving(i)
      BY <1>1, <1>8 DEF Over
    <2>2. \A i \in Child : AtRest(i)' /\ n_bytes_to_send'[i] = 0
      BY <1>1, <1>6, <2>1 DEF AtRest, Leaving, Fresh
    <2>3. Over(n)'
      BY <1>1, <2>1, <2>2 DEF Over
    <2> QED BY <1>2, <1>3, <2>3, Witness DEF RoundInv
  <1> QED BY <1>4, <1>7, <1>8

\* The loop adds up to the bytes of the round, or to 0 when there is no round.
LEMMA SumLoopInv ==
  ASSUME TypeOK, QuitInv, SumInv, NEW n \in 0 .. SWAP_BUF_SIZE, RoundInv(n),
         RM_Sum, UNCHANGED <<r_cut, r_childVars, link, peerVars>>
  PROVE  TypeOK' /\ IInv'
  <1>1. /\ r_main_pc = "sum" /\ r_main_pc' = AfterSum /\ NextChild
        /\ need_write' = need_write + n_bytes_to_send[adding]
        /\ UNCHANGED <<r_waits, out, short, r_master, r_quit, urg, reader_urg,
                       r_cut, r_child_pc, fdsi_n, slice_at, n_bytes_to_send, link,
                       peer_pc, peer_left, peer_n, peer_sent>>
    BY DEF RM_Sum, R_MainPc, r_childVars, peerVars, chainVars
  <1>2. adding \in Nat /\ adding < N_CHILDS /\ adding \in Child
    BY DEF TypeOK, Child
  <1>3. /\ adding' = IF adding + 1 < N_CHILDS THEN adding + 1 ELSE 0
        /\ r_main_pc' = IF adding + 1 < N_CHILDS THEN "sum" ELSE IF need_write' = 0 THEN "say" ELSE "write"
    <2>1. CASE adding + 1 < N_CHILDS
      BY <1>1, <1>2, <2>1 DEF NextChild, AfterSum
    <2>2. CASE ~(adding + 1 < N_CHILDS)
      <3>1. adding + 1 = N_CHILDS /\ N_CHILDS % N_CHILDS = 0
        BY <1>2, <2>2
      <3> QED BY <1>1, <2>2, <3>1 DEF NextChild, AfterSum
    <2> QED BY <2>1, <2>2
  <1>4. TypeOK' /\ QuitInv' /\ SumInv'
    <2>1. need_write' \in Nat /\ adding' \in Child
      <3>1. n_bytes_to_send[adding] \in Nat /\ need_write \in Nat
        BY <1>2 DEF TypeOK
      <3>2. adding' \in Child
        BY <1>2, <1>3 DEF Child
      <3> QED BY <1>1, <3>1, <3>2
    <2>2. SumInv' /\ r_main_pc' \in {"sum", "say", "write"}
      BY <1>3 DEF SumInv
    <2> QED BY <1>1, <2>1, <2>2 DEF TypeOK, QuitInv
  <1>5. Output(n)' /\ (Gather(n) \/ Over(n))
    BY <1>1, OutputKept DEF RoundInv, Turn, Round
  <1>6. CASE Gather(n)
    <2>1. /\ n > 0 /\ need_write = (IF n < BUFFER_SIZE * adding THEN n ELSE BUFFER_SIZE * adding)
          /\ n_bytes_to_send[adding] = Share(n, adding)
      BY <1>1, <1>2, <1>6 DEF Gather, Has, AtRest
    <2>2. need_write' = IF n < BUFFER_SIZE * (adding + 1) THEN n ELSE BUFFER_SIZE * (adding + 1)
      BY <1>1, <1>2, <2>1, ShareAdds
    <2>3. /\ r_main_pc' = "sum" => need_write' = IF n < BUFFER_SIZE * adding' THEN n ELSE BUFFER_SIZE * adding'
          /\ r_main_pc' # "sum" => r_main_pc' = "write" /\ need_write' = n
      <3>1. CASE adding + 1 < N_CHILDS
        BY <1>3, <2>2, <3>1
      <3>2. CASE ~(adding + 1 < N_CHILDS)
        <4>1. adding + 1 = N_CHILDS /\ ~(n > BUFFER_SIZE * N_CHILDS)
          BY <1>2, <3>2 DEF SWAP_BUF_SIZE
        <4>2. need_write' = n
          BY <2>2, <4>1
        <4> QED BY <1>3, <2>1, <3>2, <4>2
      <3> QED BY <3>1, <3>2
    <2>4. /\ peer_pc = "wait" /\ peer_n = 0 /\ ~urg /\ ~reader_urg /\ r_master = 0
          /\ \A i \in Child : AtRest(i) /\ Has(i, n)
      BY <1>1, <1>6, <2>1 DEF Gather
    <2>5. \A i \in Child : AtRest(i)' /\ Has(i, n)'
      BY <1>1, <2>4 DEF AtRest, Has, Base
    <2>6. Gather(n)'
      BY <1>1, <2>1, <2>3, <2>4, <2>5 DEF Gather
    <2> QED BY <1>4, <1>5, <2>6, Witness DEF RoundInv
  <1>7. CASE Over(n)
    <2>1. /\ n = 0 /\ peer_n = 0 /\ peer_pc = "over" /\ need_write = 0 /\ ~reader_urg
          /\ \A i \in Child : AtRest(i) /\ n_bytes_to_send[i] = 0
      BY <1>1, <1>7 DEF Over
    <2>2. need_write' = 0 /\ r_main_pc' \in {"sum", "say"}
      BY <1>1, <1>2, <1>3, <2>1
    <2>3. Over(n)'
      BY <1>1, <2>1, <2>2 DEF Over, AtRest
    <2> QED BY <1>4, <1>5, <2>3, Witness DEF RoundInv
  <1> QED BY <1>5, <1>6, <1>7

\* The bytes of the round come behind those of the rounds before.
LEMMA WriteInv ==
  ASSUME TypeOK, QuitInv, SumInv, NEW n \in 0 .. SWAP_BUF_SIZE, RoundInv(n),
         RM_Write, UNCHANGED <<r_cut, r_childVars, link, peerVars>>
  PROVE  TypeOK' /\ IInv'
  <1>1. /\ r_main_pc = "write" /\ r_main_pc' = "say"
        /\ UNCHANGED <<need_write, adding, r_waits, r_master, r_quit, urg, reader_urg,
                       r_cut, r_child_pc, fdsi_n, slice_at, n_bytes_to_send, link,
                       peer_pc, peer_left, peer_n, peer_sent>>
    BY DEF RM_Write, R_MainPc, r_childVars, peerVars, chainVars
  <1>2. PICK m \in 0 .. need_write :
          out' = out \o Gathered(m) /\ short' = (short \/ m < need_write)
    BY DEF RM_Write
  <1>3. /\ n > 0 /\ need_write = n /\ \A i \in Child : AtRest(i) /\ Has(i, n)
        /\ peer_pc = "wait" /\ peer_n = 0 /\ ~urg /\ ~reader_urg /\ r_master = 0
    BY <1>1 DEF RoundInv, Turn, Round, Gather, Over
  <1>4. Output(n) /\ Base(n) \in Nat /\ m \in Nat /\ out \in Seq(Nat)
    BY <1>2, <1>3 DEF RoundInv, Output, TypeOK
  <1>5. out' = out \o [p \in 1 .. m |-> Base(n) + p - 1]
    BY <1>2, <1>3, <1>4, GatheredIs
  <1>6. /\ out' \in Seq(Nat) /\ Len(out') = Len(out) + m
        /\ \A p, q \in 1 .. Len(out') : p < q => out'[p] < out'[q]
        /\ \A p \in 1 .. Len(out') : out'[p] < Base(n) + m
        /\ Len(out) = Base(n) /\ (\A p \in 1 .. Len(out) : out[p] = p - 1) =>
             \A p \in 1 .. Len(out') : out'[p] = p - 1
    <2>1. /\ \A p, q \in 1 .. Len(out) : p < q => out[p] < out[q]
          /\ \A p \in 1 .. Len(out) : out[p] < Base(n)
      BY <1>4 DEF Output
    <2>2. PICK b \in Nat : b = Base(n)
      BY <1>4
    <2>3. /\ \A p \in 1 .. Len(out) : out[p] < b
          /\ out' = out \o [p \in 1 .. m |-> b + p - 1]
      BY <1>5, <2>1, <2>2
    <2>4. /\ out' \in Seq(Nat) /\ Len(out') = Len(out) + m
          /\ \A p, q \in 1 .. Len(out') : p < q => out'[p] < out'[q]
          /\ \A p \in 1 .. Len(out') : out'[p] < b + m
          /\ Len(out) = b /\ (\A p \in 1 .. Len(out) : out[p] = p - 1) =>
               \A p \in 1 .. Len(out') : out'[p] = p - 1
      BY <1>4, <2>1, <2>3, WindowBehind
    <2> QED BY <2>2, <2>4
  <1>7. Base(0)' = Base(n) + n /\ Base(0)' \in Nat
    BY <1>1, <1>3, <1>4 DEF Base, TypeOK
  <1>8. Output(0)'
    <2>1. \A p \in 1 .. Len(out') : out'[p] < Base(0)'
      <3>1. ASSUME NEW p \in 1 .. Len(out') PROVE out'[p] < Base(0)'
        <4>1. out'[p] \in Nat /\ out'[p] < Base(n) + m
          BY <1>6, <3>1, ElementOfSeq
        <4> QED BY <1>2, <1>3, <1>4, <1>7, <4>1
      <3> QED BY <3>1
    <2>2. ~short' => ~short /\ m = n
      <3>1. short \in BOOLEAN
        BY DEF TypeOK
      <3>2. ~(m < n) => m = n
        BY <1>2, <1>3
      <3> QED BY <1>2, <1>3, <3>1, <3>2
    <2>3. ~short' => Len(out') = Base(0)' /\ \A p \in 1 .. Len(out') : out'[p] = p - 1
      BY <1>4, <1>6, <1>7, <2>2 DEF Output
    <2> QED BY <1>6, <1>7, <2>1, <2>3 DEF Output
  <1>9. TypeOK' /\ QuitInv' /\ SumInv'
    <2>1. short' \in BOOLEAN
      BY <1>2
    <2> QED BY <1>1, <1>6, <2>1 DEF TypeOK, QuitInv, SumInv
  <1>10. Gather(0)'
    BY <1>1, <1>3 DEF Gather, AtRest
  <1>11. 0 \in 0 .. SWAP_BUF_SIZE /\ 0 <= SWAP_BUF_SIZE
    BY RoundBytes
  <1>12. RoundInv(0)'
    BY <1>8, <1>10, <1>11 DEF RoundInv, SWAP_BUF_SIZE
  <1> QED BY <1>9, <1>11, <1>12 DEF IInv, SWAP_BUF_SIZE

\* The turn goes back to the sender, or the loop of the reader ends.
LEMMA SayReadyInv ==
  ASSUME TypeOK, QuitInv, SumInv, NEW n \in 0 .. SWAP_BUF_SIZE, RoundInv(n),
         RM_SayReady, UNCHANGED <<r_cut, r_childVars, link, peerVars>>
  PROVE  TypeOK' /\ IInv'
  <1>1. /\ r_main_pc = "say" /\ r_main_pc' = (IF need_write > 0 THEN "chain" ELSE "quit")
        /\ urg' = TRUE
        /\ UNCHANGED <<need_write, adding, r_waits, out, short, r_master, r_quit, reader_urg,
                       r_cut, r_child_pc, fdsi_n, slice_at, n_bytes_to_send, link,
                       peer_pc, peer_left, peer_n, peer_sent>>
    BY DEF RM_SayReady, R_MainPc, r_childVars, peerVars
  <1>2. TypeOK' /\ QuitInv' /\ SumInv'
    BY <1>1 DEF TypeOK, QuitInv, SumInv
  <1>3. Output(n)' /\ (Gather(n) \/ Over(n))
    BY <1>1, OutputKept DEF RoundInv, Turn, Round
  <1>4. CASE Gather(n)
    <2>1. Turn(n)'
      BY <1>1, <1>4 DEF Gather, Turn, AtRest
    <2> QED BY <1>2, <1>3, <2>1, Witness DEF RoundInv
  <1>5. CASE Over(n)
    <2>1. Over(n)'
      BY <1>1, <1>5 DEF Over, AtRest
    <2> QED BY <1>2, <1>3, <2>1, Witness DEF RoundInv
  <1> QED BY <1>3, <1>4, <1>5

LEMMA EndInv ==
  ASSUME TypeOK, QuitInv, SumInv, NEW n \in 0 .. SWAP_BUF_SIZE, RoundInv(n),
         RM_QuitChilds \/ RM_Wait \/ RM_Cleanup, UNCHANGED <<r_cut, r_childVars, link, peerVars>>
  PROVE  TypeOK' /\ IInv'
  <1>1. /\ r_main_pc \in {"quit", "reap"} /\ r_main_pc' \in {"reap", "exit"}
        /\ r_waits' \in Nat /\ r_quit' \in [Child -> BOOLEAN]
        /\ UNCHANGED <<need_write, adding, out, short, r_master, urg, reader_urg,
                       r_cut, r_child_pc, fdsi_n, slice_at, n_bytes_to_send, link,
                       peer_pc, peer_left, peer_n, peer_sent>>
    <2> USE DEF R_MainPc, r_childVars, peerVars, chainVars, TypeOK
    <2>1. CASE RM_QuitChilds
      <3>1. [i \in Child |-> TRUE] \in [Child -> BOOLEAN]
        OBVIOUS
      <3> QED BY <2>1, <3>1 DEF RM_QuitChilds
    <2>2. CASE RM_Wait \/ RM_Cleanup
      BY <2>2 DEF RM_Wait, RM_Cleanup
    <2> QED BY <2>1, <2>2
  <1>2. TypeOK' /\ QuitInv' /\ SumInv'
    BY <1>1 DEF TypeOK, QuitInv, SumInv
  <1>3. Output(n)' /\ Over(n)
    BY <1>1, OutputKept DEF RoundInv, Turn, Round, Gather
  <1>4. Over(n)'
    BY <1>1, <1>3 DEF Over, AtRest
  <1> QED BY <1>2, <1>3, <1>4, Witness DEF RoundInv

LEMMA MainInv == ASSUME TypeOK, IInv, R_Main PROVE TypeOK' /\ IInv'
  <1>1. PICK n \in 0 .. SWAP_BUF_SIZE : RoundInv(n)
    BY DEF IInv
  <1>2. QuitInv /\ SumInv /\ UNCHANGED <<r_cut, r_childVars, link, peerVars>>
    BY DEF IInv, R_Main
  <1> QED BY <1>1, <1>2, ChainWaitInv, GatherInv, SumLoopInv, WriteInv, SayReadyInv, EndInv
          DEF R_Main

-----------------------------------------------------------------------------
(* The children *)

\* Child j is where it was, and so is the round.
Untouched(j) ==
  /\ r_child_pc'[j] = r_child_pc[j] /\ fdsi_n'[j] = fdsi_n[j] /\ slice_at'[j] = slice_at[j]
  /\ n_bytes_to_send'[j] = n_bytes_to_send[j] /\ link'[j] = link[j]
  /\ j \in peer_left' <=> j \in peer_left

SameRound == UNCHANGED <<r_mainVars, chainVars, peer_pc, peer_n, peer_sent>>

LEMMA UntouchedKept ==
  ASSUME NEW n, NEW j \in Child, Untouched(j), SameRound
  PROVE  /\ Working(j, n) => Working(j, n)'
         /\ Leaving(j) => Leaving(j)'
         /\ Has(j, n) => Has(j, n)'
  BY DEF Untouched, SameRound, Working, Leaving, Fresh, Has, Base, Quiet, NoData

LEMMA SameRoundInv ==
  ASSUME QuitInv, SumInv, NEW n, Output(n), SameRound, \A i \in Child : r_quit'[i] => r_quit[i]
  PROVE  QuitInv' /\ SumInv' /\ Output(n)'
  <1>1. UNCHANGED <<r_main_pc, adding, out, short, peer_sent, peer_n>>
    BY DEF SameRound, r_mainVars
  <1> QED BY <1>1, OutputKept DEF QuitInv, SumInv

\* Only one child moves, and it is still on its way through the round.
LEMMA ToldKept ==
  ASSUME TypeOK', QuitInv, SumInv, NEW n \in 0 .. SWAP_BUF_SIZE, RoundInv(n), Round(n),
         peer_pc = "told", SameRound, NEW i \in Child, \A j \in Child \ {i} : Untouched(j),
         Working(i, n)', r_master' = Cardinality(Posted)',
         \A j \in Child : r_quit'[j] => r_quit[j]
  PROVE  IInv'
  <1>1. QuitInv' /\ SumInv' /\ Output(n)'
    BY SameRoundInv DEF RoundInv
  <1>2. \A j \in Child : Working(j, n)'
    BY UntouchedKept DEF Round
  <1>3. Round(n)'
    BY <1>2 DEF Round, SameRound, r_mainVars, chainVars
  <1> QED BY <1>1, <1>3, Witness DEF RoundInv

LEMMA SentKept ==
  ASSUME TypeOK', QuitInv, SumInv, NEW n \in 0 .. SWAP_BUF_SIZE, RoundInv(n), Round(n),
         peer_pc # "told", SameRound, peer_left' = peer_left,
         NEW i \in Child, \A j \in Child \ {i} : Untouched(j),
         link' = link, Has(i, n)', r_child_pc'[i] \in {"store", "post", "idle"},
         r_master' = Cardinality(Posted)', \A j \in Child : r_quit'[j] => r_quit[j]
  PROVE  IInv'
  <1>1. QuitInv' /\ SumInv' /\ Output(n)'
    BY SameRoundInv DEF RoundInv
  <1>2. \A j \in Child : Has(j, n)' /\ link'[j] = Quiet
                         /\ r_child_pc'[j] \in {"store", "post", "idle"}
    BY UntouchedKept DEF Round, Untouched
  <1>3. Round(n)'
    BY <1>2 DEF Round, SameRound, r_mainVars, chainVars
  <1> QED BY <1>1, <1>3, Witness DEF RoundInv

LEMMA LeavingKept ==
  ASSUME TypeOK', QuitInv, SumInv, NEW n \in 0 .. SWAP_BUF_SIZE, RoundInv(n), Over(n),
         r_main_pc \in {"chain", "gather"},
         SameRound, NEW i \in Child, \A j \in Child \ {i} : Untouched(j),
         Leaving(i)', r_master' = Cardinality(Posted)',
         \A j \in Child : r_quit'[j] => r_quit[j]
  PROVE  IInv'
  <1>1. QuitInv' /\ SumInv' /\ Output(n)'
    BY SameRoundInv DEF RoundInv
  <1>2. \A j \in Child : Leaving(j)'
    BY UntouchedKept DEF Over
  <1>3. Over(n)'
    BY <1>2 DEF Over, SameRound, r_mainVars, chainVars
  <1> QED BY <1>1, <1>3, Witness DEF RoundInv

\* A child that moves posts, or is no one the master counts.
LEMMA OneMoves ==
  ASSUME NEW i \in Child, \A j \in Child \ {i} : Untouched(j)
  PROVE  Posted' = IF i \notin peer_left' /\ r_child_pc'[i] = "idle" /\ link'[i].st \in {"idle", "ack"}
                   THEN Posted \cup {i} ELSE Posted \ {i}
  BY DEF Posted, Untouched

LEMMA ChildMoves ==
  ASSUME TypeOK, NEW i \in Child, R_ChildStep(i)
  PROVE  /\ SameRound /\ peer_left' = peer_left /\ \A j \in Child \ {i} : Untouched(j)
         /\ \A j \in Child : r_quit'[j] => r_quit[j]
  <1>1. UNCHANGED <<r_mainVars, chainVars, peerVars>>
    BY DEF R_ChildStep
  <1> USE <1>1 DEF TypeOK, R_ChildPc, peerVars, Untouched, SameRound
  <1>2. CASE RC_Request(i) \/ RC_Words(i)
    BY <1>2 DEF RC_Request, RC_Words
  <1>3. CASE RC_Store(i)
    BY <1>3 DEF RC_Store
  <1>4. CASE RC_Post(i)
    BY <1>4 DEF RC_Post
  <1>5. CASE RC_Stop(i) \/ RC_Quit(i)
    BY <1>5 DEF RC_Stop, RC_Quit
  <1> QED BY <1>2, <1>3, <1>4, <1>5 DEF R_ChildStep

LEMMA QuietIs == Quiet.st = "idle" /\ Quiet \in [st : {"idle", "req", "go", "data", "ack", "stop"}, n : Nat, at : Int]
  BY DEF Quiet, NoData

LEMMA ChildType == ASSUME TypeOK, NEW i \in Child, R_ChildStep(i) PROVE TypeOK'
  <1>0. UNCHANGED <<r_mainVars, chainVars, peerVars>>
    BY DEF R_ChildStep
  <1> USE <1>0 DEF TypeOK, R_ChildPc, r_mainVars, chainVars, peerVars
  <1>1. CASE RC_Request(i)
    <2>1. slice_at' \in [Child -> Int]
      BY <1>1 DEF RC_Request, NoData
    <2> QED BY <1>1, <2>1 DEF RC_Request
  <1>2. CASE RC_Words(i)
    <2>1. (IF r_quit[i] THEN NoData ELSE link[i].at) \in Int
      BY DEF NoData
    <2>2. slice_at' \in [Child -> Int]
      BY <1>2, <2>1 DEF RC_Words
    <2> QED BY <1>2, <2>2 DEF RC_Words
  <1>3. CASE RC_Store(i)
    BY <1>3 DEF RC_Store
  <1>4. CASE RC_Post(i)
    BY <1>4 DEF RC_Post
  <1>5. CASE RC_Stop(i)
    BY <1>5, QuietIs DEF RC_Stop
  <1>6. CASE RC_Quit(i)
    BY <1>6 DEF RC_Quit
  <1> QED BY <1>1, <1>2, <1>3, <1>4, <1>5, <1>6 DEF R_ChildStep

LEMMA RequestInv ==
  ASSUME TypeOK, TypeOK', QuitInv, SumInv, NEW n \in 0 .. SWAP_BUF_SIZE, RoundInv(n),
         NEW i \in Child, R_ChildStep(i), RC_Request(i) \/ RC_Words(i)
  PROVE  IInv'
  <1>1. /\ SameRound /\ peer_left' = peer_left /\ \A j \in Child \ {i} : Untouched(j)
        /\ \A j \in Child : r_quit'[j] => r_quit[j]
    BY ChildMoves
  <1>2. r_master' = r_master /\ link[i].st \in {"req", "data"}
    BY DEF RC_Request, RC_Words
  <1>3. Round(n) /\ peer_pc = "told" /\ Working(i, n) /\ r_master = Cardinality(Posted)
    BY <1>2, QuietIs DEF RoundInv, Turn, Round, Gather, Over, AtRest, Leaving, Fresh
  <1>4. Base(n)' = Base(n) /\ ~r_quit[i]
    BY <1>1, <1>3 DEF SameRound, Base, Round, QuitInv
  <1>5. CASE RC_Request(i)
    <2>1. /\ r_child_pc[i] = "idle" /\ r_child_pc'[i] = "words" /\ link[i].st = "req"
          /\ link'[i].st = "go" /\ fdsi_n'[i] = link[i].n
      BY <1>5 DEF RC_Request, R_ChildPc, TypeOK
    <2>2. i \notin peer_left /\ link[i].n = Share(n, i)
      BY <1>3, <2>1, QuietIs DEF Working, Fresh
    <2>3. Working(i, n)'
      BY <1>1, <2>1, <2>2 DEF Working
    <2>4. Posted' = Posted
      BY <1>1, <2>1, OneMoves DEF Posted
    <2> QED BY <1>1, <1>2, <1>3, <2>3, <2>4, ToldKept
  <1>6. CASE RC_Words(i)
    <2>1. /\ r_child_pc[i] = "words" /\ r_child_pc'[i] = "store" /\ link[i].st = "data"
          /\ link'[i].st = "ack" /\ slice_at'[i] = link[i].at /\ fdsi_n' = fdsi_n
      BY <1>4, <1>6 DEF RC_Words, R_ChildPc, TypeOK
    <2>2. i \notin peer_left /\ fdsi_n[i] = Share(n, i) /\ link[i].at = Base(n) + BUFFER_SIZE * i
      BY <1>3, <2>1, QuietIs DEF Working, Fresh
    <2>3. Has(i, n)'
      BY <1>4, <2>1, <2>2 DEF Has
    <2>4. Working(i, n)'
      BY <1>1, <2>1, <2>2, <2>3 DEF Working
    <2>5. Posted' = Posted
      BY <1>1, <2>1, OneMoves DEF Posted
    <2> QED BY <1>1, <1>2, <1>3, <2>4, <2>5, ToldKept
  <1> QED BY <1>5, <1>6

\* A child that has its slice stores the count and posts.
LEMMA StoreInv ==
  ASSUME TypeOK, TypeOK', QuitInv, SumInv, NEW n \in 0 .. SWAP_BUF_SIZE, RoundInv(n),
         NEW i \in Child, R_ChildStep(i), RC_Store(i)
  PROVE  IInv'
  <1>1. /\ SameRound /\ peer_left' = peer_left /\ \A j \in Child \ {i} : Untouched(j)
        /\ \A j \in Child : r_quit'[j] => r_quit[j]
    BY ChildMoves
  <1>2. /\ r_child_pc[i] = "store" /\ r_child_pc'[i] = "post"
        /\ n_bytes_to_send'[i] = fdsi_n[i] /\ UNCHANGED <<fdsi_n, slice_at, r_master, link>>
    BY DEF RC_Store, R_ChildPc, TypeOK
  <1>3. Round(n) /\ Has(i, n) /\ r_master = Cardinality(Posted)
    BY <1>2 DEF RoundInv, Turn, Round, Gather, Over, AtRest, Leaving, Fresh, Working
  <1>4. Has(i, n)'
    BY <1>1, <1>2, <1>3 DEF Has, SameRound, Base
  <1>5. Posted' = Posted
    BY <1>1, <1>2, OneMoves DEF Posted
  <1>6. CASE peer_pc = "told"
    <2>1. Working(i, n)'
      BY <1>1, <1>2, <1>3, <1>4, <1>6 DEF Round, Working, Fresh
    <2> QED BY <1>1, <1>2, <1>3, <1>5, <1>6, <2>1, ToldKept
  <1>7. CASE peer_pc # "told"
    BY <1>1, <1>2, <1>3, <1>4, <1>5, <1>7, SentKept
  <1> QED BY <1>6, <1>7

LEMMA PostInv ==
  ASSUME TypeOK, TypeOK', QuitInv, SumInv, NEW n \in 0 .. SWAP_BUF_SIZE, RoundInv(n),
         NEW i \in Child, R_ChildStep(i), RC_Post(i)
  PROVE  IInv'
  <1>1. /\ SameRound /\ peer_left' = peer_left /\ \A j \in Child \ {i} : Untouched(j)
        /\ \A j \in Child : r_quit'[j] => r_quit[j]
    BY ChildMoves
  <1>2. /\ r_child_pc[i] = "post" /\ r_child_pc'[i] = "idle" /\ r_master' = r_master + 1
        /\ UNCHANGED <<fdsi_n, slice_at, n_bytes_to_send, link>>
    BY DEF RC_Post, R_ChildPc, TypeOK
  <1>3. /\ r_master = Cardinality(Posted) /\ i \notin peer_left /\ link[i].st \in {"idle", "ack"}
        /\ \/ Round(n) /\ Has(i, n)
           \/ Over(n) /\ r_main_pc \in {"chain", "gather"} /\ Leaving(i)
    BY <1>2, QuietIs DEF RoundInv, Turn, Round, Gather, Over, AtRest, Leaving, Fresh, Working
  <1>4. Posted' = Posted \cup {i} /\ i \notin Posted
    BY <1>1, <1>2, <1>3, OneMoves DEF Posted
  <1>5. r_master' = Cardinality(Posted)'
    BY <1>2, <1>3, <1>4, PostCounts
  <1>6. CASE Round(n) /\ Has(i, n)
    <2>1. Has(i, n)'
      BY <1>1, <1>2, <1>6 DEF Has, SameRound, Base
    <2>2. CASE peer_pc = "told"
      <3>1. Working(i, n)'
        BY <1>1, <1>2, <1>6, <2>1, <2>2 DEF Round, Working, Fresh
      <3> QED BY <1>1, <1>5, <1>6, <2>2, <3>1, ToldKept
    <2>3. CASE peer_pc # "told"
      BY <1>1, <1>2, <1>5, <1>6, <2>1, <2>3, SentKept
    <2> QED BY <2>2, <2>3
  <1>7. CASE Over(n) /\ r_main_pc \in {"chain", "gather"} /\ Leaving(i)
    <2>1. Leaving(i)'
      BY <1>1, <1>2, <1>3, <1>7 DEF Leaving, Fresh, Quiet, NoData
    <2> QED BY <1>1, <1>5, <1>7, <2>1, LeavingKept
  <1> QED BY <1>3, <1>6, <1>7

\* SIGUSR2 of the peer: nothing more to read.
LEMMA StopInv ==
  ASSUME TypeOK, TypeOK', QuitInv, SumInv, NEW n \in 0 .. SWAP_BUF_SIZE, RoundInv(n),
         NEW i \in Child, R_ChildStep(i), RC_Stop(i)
  PROVE  IInv'
  <1>1. /\ SameRound /\ peer_left' = peer_left /\ \A j \in Child \ {i} : Untouched(j)
        /\ \A j \in Child : r_quit'[j] => r_quit[j]
    BY ChildMoves
  <1>2. /\ r_child_pc[i] = "idle" /\ r_child_pc'[i] = "post" /\ link[i].st = "stop"
        /\ link'[i] = Quiet /\ n_bytes_to_send'[i] = 0 /\ r_master' = r_master
    BY DEF RC_Stop, R_ChildPc, TypeOK
  <1>3. /\ r_master = Cardinality(Posted) /\ i \notin peer_left
        /\ Over(n) /\ r_main_pc \in {"chain", "gather"}
    BY <1>2, QuietIs DEF RoundInv, Turn, Round, Gather, Over, AtRest, Leaving, Fresh, Working
  <1>4. Posted' = Posted
    BY <1>1, <1>2, OneMoves DEF Posted
  <1>5. Leaving(i)'
    BY <1>1, <1>2, <1>3 DEF Leaving, Quiet, NoData
  <1> QED BY <1>1, <1>2, <1>3, <1>4, <1>5, LeavingKept

\* SIGQUIT of the master: the children leave when the loop is over.
LEMMA QuitChildInv ==
  ASSUME TypeOK, TypeOK', QuitInv, SumInv, NEW n \in 0 .. SWAP_BUF_SIZE, RoundInv(n),
         NEW i \in Child, R_ChildStep(i), RC_Quit(i)
  PROVE  IInv'
  <1>1. /\ SameRound /\ peer_left' = peer_left /\ \A j \in Child \ {i} : Untouched(j)
        /\ \A j \in Child : r_quit'[j] => r_quit[j]
    BY ChildMoves
  <1>2. r_quit[i] /\ r_child_pc'[i] = "exit" /\ link' = link
    BY DEF RC_Quit, R_ChildPc, TypeOK
  <1>3. r_main_pc \in {"reap", "exit"} /\ Over(n)
    BY <1>2 DEF QuitInv, RoundInv, Turn, Round, Gather
  <1>4. \A j \in Child : j \notin peer_left' /\ link'[j] = Quiet /\ r_child_pc'[j] \in {"idle", "exit"}
    BY <1>1, <1>2, <1>3 DEF Over, Untouched
  <1>5. Over(n)'
    BY <1>1, <1>3, <1>4 DEF Over, SameRound, r_mainVars, chainVars, Quiet, NoData
  <1>6. QuitInv' /\ SumInv' /\ Output(n)'
    BY <1>1, SameRoundInv DEF RoundInv
  <1> QED BY <1>5, <1>6, Witness DEF RoundInv

LEMMA ChildInv == ASSUME TypeOK, IInv, NEW i \in Child, R_ChildStep(i) PROVE TypeOK' /\ IInv'
  <1>1. PICK n \in 0 .. SWAP_BUF_SIZE : RoundInv(n)
    BY DEF IInv
  <1>2. QuitInv /\ SumInv /\ TypeOK'
    BY ChildType DEF IInv
  <1> QED BY <1>1, <1>2, RequestInv, StoreInv, PostInv, StopInv, QuitChildInv DEF R_ChildStep

-----------------------------------------------------------------------------
(* The sender program *)

\* What no step of the sender's masters changes.
LEMMA SenderLeaves ==
  ASSUME EnvSender
  PROVE  UNCHANGED <<r_main_pc, need_write, adding, r_waits, out, short, r_cut, r_child_pc, fdsi_n,
                     slice_at, n_bytes_to_send, r_master, r_quit, link>>
  BY DEF EnvSender, r_mainVars, r_childVars

LEMMA EnvTakeInv ==
  ASSUME TypeOK, QuitInv, SumInv, NEW n \in 0 .. SWAP_BUF_SIZE, RoundInv(n), EnvSender, EnvTake
  PROVE  TypeOK' /\ IInv'
  <1>1. /\ peer_pc = "wait" /\ peer_pc' = "own" /\ urg /\ urg' = FALSE
        /\ UNCHANGED <<peer_left, peer_n, peer_sent, reader_urg>>
    BY DEF EnvTake, EnvMaster
  <1>2. TypeOK' /\ QuitInv' /\ SumInv'
    BY <1>1, SenderLeaves DEF TypeOK, QuitInv, SumInv
  <1>3. Turn(n) /\ Output(n)
    BY <1>1 DEF RoundInv, Round, Gather, Over
  <1>4. Turn(n)' /\ Output(n)'
    BY <1>1, <1>3, SenderLeaves, OutputKept DEF Turn, AtRest
  <1> QED BY <1>2, <1>4, Witness DEF RoundInv

\* A round begins where the last one has ended, with every child at rest.
LEMMA EnvRoundInv ==
  ASSUME TypeOK, QuitInv, SumInv, NEW n \in 0 .. SWAP_BUF_SIZE, RoundInv(n), EnvSender, EnvRound
  PROVE  TypeOK' /\ IInv'
  <1>1. PICK k \in 1 .. SWAP_BUF_SIZE : peer_n' = k
    BY DEF EnvRound, SWAP_BUF_SIZE
  <1>2. /\ peer_pc = "own" /\ peer_pc' = "told" /\ peer_left' = Child
        /\ UNCHANGED <<peer_sent, urg, reader_urg>>
    BY DEF EnvRound, EnvMaster, chainVars
  <1>3. k \in 0 .. SWAP_BUF_SIZE /\ k > 0 /\ k <= SWAP_BUF_SIZE
    BY <1>1, RoundBytes
  <1>4. TypeOK' /\ QuitInv' /\ SumInv'
    BY <1>1, <1>2, <1>3, SenderLeaves DEF TypeOK, QuitInv, SumInv
  <1>5. Turn(n) /\ Output(n)
    BY <1>2 DEF RoundInv, Round, Gather, Over
  <1>6. Output(k)'
    <2>1. Base(k)' = Base(n)
      BY <1>1, <1>2, <1>3, <1>5 DEF Base, Turn, TypeOK
    <2> QED BY <1>5, <2>1, SenderLeaves DEF Output
  <1>7. Posted' = {}
    BY <1>2 DEF Posted
  <1>8. \A i \in Child : Working(i, k)'
    BY <1>2, <1>5, SenderLeaves DEF Turn, AtRest, Working, Fresh, Quiet, NoData
  <1>9. Round(k)'
    BY <1>1, <1>2, <1>3, <1>5, <1>7, <1>8, SenderLeaves, FS_EmptySet DEF Round, Turn
  <1>10. RoundInv(k)'
    BY <1>3, <1>6, <1>9 DEF RoundInv, SWAP_BUF_SIZE
  <1> QED BY <1>3, <1>4, <1>10, Witness

LEMMA EnvRoundOverInv ==
  ASSUME TypeOK, QuitInv, SumInv, NEW n \in 0 .. SWAP_BUF_SIZE, RoundInv(n),
         EnvSender, EnvRoundOver
  PROVE  TypeOK' /\ IInv'
  <1>1. /\ peer_pc = "told" /\ peer_pc' = "tell" /\ peer_left = {} /\ peer_left' = peer_left
        /\ \A i \in Child : link[i] = Quiet
        /\ peer_sent' = peer_sent + peer_n /\ peer_n' = 0 /\ UNCHANGED <<urg, reader_urg>>
    BY DEF EnvRoundOver, EnvMaster, chainVars
  <1>2. TypeOK' /\ QuitInv' /\ SumInv'
    <2>1. peer_sent' \in Nat /\ peer_n' \in 0 .. SWAP_BUF_SIZE
      BY <1>1, RoundBytes DEF TypeOK
    <2> QED BY <1>1, <2>1, SenderLeaves DEF TypeOK, QuitInv, SumInv
  <1>3. Round(n) /\ Output(n) /\ \A i \in Child : Working(i, n)
    BY <1>1 DEF RoundInv, Turn, Round, Gather, Over
  <1>4. Base(n)' = Base(n)
    BY <1>1 DEF Base, TypeOK
  <1>5. \A i \in Child : /\ link'[i] = Quiet /\ Has(i, n)'
                         /\ r_child_pc'[i] \in {"store", "post", "idle"}
    BY <1>1, <1>3, <1>4, SenderLeaves, QuietIs DEF Working, Fresh, Has
  <1>6. Posted' = Posted
    BY <1>1, SenderLeaves DEF Posted
  <1>7. Round(n)'
    BY <1>1, <1>3, <1>5, <1>6, SenderLeaves DEF Round
  <1>8. Output(n)'
    BY <1>3, <1>4, SenderLeaves DEF Output
  <1> QED BY <1>2, <1>7, <1>8, Witness DEF RoundInv

LEMMA EnvSayInv ==
  ASSUME TypeOK, QuitInv, SumInv, NEW n \in 0 .. SWAP_BUF_SIZE, RoundInv(n), EnvSender, EnvSay
  PROVE  TypeOK' /\ IInv'
  <1>1. /\ reader_urg' = TRUE /\ UNCHANGED <<peer_n, peer_sent, urg>>
        /\ \/ peer_pc = "tell" /\ peer_pc' = "wait" /\ peer_left' = peer_left
           \/ peer_pc = "own" /\ peer_pc' = "over" /\ peer_left' = Child
    BY DEF EnvSay, EnvMaster
  <1>2. TypeOK' /\ QuitInv' /\ SumInv'
    BY <1>1, SenderLeaves DEF TypeOK, QuitInv, SumInv
  <1>3. Output(n)'
    BY <1>1, SenderLeaves, OutputKept DEF RoundInv
  <1>4. CASE peer_pc = "tell"
    <2>1. Round(n)
      BY <1>4 DEF RoundInv, Turn, Gather, Over
    <2>2. Posted' = Posted
      BY <1>1, <1>4, SenderLeaves DEF Posted
    <2>3. Round(n)'
      BY <1>1, <1>4, <2>1, <2>2, SenderLeaves DEF Round, Has, Base
    <2> QED BY <1>2, <1>3, <2>3, Witness DEF RoundInv
  <1>5. CASE peer_pc = "own"
    <2>1. Turn(n)
      BY <1>5 DEF RoundInv, Round, Gather, Over
    <2>2. Posted' = {} /\ \A i \in Child : Leaving(i)'
      BY <1>1, <1>5, <2>1, SenderLeaves DEF Posted, Turn, AtRest, Leaving, Fresh, Quiet, NoData
    <2>3. Over(n)'
      BY <1>1, <1>5, <2>1, <2>2, SenderLeaves, FS_EmptySet DEF Turn, Over
    <2> QED BY <1>2, <1>3, <2>3, Witness DEF RoundInv
  <1> QED BY <1>1, <1>4, <1>5

LEMMA EnvChildMoves ==
  ASSUME TypeOK, NEW i \in Child, EnvChild(i)
  PROVE  /\ SameRound /\ \A j \in Child \ {i} : Untouched(j)
         /\ \A j \in Child : r_quit'[j] => r_quit[j]
         /\ UNCHANGED <<r_child_pc, fdsi_n, slice_at, n_bytes_to_send, r_master>>
  <1>1. /\ UNCHANGED <<r_mainVars, r_childVars, r_master, r_quit, chainVars, peer_pc, peer_n, peer_sent>>
        /\ \A j \in Child \ {i} : link'[j] = link[j] /\ (j \in peer_left' <=> j \in peer_left)
    BY DEF EnvChild, TypeOK
  <1> QED BY <1>1 DEF SameRound, Untouched, r_childVars

LEMMA EnvChildType == ASSUME TypeOK, NEW i \in Child, EnvChild(i) PROVE TypeOK'
  <1>1. UNCHANGED <<r_mainVars, r_childVars, r_master, r_quit, chainVars, peer_pc, peer_n, peer_sent>>
    BY DEF EnvChild
  <1>2. peer_left' \subseteq Child
    BY DEF EnvChild, TypeOK
  <1>3. link' \in [Child -> [st : {"idle", "req", "go", "data", "ack", "stop"}, n : Nat, at : Int]]
    <2>1. peer_sent + BUFFER_SIZE * i \in Int
      BY PlaceType DEF TypeOK, Child
    <2>2. peer_n \in Nat
      BY RoundBytes DEF TypeOK
    <2>3. Share(peer_n, i) \in Nat
      BY <2>2, ShareType
    <2>4. NoData \in Int
      BY DEF NoData
    <2>5. CASE \E st \in {"req", "stop"}, m \in Nat :
                 link' = [link EXCEPT ![i] = [st |-> st, n |-> m, at |-> NoData]]
      BY <2>4, <2>5 DEF TypeOK
    <2>6. CASE link' = [link EXCEPT ![i].st = "data", ![i].at = peer_sent + BUFFER_SIZE * i]
      BY <2>1, <2>6 DEF TypeOK
    <2>7. CASE link' = [link EXCEPT ![i] = Quiet]
      BY <2>7, QuietIs DEF TypeOK
    <2> QED BY <2>3, <2>5, <2>6, <2>7 DEF EnvChild
  <1> QED BY <1>1, <1>2, <1>3 DEF TypeOK, r_mainVars, r_childVars, chainVars

LEMMA EnvChildInv == ASSUME TypeOK, IInv, NEW i \in Child, EnvChild(i) PROVE TypeOK' /\ IInv'
  <1>1. PICK n \in 0 .. SWAP_BUF_SIZE : RoundInv(n)
    BY DEF IInv
  <1>2. QuitInv /\ SumInv /\ TypeOK'
    BY EnvChildType DEF IInv
  <1>3. /\ SameRound /\ \A j \in Child \ {i} : Untouched(j)
        /\ \A j \in Child : r_quit'[j] => r_quit[j]
        /\ UNCHANGED <<r_child_pc, fdsi_n, slice_at, n_bytes_to_send, r_master>>
    BY EnvChildMoves
  <1>4. Base(n)' = Base(n) /\ peer_pc' = peer_pc
    BY <1>3 DEF SameRound, Base
  \* The child of the sender announces its share.
  <1>5. CASE /\ i \in peer_left /\ peer_left' = peer_left \ {i} /\ peer_pc = "told"
             /\ link' = [link EXCEPT ![i] = [st |-> "req", n |-> Share(peer_n, i), at |-> NoData]]
    <2>1. Round(n) /\ n = peer_n /\ Fresh(i) /\ r_master = Cardinality(Posted)
      BY <1>1, <1>5 DEF RoundInv, Turn, Round, Gather, Over, Working
    <2>2. link'[i].st = "req" /\ link'[i].n = Share(n, i) /\ i \notin peer_left'
      BY <1>5, <2>1 DEF TypeOK
    <2>3. Working(i, n)'
      BY <1>3, <2>1, <2>2 DEF Working, Fresh
    <2>4. Posted' = Posted
      BY <1>3, <1>5, <2>2, OneMoves DEF Posted
    <2> QED BY <1>1, <1>2, <1>3, <1>5, <2>1, <2>3, <2>4, ToldKept
  \* It says that it leaves.
  <1>6. CASE /\ i \in peer_left /\ peer_left' = peer_left \ {i} /\ peer_pc = "over"
             /\ link' = [link EXCEPT ![i] = [st |-> "stop", n |-> 0, at |-> NoData]]
    <2>1. /\ Over(n) /\ Fresh(i) /\ r_master = Cardinality(Posted)
          /\ r_main_pc \in {"chain", "gather"}
      BY <1>1, <1>6 DEF RoundInv, Turn, Round, Gather, Over, Leaving, AtRest
    <2>2. link'[i].st = "stop" /\ i \notin peer_left'
      BY <1>6 DEF TypeOK
    <2>3. Leaving(i)'
      BY <1>3, <2>1, <2>2 DEF Leaving, Fresh
    <2>4. Posted' = Posted
      BY <1>3, <1>6, <2>2, OneMoves DEF Posted
    <2> QED BY <1>1, <1>2, <1>3, <1>6, <2>1, <2>3, <2>4, LeavingKept
  \* It sends its words, or sees that they have arrived.
  <1>7. CASE /\ link[i].st \in {"go", "ack"} /\ peer_left' = peer_left
             /\ \/ link[i].st = "go" /\ link' = [link EXCEPT ![i].st = "data",
                                                   ![i].at = peer_sent + BUFFER_SIZE * i]
                \/ link[i].st = "ack" /\ link' = [link EXCEPT ![i] = Quiet]
    <2>1. /\ Round(n) /\ n = peer_n /\ peer_pc = "told" /\ Working(i, n)
          /\ r_master = Cardinality(Posted)
      BY <1>1, <1>7, QuietIs DEF RoundInv, Turn, Round, Gather, Over, Leaving, Fresh, AtRest
    <2>2. /\ i \notin peer_left
          /\ link[i].st = "go" => r_child_pc[i] = "words" /\ fdsi_n[i] = Share(n, i)
          /\ link[i].st = "ack" => r_child_pc[i] \in {"store", "post", "idle"} /\ Has(i, n)
      BY <1>7, <2>1, QuietIs DEF Working, Fresh
    <2>3. Base(n) = peer_sent
      BY <2>1 DEF Base, TypeOK
    <2>4. Working(i, n)' /\ Posted' = Posted
      <3>1. CASE link[i].st = "go"
        <4>1. link'[i].st = "data" /\ link'[i].at = Base(n)' + BUFFER_SIZE * i
          BY <1>4, <1>7, <2>3, <3>1 DEF TypeOK
        <4>2. Working(i, n)'
          BY <1>3, <1>7, <2>2, <3>1, <4>1 DEF Working
        <4> QED BY <1>3, <2>2, <3>1, <4>1, <4>2, OneMoves DEF Posted
      <3>2. CASE link[i].st = "ack"
        <4>1. link'[i] = Quiet
          BY <1>7, <3>2 DEF TypeOK
        <4>2. Has(i, n)'
          BY <1>3, <1>4, <2>2, <3>2 DEF Has
        <4>3. Working(i, n)'
          BY <1>3, <1>7, <2>2, <3>2, <4>1, <4>2 DEF Working, Quiet, NoData
        <4>4. Posted' = Posted
          BY <1>3, <1>7, <2>2, <3>2, <4>1, QuietIs, OneMoves DEF Posted
        <4> QED BY <4>3, <4>4
      <3> QED BY <1>7, <3>1, <3>2
    <2> QED BY <1>1, <1>2, <1>3, <2>1, <2>4, ToldKept
  <1> QED BY <1>2, <1>5, <1>6, <1>7 DEF EnvChild

LEMMA NextInv == ASSUME TypeOK, IInv, [Next]_vars, ~r_cut' PROVE TypeOK' /\ IInv'
  <1>1. CASE UNCHANGED vars
    <2>1. TypeOK'
      BY <1>1 DEF vars, r_mainVars, r_childVars, chainVars, peerVars, TypeOK
    <2>2. PICK n \in 0 .. SWAP_BUF_SIZE : RoundInv(n)
      BY DEF IInv
    <2>3. RoundInv(n)'
      BY <1>1, <2>2 DEF vars, r_mainVars, r_childVars, chainVars, peerVars, RoundInv,
           Turn, Round, Gather, Over, AtRest, Working, Leaving, Fresh, Has, Posted,
           Output, Base, Quiet, NoData
    <2>4. QuitInv' /\ SumInv'
      BY <1>1 DEF vars, r_mainVars, IInv, QuitInv, SumInv
    <2> QED BY <2>1, <2>3, <2>4, Witness
  <1>2. CASE EnvSender
    <2>1. PICK n \in 0 .. SWAP_BUF_SIZE : RoundInv(n)
      BY DEF IInv
    <2>2. EnvTake \/ EnvRound \/ EnvRoundOver \/ EnvSay
      BY <1>2 DEF EnvSender
    <2> QED BY <1>2, <2>1, <2>2, EnvTakeInv, EnvRoundInv, EnvRoundOverInv, EnvSayInv DEF IInv
  <1> QED BY <1>1, <1>2, MainInv, ChildInv, EnvChildInv DEF Next, R_Ended, R_NoWaitSemop

\* A D that did not wait is not forgotten.
LEMMA CutStays == ASSUME r_cut, [Next]_vars PROVE r_cut'
  BY DEF Next, vars, r_mainVars, R_Main, R_NoWaitSemop, EnvSender, R_ChildStep, EnvChild, R_Ended

\* As long as every D of the reader's master waits (sem.h:131), every variable keeps its
\* type, and the masters, the children and the output file are in step: master_chid_sem
\* counts the children that have posted their piece.
THEOREM InvCorrect == SafeSpec => [](~r_cut => TypeOK /\ IInv)
  <1>1. (~r_cut => TypeOK /\ IInv) /\ [Next]_vars => (~r_cut => TypeOK /\ IInv)'
    BY NextInv, CutStays
  <1> QED BY InitInv, <1>1, PTL DEF SafeSpec

\* The output file never holds a byte out of order, twice, or that was not sent, and is a
\* prefix of the input file as long as no write() left anything out; all of it as long as
\* every D of the reader's master waits.
THEOREM InOrder == SafeSpec => []OutputInOrder
  <1>1. (~r_cut => TypeOK /\ IInv) => OutputInOrder
    <2> SUFFICES ASSUME TypeOK, IInv PROVE OutputInOrder
      BY DEF OutputInOrder
    <2>1. PICK n \in 0 .. SWAP_BUF_SIZE : RoundInv(n)
      BY DEF IInv
    <2>2. Output(n) /\ n \in Nat
      BY <2>1 DEF RoundInv
    <2>3. ASSUME NEW p \in 1 .. Len(out) PROVE out[p] \in 0 .. peer_sent + peer_n - 1
      <3>1. out[p] \in Nat /\ out[p] < Base(n)
        BY <2>2, <2>3, ElementOfSeq DEF Output, TypeOK
      <3> QED BY <2>2, <3>1 DEF Base, TypeOK
    <2>4. ASSUME NEW p \in 1 .. Len(out) - 1 PROVE out[p] < out[p + 1]
      <3>1. Len(out) \in Nat
        BY LenProperties DEF TypeOK
      <3>2. p \in 1 .. Len(out) /\ p + 1 \in 1 .. Len(out) /\ p < p + 1
        BY <2>4, <3>1
      <3> QED BY <2>2, <3>2 DEF Output
    <2> QED BY <2>2, <2>3, <2>4 DEF Output, OutputInOrder
  <1> QED BY InvCorrect, <1>1, PTL

\* When the sender is told to go on, every byte of its rounds is in the file, unless a
\* write() left something out, or a D of the reader's master did not wait.
THEOREM Written == SafeSpec => []RoundWritten
  <1>1. (~r_cut => TypeOK /\ IInv) => RoundWritten
    <2> SUFFICES ASSUME TypeOK, IInv, r_main_pc = "say", ~short PROVE Len(out) = peer_sent
      BY DEF RoundWritten
    <2>1. PICK n \in 0 .. SWAP_BUF_SIZE : RoundInv(n)
      BY DEF IInv
    <2>2. n = 0 /\ peer_n = 0
      BY <2>1 DEF RoundInv, Turn, Round, Gather, Over
    <2> QED BY <2>1, <2>2 DEF RoundInv, Output, Base, TypeOK
  <1> QED BY InvCorrect, <1>1, PTL
=============================================================================
