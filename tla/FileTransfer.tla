---------------------------- MODULE FileTransfer ----------------------------
(***************************************************************************)
(* What the two programs of hw_signals promise together: the output file    *)
(* grows by chunks of the input file, in order, and both programs stop when *)
(* it is a copy.  A byte is its offset in the input file.                  *)
(***************************************************************************)
EXTENDS Integers, Sequences

CONSTANTS MaxFileLen,  \* bound: bytes of the longest input file, a natural number
          MaxChunk     \* bytes of the longest chunk (a swap buffer), positive

VARIABLES file_len, copy, over
vars == <<file_len, copy, over>>

Init == file_len \in 0 .. MaxFileLen /\ copy = <<>> /\ over = FALSE

NextBytes(n) == [k \in 1 .. n |-> Len(copy) + k - 1]

Write ==
  /\ ~over
  /\ \E n \in 1 .. MaxChunk : Len(copy) + n <= file_len /\ copy' = copy \o NextBytes(n)
  /\ UNCHANGED <<file_len, over>>

Stop ==
  /\ ~over /\ Len(copy) = file_len /\ over' = TRUE
  /\ UNCHANGED <<file_len, copy>>

Next == Write \/ Stop
Fairness == WF_vars(Next)
Spec == Init /\ [][Next]_vars /\ Fairness
=============================================================================
