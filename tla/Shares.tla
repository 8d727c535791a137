------------------------------- MODULE Shares -------------------------------
(***************************************************************************)
(* How the bytes of a round are shared out among the children, as the loop  *)
(* of send_swap_buffer leaves it (ShareLoop has the loop itself).           *)
(***************************************************************************)
EXTENDS Integers

CONSTANTS
  N_CHILDS,        \* children of the sender, and of the reader
  BUFFER_SIZE      \* bytes one child sends per round

Child == 0 .. N_CHILDS - 1

\* n bytes of a round: full slices, a partial one, empty ones.  A negative n exceeds
\* every size in the size_t comparison of the loop.
Share(n, i) ==
  IF n < 0 \/ n >= BUFFER_SIZE * (i + 1) THEN BUFFER_SIZE
  ELSE IF n > BUFFER_SIZE * i THEN n - BUFFER_SIZE * i
  ELSE 0
=============================================================================
