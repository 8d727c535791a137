-------------------------------- MODULE MyCp ---------------------------------
(***************************************************************************)
(* sem9/my_cp.c: copies a file by mapping one window of BUF_SIZE bytes after *)
(* the other.  Byte p of the input file stands for its content, so the      *)
(* output file `out` is a sequence of offsets.                              *)
(***************************************************************************)
EXTENDS Integers, Sequences

CONSTANTS
  BUF_SIZE,      \* 0x1000
  PageSize,      \* the kernel's: a window starts at a multiple of it
  INT_MAX,       \* of the int that st_size is cut to
  MaxSize,       \* bound: the longest input file
  ShortWrites    \* write() may write less than it is given

ASSUME MyCpAssumption ==
  /\ BUF_SIZE \in Nat \ {0} /\ PageSize \in Nat \ {0} /\ INT_MAX \in Nat \ {0}
  /\ BUF_SIZE <= INT_MAX /\ MaxSize \in Nat /\ ShortWrites \in BOOLEAN

VARIABLES
  size, same,                 \* the input file; it is the output file, too
  pc, n_bytes_remained, off,  \* of main
  out,                        \* the output file
  short                       \* history: a write() wrote less

vars == <<size, same, pc, n_bytes_remained, off, out, short>>

Int_Unsigned(n) == n % (2 * INT_MAX + 2)                \* mutant: an unsigned int

\* What an int holds of an off_t.
ToInt(n) == LET w == n % (2 * INT_MAX + 2) IN IF w > INT_MAX THEN w - 2 * INT_MAX - 2 ELSE w

Init ==
  /\ size \in 0 .. MaxSize /\ same \in BOOLEAN
  /\ pc = "open" /\ n_bytes_remained = 0 /\ off = 0 /\ out = <<>> /\ short = FALSE

\* safe_open of both files; O_TRUNC empties the output file, then get_file_size.
Open ==
  /\ pc = "open" /\ pc' = "loop"
  /\ size' = IF same THEN 0 ELSE size
  /\ n_bytes_remained' = ToInt(size')
  /\ UNCHANGED <<same, off, out, short>>

Actual_WholeOnly == IF n_bytes_remained > BUF_SIZE THEN BUF_SIZE ELSE 0   \* mutant: the rest stays
\* actual_size of the loop; negative when n_bytes_remained is.
Actual == IF n_bytes_remained > BUF_SIZE THEN BUF_SIZE ELSE n_bytes_remained

\* mmap() wants a length above 0 and a page's offset; write() of a failed mapping
\* writes nothing.
Mapped == Actual > 0 /\ off % PageSize = 0

Window_AtZero(k) == [p \in 1 .. k |-> p - 1]            \* mutant: every mmap() at offset 0
\* The bytes of the window that write() takes.
Window(k) == [p \in 1 .. k |-> off + p - 1]

\* One turn of the loop.
Copy ==
  /\ pc = "loop" /\ n_bytes_remained # 0
  /\ \E k \in IF ~Mapped THEN {0} ELSE IF ShortWrites THEN 0 .. Actual ELSE {Actual} :
       /\ out' = out \o Window(k)
       /\ short' = (short \/ (Mapped /\ k < Actual))
  /\ off' = off + Actual
  /\ n_bytes_remained' = n_bytes_remained - Actual
  /\ UNCHANGED <<size, same, pc>>

Close ==
  /\ pc = "loop" /\ n_bytes_remained = 0 /\ pc' = "exit"
  /\ UNCHANGED <<size, same, n_bytes_remained, off, out, short>>

Ended == pc = "exit" /\ UNCHANGED vars

Next == Open \/ Copy \/ Close \/ Ended
Spec == Init /\ [][Next]_vars /\ WF_vars(Next)

-----------------------------------------------------------------------------
\* Every variable keeps its type; no int overflows on the way (main).
TypeOK ==
  /\ size \in 0 .. MaxSize /\ {same, short} \subseteq BOOLEAN
  /\ pc \in {"open", "loop", "exit"}
  /\ n_bytes_remained \in -INT_MAX - 1 .. INT_MAX /\ off \in -INT_MAX - 1 .. INT_MAX
  /\ out \in Seq(Nat)

\* What main has copied when it returns 0: the whole file in order if its size fits an
\* int; of a longer one as many bytes as the int got says, none if that is negative.
\* The precondition: the windows lie on pages, no write() was short.
Result ==
  pc = "exit" /\ ~short /\ BUF_SIZE % PageSize = 0 =>
    /\ size <= INT_MAX => Len(out) = size
    /\ Len(out) = (IF ToInt(size) > 0 THEN ToInt(size) ELSE 0)
    /\ \A p \in 1 .. Len(out) : out[p] = p - 1

\* A short write() leaves a hole, never a wrong byte: what comes later stays in order
\* (the result of write() is ignored).
InOrder == \A p, q \in 1 .. Len(out) : p < q => out[p] < out[q]

\* main returns for every size, also when the int is negative: one turn makes it 0.
Returns == <>(pc = "exit")
=============================================================================
