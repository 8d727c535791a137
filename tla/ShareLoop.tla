------------------------------ MODULE ShareLoop ------------------------------
(***************************************************************************)
(* The loop of send_swap_buffer, turn by turn, and the swap buffer whose    *)
(* slices it shares out: an int in front, rounded up to pages by            *)
(* get_swap_buff and once more by shared_calloc_local.                      *)
(***************************************************************************)
EXTENDS Shares

CONSTANTS PAGE_SIZE, SizeofInt

ASSUME ShareLoopAssumption ==
  /\ N_CHILDS \in Nat \ {0} /\ BUFFER_SIZE \in Nat \ {0}
  /\ PAGE_SIZE \in Nat \ {0} /\ SizeofInt \in Nat \ {0}

VARIABLES
  segment,           \* bytes of the swap buffer's shared memory
  readed_bytes,      \* what read() returned, stored before the buffer
  i, n_bytes,        \* of the loop
  n_bytes_to_send    \* of the cfgs

loopVars == <<segment, readed_bytes, i, n_bytes, n_bytes_to_send>>

SWAP_BUF_SIZE == BUFFER_SIZE * N_CHILDS

Pages_Down(size) == (size \div PAGE_SIZE) * PAGE_SIZE   \* mutant: !!(MASK & size) is forgotten
\* size / PAGE_SIZE + !!(MASK & size) pages.
Pages(size) == (size \div PAGE_SIZE + (IF size % PAGE_SIZE # 0 THEN 1 ELSE 0)) * PAGE_SIZE

\* get_swap_buff and shared_calloc_local: either adds an int and rounds up.
Allocated == Pages(Pages(SWAP_BUF_SIZE + SizeofInt) + SizeofInt)

Begin ==
  /\ segment = Allocated
  /\ readed_bytes \in -1 .. SWAP_BUF_SIZE
  /\ i = 0 /\ n_bytes = readed_bytes
  /\ n_bytes_to_send = [c \in Child |-> 0]

Full_Signed == n_bytes >= BUFFER_SIZE                   \* mutant: an int comparison
\* n_bytes >= BUFFER_SIZE, in size_t.
Full == n_bytes < 0 \/ n_bytes >= BUFFER_SIZE

Turn ==
  /\ i < N_CHILDS /\ i' = i + 1
  /\ n_bytes_to_send' = [n_bytes_to_send EXCEPT ![i] = IF Full THEN BUFFER_SIZE ELSE n_bytes]
  /\ n_bytes' = IF Full THEN n_bytes - BUFFER_SIZE ELSE 0
  /\ UNCHANGED <<segment, readed_bytes>>

Done == i = N_CHILDS /\ UNCHANGED loopVars

LoopNext == Turn \/ Done
LoopSpec == Begin /\ [][LoopNext]_loopVars

-----------------------------------------------------------------------------
\* The loop computes the closed form that Sender and Reader use, for a read() that
\* failed, too (sender.c:275-282).
LoopIsShare == \A c \in Child : c < i => n_bytes_to_send[c] = Share(readed_bytes, c)

\* What child c is told to send, and the whole slice its arrays take (transfer.c:71),
\* lies behind the count and inside the segment (swp.h:22-35, sender.c:233), whatever
\* the size of a page.
SlicesInside ==
  \A c \in Child : /\ n_bytes_to_send[c] <= BUFFER_SIZE
                   /\ SizeofInt + c * BUFFER_SIZE + BUFFER_SIZE <= segment
=============================================================================
