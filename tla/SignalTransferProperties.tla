---------------------- MODULE SignalTransferProperties ----------------------
(***************************************************************************)
(* What the signal protocol between two children promises.                 *)
(***************************************************************************)
EXTENDS SignalTransfer

\* When the reader's child posts, the count it stores and all the words of its slice
\* are those of one slice, the last it acknowledged, each word in its place: none lost,
\* swapped or left from an earlier slice, and no SIGQUIT, SIGUSR1 or SIGUSR2 taken for
\* a word (read_arr_via_signal looks at no signal number).  A sigqueue() that failed
\* does not break it: then nobody posts.
SliceComplete ==
  r.pc = "post" =>
    /\ r.fdsi.value = <<acked>>
    /\ \A p \in Slot : buffer[p] = Word(acked, p)

\* Never two words pending on one real-time signal: an array is read before the next
\* is sent (transfer.c:71-75), so the order of the numbers is the order of the words.
OneArrayInFlight == \A n \in Mask : Len(to_r.q[n]) <= 1

\* transfer.c:72-78, "sync via signals": a SIGURG is never merged with one that is
\* still pending, so every wait_until_ready is matched by one say_we_ready; nor when a
\* sigqueue() fails, which only makes both wait.
NoReadyMerged == ~merged

\* Both children leave, unless a sigqueue() failed: neither waits for a SIGURG or a
\* word that does not come.
Termination == <>((s.pc = "exit" /\ r.pc = "exit") \/ failed)

-----------------------------------------------------------------------------
\* The phase of link[i].st in Sender and Reader.
Phase ==
  IF s.pc = "exit" THEN IF to_r.q[SIGUSR2] # <<>> THEN "stop" ELSE "idle"
  ELSE IF s.pc \in {"idle", "post"} THEN "idle"
  ELSE IF helloed < begun THEN "req"
  ELSE IF s.i < Arrays /\ ~(s.i = Arrays - 1 /\ s.pc = "say") THEN "go"
  ELSE IF acked < begun THEN "data" ELSE "ack"

Link == INSTANCE SliceLink WITH st <- Phase, no <- begun, arrived <- acked

\* The protocol implements the phases Sender and Reader are built on: a slice is
\* announced, asked for, sent, acknowledged, in that order, and to the end unless a
\* sigqueue() fails (send_buffer_via_signal, read_buff_via_signal).
ImplementsLink ==
  Link!Init /\ [][Link!Next]_(Link!vars) /\ (Link!Fairness \/ <>failed)
-----------------------------------------------------------------------------
(* The inductive invariant: the two children are always in one of a few    *)
(* joint states, which say where the one SIGURG and the words of the one   *)
(* array are.                                                              *)

Infos == [pid : {"child", "group", "master", "nobody"}, value : Seq(Nat)]

\* Every variable keeps its type.
TypeOK ==
  /\ s \in [pc : {"idle", "ready", "word", "say", "post", "exit"}, i : Nat, k : Nat]
  /\ r \in [pc : {"idle", "hello", "ready", "word", "say", "post", "exit"},
            i : Nat, k : Nat, fdsi : Infos]
  /\ to_s \in [quit : BOOLEAN, usr2 : BOOLEAN, urg : BOOLEAN]
  /\ to_r \in [urg : BOOLEAN, q : [Mask -> Seq(Infos)]]
  /\ buffer \in [Slot -> Seq(Nat)]
  /\ begun \in Nat /\ helloed \in Nat /\ acked \in Nat
  /\ merged \in BOOLEAN /\ failed \in BOOLEAN

Array == 0 .. SIGNAL_RANGE - 1

\* Word n of an array is pending.
Queued(n) == to_r.q[START_SIGNAL + n] # <<>>
NoWords   == \A n \in Array : ~Queued(n)

\* The words pending are those of numbers lo .. hi - 1 of the array the reader's child
\* is at, all of them unless a sigqueue() failed.
Holds(lo, hi) == \A n \in Array :
  /\ Queued(n) => /\ n \in lo .. hi - 1
                  /\ to_r.q[START_SIGNAL + n] =
                       <<Info("child", Word(begun, r.i * SIGNAL_RANGE + n))>>
  /\ ~failed /\ n \in lo .. hi - 1 => Queued(n)

\* After a sigqueue() that failed some word m is missing, so the words pending will not
\* do: those behind m are one place further than the reader's child counts.
Missing(lo, hi) ==
  failed => \E m \in Array : /\ m < hi /\ ~Queued(m)
                             /\ \A n \in Array : Queued(n) /\ n > m => n > lo

NoUrg     == ~to_s.urg /\ ~to_r.urg
Unasked   == to_r.q[SIGUSR1] = <<>>
Fdsi      == Info("child", <<begun>>)

\* Between two slices.
Rest ==
  /\ s.pc \in {"idle", "post", "exit"} /\ r.pc \in {"idle", "post", "exit"}
  /\ r.pc = "exit" => s.pc = "exit"
  /\ Unasked /\ NoUrg /\ NoWords /\ ~failed /\ helloed = begun /\ acked = begun

\* SIGUSR1 is under way, or read.
Announced ==
  /\ s.pc = "ready" /\ s.i = 0 /\ NoUrg /\ NoWords /\ ~failed
  /\ helloed + 1 = begun /\ acked + 1 = begun
  /\ \/ r.pc \in {"idle", "post"} /\ to_r.q[SIGUSR1] = <<Fdsi>>
     \/ r.pc = "hello" /\ r.i = 0 /\ r.k = 0 /\ r.fdsi = Fdsi /\ Unasked

\* An array is asked for, being sent, being read, or read.
InArray ==
  /\ r.i < Arrays /\ r.fdsi = Fdsi /\ Unasked /\ helloed = begun /\ acked + 1 = begun
  /\ \/ /\ r.pc = "ready" /\ s.pc = "ready" /\ s.i = r.i
        /\ to_s.urg /\ ~to_r.urg /\ NoWords /\ ~failed
     \/ /\ r.pc = "ready" /\ s.pc = "word" /\ s.i = r.i /\ s.k < SIGNAL_RANGE
        /\ NoUrg /\ Holds(0, s.k) /\ Missing(0, s.k)
     \/ /\ r.pc = "ready" /\ s.pc = "say" /\ s.i = r.i
        /\ NoUrg /\ Holds(0, SIGNAL_RANGE) /\ Missing(0, SIGNAL_RANGE)
     \/ /\ r.pc = "ready" /\ s.pc = "ready" /\ s.i = r.i + 1
        /\ to_r.urg /\ ~to_s.urg /\ Holds(0, SIGNAL_RANGE) /\ Missing(0, SIGNAL_RANGE)
     \/ /\ r.pc = "word" /\ s.pc = "ready" /\ s.i = r.i + 1 /\ r.k < SIGNAL_RANGE
        /\ NoUrg /\ Holds(r.k, SIGNAL_RANGE) /\ Missing(r.k, SIGNAL_RANGE)
     \/ /\ r.pc = "say" /\ s.pc = "ready" /\ s.i = r.i + 1 /\ r.k = SIGNAL_RANGE
        /\ NoUrg /\ NoWords /\ ~failed

\* The last array is read.
AllRead ==
  /\ s.pc = "ready" /\ s.i = Arrays /\ r.pc \in {"idle", "post"}
  /\ Unasked /\ to_s.urg /\ ~to_r.urg /\ NoWords /\ ~failed
  /\ helloed = begun /\ acked = begun

\* The SIGUSR1 came without the pid of the sender's child: both wait for ever.
Stranded ==
  /\ failed /\ s.pc = "ready" /\ s.i = 0 /\ ~to_s.urg /\ NoWords /\ acked + 1 = begun
  /\ \/ r.pc \in {"idle", "post"} /\ ~to_r.urg /\ helloed + 1 = begun
        /\ to_r.q[SIGUSR1] = <<Info("group", NoValue)>>
     \/ /\ Unasked /\ r.fdsi = Info("group", NoValue) /\ r.k = 0
        /\ \/ r.pc = "hello" /\ ~to_r.urg /\ helloed + 1 = begun
           \/ r.pc = "ready" /\ to_r.urg /\ helloed = begun
           \/ r.pc = "word" /\ ~to_r.urg /\ helloed = begun

\* A slice too short for one array: the reader's child waits for ever.
NoArray ==
  /\ Arrays = 0 /\ r.pc = "ready" /\ r.i = 0 /\ s.pc \in {"idle", "ready", "post", "exit"}
  /\ ~to_r.urg /\ NoWords

JointInv == Rest \/ Announced \/ InArray \/ AllRead \/ Stranded \/ NoArray

SignalInv ==
  /\ ~merged
  /\ s.pc = "ready" => s.k = 0
  /\ r.pc = "ready" => r.k = 0
  /\ \A n \in 0 .. START_SIGNAL - 1 : Len(to_r.q[n]) <= 1
  /\ s.pc # "exit" => to_r.q[SIGQUIT] = <<>> /\ to_r.q[SIGUSR2] = <<>>

\* What the reader's child has of the slice so far.
BufferInv ==
  /\ r.pc = "post" => r.i = Arrays /\ r.k = 0 /\ r.fdsi.value = <<acked>>
  /\ r.pc = "post" \/ (~failed /\ r.pc \in {"ready", "word", "say"}) =>
       \A p \in Slot : p < r.i * SIGNAL_RANGE + r.k =>
         buffer[p] = Word(IF r.pc = "post" THEN acked ELSE begun, p)

IInv == JointInv /\ SignalInv /\ BufferInv
=============================================================================
