# A TLA+ model of `hw_signals`

`hw_signals` copies a file from one program (the *sender*) to another (the
*reader*) through nothing but signals. The two programs start from the command
line, meet through a handshake, and each forks 64 children; child *i* of the
sender sends its slice of every buffer to child *i* of the reader, eight bytes
per real-time signal. Inside a program the processes share System V semaphores
and shared memory. `sem9/my_cp.c` is a small sequential copy program of its own.

This directory holds the TLA+ modules of that protocol, the TLC runs that check
them on small instances, and TLAPS proofs, for every number of children, buffers,
bytes, strangers, interrupts and runs, of every safety property that a passing run checks:
from the single swap buffer and the single word up to the copied file, with the
safety part of each refinement. Liveness is model-checked.

## 1. The system

### Components

| component | state | operations | speaks to |
|---|---|---|---|
| sender: master (`sender.c` main, main_loop, send_swap_buffer) | buffer index, byte count of the round, `is_first` of the chain, wait() counter | take a full swap buffer, rewrite the configuration of every child, command them (SIGUSR2), wait for all, free the buffer; tell them to quit, reap, clean up | reader_thread (semaphores), its children (SIGUSR2, SIGQUIT, `master_chid_sem`, cfgs), the reader's master (SIGURG) |
| sender: reader_thread (a forked process in spite of its name) | buffer index, offset of the file | wait for a free buffer, claim it, read(), store the count, publish it | the master, through the ring |
| ring of swap buffers (`swp.h`) | per buffer: semaphore (0 free, 1 in work, 3 full), byte count, content | get/set_active_bytes, A, D, Z | both of the above |
| sender: children (work_for_child) | control point, `buff__` | serve SIGUSR2: send a slice; serve SIGQUIT: tell the peer, leave | the master, the peer in the reader |
| reader: master (`reader.c` main, reader_chain_action) | sum of the round, output file, wait() counter | wait for all children, add up, write, tell the sender; quit, reap, clean up | its children, the sender's master |
| reader: children (work_for_child) | control point, last SIGUSR1, slice, count | serve SIGUSR1: read a slice; SIGUSR2: store 0; SIGQUIT: leave | the master, the peer in the sender |
| chain (`chain.h`) | `stage`, `is_first` | wait for SIGURG, act, send SIGURG: the two masters take turns | both masters |
| transfer (`transfer.c`) | pending signals, array and word counters | send/read a slice in arrays of SIGNAL_RANGE words, synchronised by SIGURG | the children |
| semaphores (`sem.h`) | the kernel's sets | A adds, D subtracts and waits, Z waits for zero; results ignored | everybody |
| shared memory (`shm.h`) | the kernel's segments | attach by key, round to pages, free | everybody |
| handshake (sender_get_pids_thread, send_pids, wait_until_readyp) | pids of the reader's children | SIGUSR2 as a request, 64 pids as SIGUSR1 values, SIGURG after each | both masters |
| lifecycle (`task.h`, kill_all, SIGINT, SIGALRM) | process table | fork, kill everything, clean up | everybody |
| IPC objects (`sem.h`, `shm.h`, `swp.h`, init, full_cleanup) | the kernel's sets and segments, which outlive the processes | find or make by key, set to 0, remove by id | every run of the same program, `cleanup.py` |
| `cleanup.py` | - | removes every unattached segment and every semaphore set | the kernel |
| `sem9/my_cp.c` | offset, bytes left | mmap a window, write it | - |
| `dbg.h`, `measure.h` | - | logging (returns at once), the clock for a printf | - |

### What is hard about it

* Interleaving: 1 + 1 + 64 processes in the sender, 1 + 64 in the reader, five
  means of synchronisation (counting semaphores used as barrier and as ring
  ownership, SIGURG ping-pong of masters, SIGURG ping-pong of children, ordered
  delivery of real-time signals, shared configuration without a lock).
* Delivery: SIGURG, SIGUSR1, SIGUSR2 and SIGQUIT merge while pending; real-time
  signals queue up to RLIMIT_SIGPENDING; a signalfd returns the lowest number first.
* Interrupted and failing calls: semop(), read(), write(), sigqueue(), fork() results
  are ignored; alarm(3) outlives the handshake it guards; `sem_flg` is stack garbage.
* What outlives a process: keys are the same for every run, so a crash leaves objects
  for the next run, and two runs share theirs.
* Ends: an empty buffer ends the transfer, and the end travels as a count of 0
  through the ring, the children, their peers, and a sum.

`PROJECT.json` lists each hazard at its line, with the properties that cover it.

### What makes each component correct

* Ring: a buffer is never filled while a child may still send it; chunks leave in
  the order they came, each once; an empty one comes last.
* Sender's master: `D(master_chid_sem, N_CHILDS)` is a barrier; the slices of a
  round are the next bytes of the file, each at its offset; cleaning up comes last.
* Reader: a round is gathered completely before it is written; the output is
  a prefix of the input as long as no call fails.
* Chain: the masters take turns; no SIGURG is lost; nobody waits for ever.
* Transfer: a slice that is posted is complete, in order, and of the right round.
* Handshake: every pid lands at its child's place or the sender does not go on; a
  sender never reads for ever; what it leaves is what the transfer starts from.
* Lifecycle: a program that ended leaves no object, and no process but those that a fatal
  signal is about to end; a normal end waits for every child first; a SIGINT ends both.
* IPC objects: a run finds its objects fresh, and nothing of its program is left after it.
* Whole: a file copy that ends.

## 2. Modules

| module | what it is |
|---|---|
| `Shares`, `ShareLoop` | how a round is shared out: the closed form that the others use; the loop itself and the layout of the segment |
| `Sender` | the sender after init(): reader_thread, master, children; the reader is its environment |
| `SenderProperties` | its type invariant, invariants, termination, and the inductive invariant `IInv` of the proofs |
| `ChunkQueue`, `SenderQueue` | abstract bounded FIFO queue; the ring as an implementation of it |
| `SenderProofs` | TLAPS proofs about `Sender` and `SenderQueue` |
| `Reader`, `ReaderProperties`, `ReaderProofs` | the reader after send_pids(); the sender is its environment |
| `Session`, `SessionProperties`, `SessionProofs` | both programs composed from `Sender` and `Reader`, without either environment; their invariants beyond those of the parts |
| `FileTransfer` | what the two promise together: a copy that grows by chunks |
| `SignalTransfer`, `SignalTransferProperties`, `SignalTransferProofs` | one child of the sender and its peer, signal by signal |
| `SliceLink` | the abstract phases of a slice, which `SignalTransfer` implements and `Sender`/`Reader` use |
| `Handshake`, `HandshakeProperties`, `HandshakeProofs` | how the two masters meet, before `Session` starts |
| `Lifecycle`, `LifecycleProperties`, `LifecycleProofs` | the processes of both programs from fork to exit: SIGINT, kill_all, failing forks, dying children |
| `IpcObjects`, `IpcObjectsProperties`, `IpcObjectsProofs` | the kernel's objects across several runs of the two programs |
| `MyCp` | `sem9/my_cp.c`, with its properties |
| `LoopProofs` | TLAPS proofs about the two sequential loops, `ShareLoop` and `MyCp` |

`Handshake` ends where `Session` begins, and `SessionStart` says that it ends in
`Session`'s initial states. `Lifecycle` takes the whole transfer as one step (`Transfer`,
possible when every process is there), which is what `Session`'s `BothReturn` provides.
`IpcObjects` takes a run as the list of objects it makes, uses and removes.

### How state and actions correspond to the code

* One action per call that another process can observe: each semop(), kill(),
  read() of a signalfd, read()/write() of a file, and each access to shared memory
  that somebody else may race with. `main_pc`, `rt_pc`, `child_pc`, `r_main_pc`,
  `r_child_pc` say between which two calls a process is. Local computations belong to
  the call before or after them.
* A byte is its offset in the input file. The content of a swap buffer (`swap_at`) or
  of a slice (`link[i].at`, `slice_at`) is the offset of its first byte; `NoData` is
  memory never filled. So "the right bytes at the right place" is arithmetic, and the
  output file `out` is right when byte *p* of it is offset *p*.
* A semaphore is a natural number. Z and the A after it are two actions, as in
  reader_thread. A pending standard signal is a Boolean (`usr2`, `sigquit`, `urg`,
  `reader_urg`): sent twice, it is there once.
* `link[i]` in `Sender` and `Reader` is what is between child *i* and its peer, reduced
  to phases: `req` (SIGUSR1 queued), `go` (peer said it is ready), `data` (all words
  sent), `ack` (all words read), `stop` (SIGUSR2 queued). `SignalTransfer` has the
  arrays, words and SIGURGs behind these phases and is shown to implement them.
* Two loops without an observable middle are one step: rewriting every cfg and
  signalling the children (a child signalled later is a child scheduled later, and no
  child reads a cfg before its signal), and the set_active_bytes loop of
  reader_thread (nobody reads a count before the buffer's semaphore is raised).
  A child's reads of `cur_buf_idx` and `n_bytes_to_send` are one step; `CfgStable`
  says the master does not write between them. The loop that adds up `need_write` is one
  step per child (`adding`).
* EINTR: `Alarm` is SIGALRM of the uncancelled alarm(3), at any moment. If the master
  sleeps in a semop() it leaves it without having waited, as A, D and Z ignore the result. wait()
  may be restarted or not (`sa_flags` of that handler is never set). `NoWaitSemop` and
  `R_NoWaitSemop` are semop()s whose garbage `sem_flg` holds IPC_NOWAIT, in the sender and in
  the reader. At most one call of each program is cut short in a behaviour; `eintr` names the
  sender's, and `r_cut` remembers the reader's, which may also have been the D of
  sub_process_creation (an alternative of `Init`). After it the reader's master adds up, writes
  and goes on while its children still read: a slice has no known content (`NoData`) while
  words arrive, and a SIGQUIT that comes in between is taken for a word (`RC_Words`).
* `Session` conjoins an action of one program with UNCHANGED of the other's variables.
  What `Sender` and `Reader` assume of their environment (`reader_busy`, `peer_...`) is
  computed from the other program's state, and `ImplementsSender`, `ImplementsReader`
  check that the assumptions hold.
* `lagging` in `Session`: the reader's master may still be in the last
  wait_until_readyp of the handshake when the sender's first SIGURG of the chain comes; the two
  merge, and `lost` records it. Both programs then wait for ever. `short` in `Reader` records
  a write() that wrote less than it was given.
* `SignalTransfer` follows the kernel: `to_r.q[n]` is the queue of signal *n* of the
  mask in the order of the numbers, `Read(n)` takes from the lowest queue that is not
  empty, whatever the caller expects, and read_arr_via_signal uses its value.
  A sigqueue() over the limit loses a word; it loses the value and the pid of SIGUSR1, and say_we_ready(0) then
  signals the process group of the reader (of which the model has this one child).

* `Handshake`: one action per signal sent and per signal read, of either side. Child *i* of
  the reader has the pid *i*. `usr1` and `urg` are the SIGUSR1 pending at the sender and the
  SIGURG pending at the reader, with the siginfo of the first one sent; `SayToReader` is
  kill(reader, SIGURG), which is ignored until init_signals_for_reader has blocked it.
  `R_TakeUrg` is one turn of wait_until_readyp with its `attempts`. A stranger's SIGURG
  (`Stranger`) may come at any time. The timer (`S_Alarm`) may go off at any point of the
  handshake and after it, when ignore_timeout makes it harmless here (what it does to the
  transfer is `Alarm` in `Sender`).
* `Lifecycle`: `m[p]` is where the master of program `p` is, `kid[p][i]` the state of its
  child *i* (0: reader_thread). kill_all is three actions (SIGKILLs, full_cleanup, SIGINT to
  the peer and exit), in which its own SIGINT is blocked; `Hit` is what a SIGINT does to a
  master. Ctrl-C reaches the children, too; `kill -INT` does not. A pid of -1 in
  `child_pids` turns kill_all's and send_swap_buffer's signals into ones for every
  process of the user (`wide`).
  kill() only posts a signal: a child that has its SIGKILL (or an unhandled SIGINT) is
  "dying" and runs on until `KidGone`, while kill_all, which does not wait(), removes the
  objects; only `Reap`, the wait() loop of the normal end, waits for children. A master that is
  sent SIGKILL is in `doomed` until `MasterGone`.
* `IpcObjects`: an object has a key, an id and, for a semaphore, a value cut to 0 or 1. `Made(r)` and
  `Freed(r)` are the calls of init and full_cleanup in their order; one action makes, or
  removes, one object. `Crash` may come between any two. With `Garbage` the unset `sync` in
  shared_free is the id of any set of the system. `alone[r]` is a history variable: run `r` met
  no process of another run of its program, cleanup.py did not run beside it, and nobody's
  shared_free hit a set of it.
* `ShareLoop`: one action per turn of the loop, with the comparison in size_t
  arithmetic (`Full`). Page rounding is done twice, in get_swap_buff and in
  shared_calloc_local; `size & MASK` is `size % PAGE_SIZE`, as PAGE_SIZE is a power of two.
* `MyCp`: an int is what remains modulo 2 * (INT_MAX + 1). A mapping of no bytes, of a
  negative number of them, or at an offset that is not a page's fails, and write() of a failed
  mapping writes nothing.

## 3. Runs

| run | checks | result |
|---|---|---|
| `sender_faults` | TypeOK, NoOverwriteInFlight, BarrierHolds, RoundSendsNextChunk, Termination, ImplementsQueue | hold, with one call cut short (by SIGALRM or IPC_NOWAIT) and failing reads |
| `reader_ok` | OutputInOrder, RoundWritten, Termination | hold, with short writes, and a D of the master that does not wait |
| `session_ok` | OutputIsPrefix, WholeFileCopied, BothReturn, CfgStable, ImplementsTransfer, ImplementsSender, ImplementsReader | hold, with failing reads and a late reader |
| `session_faults` | AllPiecesRead, MastersTakeTurns | hold, with a call of either program cut short besides |
| `signals` | OneArrayInFlight, NoReadyMerged, SliceComplete, Termination, ImplementsLink | hold, with failing sigqueue() |
| `handshake_ok` | CfgsRight, SessionStart, GivesUpForStrangers, SenderNeverHangs, Completes | hold, with strangers and the timer |
| `lifecycle_ok` | NobodyLeft, OnlyDyingOutlive, InterruptEndsBoth, NormalEnd | hold, with two SIGINTs, signals that take effect late, failing forks, dying children and the timer |
| `ipc_ok` | FreshStart, NothingLeft | hold, with crashes everywhere, cleanup.py and the garbage in `sync` |
| `share_loop` | LoopIsShare, SlicesInside | hold for every result of read() |
| `my_cp` | TypeOK, Result, InOrder, Returns | hold, with sizes beyond an int and short writes |
| `sender_alarm` | AllChildsReady (comment `sender.c:290`) | violated: SIGALRM cuts D short |
| `lifecycle_forkfails` | OnlyMinorProcesses (comment `sender.c:324`) | violated: kill(-1, ...) after a failed fork() |

The faults are in the passing runs, and the properties say what they spoil. `Calm` is: no
semop() of the sender was cut short. `Healthy` is: nor did a read() fail, nor did the handshake
swallow a SIGURG. `Intact` is: nor did a write() write less, nor was a D of the reader's master
cut short (`r_cut`). `AllPiecesRead` has `~r_cut` alone: nothing that happens to the sender
breaks it, but a D of the reader that does not wait does. A property
without these holds under every fault of its run (MastersTakeTurns, CfgsRight,
NobodyLeft...). One that has them says what the
code does up to the first fault, e.g. `ImplementsQueue`: every step is one of the queue as long as
nothing has gone wrong, and the due steps are taken unless something does. The cases
behind the hypotheses are what the code does not handle:

* SIGALRM of the uncancelled alarm(3), or IPC_NOWAIT in `sem_flg`, makes D return at once: the
  master goes on while children still send (`sender_alarm`), and frees their buffer.
* IPC_NOWAIT in the D of the reader's master (`reader.c:159`) makes it add up and write what the
  slices and counts happen to hold, and tell the sender to go on: "all pieces are read"
  (`reader.c:164`) is then false. The turns of the masters are still kept.
* kill_all removes the objects right after the SIGKILLs. A child that the kernel has not ended
  by then meets calls that fail, or an id that another process was given since;
  `OnlyDyingOutlive` says that it is no child but such a one, and none on the normal path.
* A failed read() is published like data; the reader gets one round of the old
  content of the buffer, and then both programs wait (`OutputIsPrefix` says that no more is spoilt).
* A short write() is not noticed; the rest of the round is missing from the file (`OutputInOrder`).
* A failed sigqueue() leaves the two children waiting; what they have posted before is complete.
* A sender that asks before the reader has set its SIGUSR2 handler ends the reader (r_pc =
  "dead" in `Completes`), and is then ended by its own timer.
* The hundredth SIGURG the reader looks at ends it even if it is the right one
  (`GivesUpForStrangers`: still, the other ninety-nine were not).
* Two runs of one program at a time share and reset each other's semaphores, and
  shared_free may remove anybody's set: `FreshStart` and `NothingLeft` are about a run that was
  `alone`, and only it.

Every property of a passing run has a mutant in `PROJECT.json`: a plausible bug
(a forgotten Z, a missing modulo, one child too few in D, an early last array...) under
which TLC finds the property violated. The mutants stand beside the definitions they
change, marked `mutant:`.

### Bounds, and why they are enough

* `N_CHILDS` 2 in the transfer: a barrier can be passed by one child too early, and a
  round has two full slices, a full and a partial or an empty one, or a partial and an empty one.
  A full, a partial and an empty slice in one round take more children: `ShareLoop`
  has six, and the proofs have any number.
* `N_SWAP_BUFFERS` 2: the ring wraps around within the longest file, and reader_thread can be
  one whole turn ahead.
* `BUFFER_SIZE` 2: slices may be partial.
* `MaxFileLen` 2, 3, 5 or 7 (a whole round is 4 bytes): rounds of every length
  follow each other, and more of them than there are buffers (short reads are possible at
  every read(), so the number of rounds is up to the number of bytes).
* `SIGNAL_RANGE` 3, `Words` 9: three arrays of three words, first, middle and last of each;
  three slices one after the other. The real numbers are 30 and 240. The array loop rounds
  down: when `SIGNAL_RANGE` does not divide `Words` the last words are never sent; with
  glibc's 30 real-time signals below SIGRTMAX it divides.
* At most one semop() of each program cut short per behaviour: one is enough to break
  what breaks; the properties that hold under faults say which. `session_faults` has both, in
  every combination with failing reads and a late reader, and files of up to 2 bytes
  (up to two rounds and the empty one).

* `Handshake`: three children, so that there is a first, a middle and a last pid; three
  attempts and three strangers' SIGURGs, so that the attempts can run out and the
  last one can be the sender's.
* `Lifecycle`: two children and two SIGINTs: both programs can be interrupted at once, or
  one a second time while it, or its peer, is in kill_all.
* `IpcObjects`: one swap buffer (a set and a segment beside those of the master) and two
  runs, of one program or of both: a crashed run before a good one, or two at
  once. A third run of the same program finds nothing that a second could not.
* `ShareLoop`: six children with slices of 4 bytes, pages of 8: every share is full,
  partial or empty in some behaviour, and the buffer with its ints is no multiple of a page.
* `MyCp`: an int of 4 bits (INT_MAX 7) and sizes up to 22: sizes whose int is negative, zero, shorter or right.

The counters `begun`, `waits`, `sent` need no further bound: the file is finite, and
commands are bounded by `MaxTransfers`.

### Fairness

Weak fairness per process: the kernel schedules every process, semop(), sigwait() and
read(sfd) return once they can. No fairness for SIGALRM, IPC_NOWAIT, failing calls, late
handshakes; in `Sender` (`Reader`) the other program is assumed to answer, which
`ImplementsSender` and `ImplementsReader` (safety) and `BothReturn` (both programs together, no
assumption left) check. Where a liveness property has a hypothesis it is `\/ <>~Healthy` or the like: something went wrong. In
`SignalTransfer` the masters owe the final SIGQUITs only. Strong fairness is nowhere needed:
each semaphore has one waiter, so what a process waits for stays true until it moves.

In `Handshake` both masters and the timer are weakly fair (alarm() goes off), strangers are
not. In `Lifecycle` every master and child is, and so are the user's starting
of both programs, their meeting and the transfer (`SenderNeverHangs` and `BothReturn` stand behind
these two steps), and a fatal signal that was posted takes effect in the end (`KidGone`,
`MasterGone`); SIGINTs, faults and the timer are not. `MyCp` is one process.

## 4. Proofs

Every invariant and every action property of a passing run is a theorem; of the three
refinements that also promise progress the safety part is (`KeepsQueue`, `CopiesByChunks`, and
`Link!Init /\ [][Link!Next]_(Link!vars)`). The theorems hold for all constants
that satisfy the module's assumption (at least one child, one buffer, one byte per slice, and so on),
and for any combination of the faults. Each rests on an inductive invariant, whose parts are
named in the `...Properties` module, or in the module of the proofs if they are few.

### The sender: `SenderProofs`

* `TypeCorrect`, `InvCorrect`: `TypeOK` and `IInv`; from `IInv`, `NoOverwrite`
  (`NoOverwriteInFlight`) and `Barrier` (`BarrierHolds`).
* `ContentCorrect`: `ContentInv`; from it, `NextChunk` (`RoundSendsNextChunk`).
* `BoundaryCorrect`: `BoundaryInv`, what the reader may rely on.
* `QueueSafety`: the ring of swap buffers keeps `ChunkQueue`'s initial state and steps
  (`KeepsQueue`).

`NoOverwriteInFlight` is not inductive: that reader_thread stays away from a buffer
follows from the buffer's semaphore, and that the semaphore is raised while children
send follows from the barrier, which follows from what `master_chid_sem` counts. `IInv`
says these: at the two barriers `master` is the number of children that posted and
wait (`BootInv`, `RoundInv`), elsewhere it is 0 and all children are idle (`RestInv`); no
SIGQUIT is pending before the end (`QuitInv`); a semaphore is 0, 1 or 3 and the two
sides are never inside the same buffer (`SwapInv`). The step from "`master` >= N_CHILDS"
to "every child is idle" is a cardinality argument (a subset of `Child` with as many elements is
`Child`). All of it is
conditional on `Calm` (no semop() cut short), and `CalmBack` shows that `Calm` never comes back.

`RoundSendsNextChunk` is about contents: `ContentInv` says which bytes of the file each full
buffer, the cfgs and each link hold, relative to the bytes already sent, so that
the slices of a round are consecutive. That the slices tile the round exactly is
arithmetic over `Share`. `BoundaryInv` ties each child to the phase of its
link and the count 0 to the end of the file, and bounds what may follow a failed read().

For `KeepsQueue` the refinement mapping reads the queue off the ring: the full buffers, from the
oldest. `QueueShape` says that they follow one another from there without a gap (`Steps`
counts positions modulo the ring) and that one is missing while main_loop holds it. Then publishing
a buffer appends to the mapped sequence (`PublishQueue`), taking one is its tail
(`TakeQueue`), freeing one delivers a chunk (`ReleaseQueue`), and every other action leaves
the mapped variables alone.

### The reader: `ReaderProofs`

`InvCorrect` (`TypeOK` and `IInv`), `InOrder` (`OutputInOrder`), `Written` (`RoundWritten`), each as
long as every D of the master waits (`~r_cut`, which never comes back).
`IInv` says that there is an *n*, the bytes of the round under way, such that `RoundInv(n)`: each
child's slice, count and place follow from `Share(n, i)` (`Working`, `Has`) until the round is
written, `r_master` counts the children that have posted, the sum so far is that of the
children before `adding`, and the output ends where the round begins. Adding up child by
child is what makes the sum provable: the partial sum is `min(n, BUFFER_SIZE * adding)`
(`ShareAdds`), without an induction.

### Both together: `SessionProofs`

A step of `Session` is a step of `Sender` and, while nothing goes wrong, one of `Reader`, each
with the other as its environment. `SP` and `RP` are instances of `SenderProofs` and `ReaderProofs`
in which the environment's variables are expressions over the other program's state; so the
inductive invariants of both come for free once the steps are shown to be theirs.

* `SenderSafety` (`ImplementsSender`): every step is one of the sender's with its
  environment. Hence `SenderInv`, all of the sender's invariants, and `CfgsStable` (`CfgStable`).
* `TurnsTaken` (`MastersTakeTurns`) from `TurnInv`: the turn is with one master, in one of the two
  pending SIGURGs, or lost in the handshake, whatever is cut short or fails in either
  program. `PiecesRead` (`AllPiecesRead`) from `SharedCorrect`:
  `PieceInv` follows the piece of each pair through its stages (told, on the way,
  storing) and says that `r_master` counts the pairs that owe nothing. It holds whatever is cut
  short or fails in the sender, as long as the reader's own D waits, and not beyond
  (`ReaderCut` is the step that ends it).
* `ReaderSafety` (`ImplementsReader`): the sender keeps what `Reader` assumes as long as it is
  `Sane` (`Calm`, no SIGURG lost, no failed read() sent). Hence `ReaderInv`, as long as the
  reader's D waits.
* `PrefixCopied` (`OutputIsPrefix`): up to a failed read() from the invariants of both, after it
  from `FailInv`: the file so far, and then at most the one round.
* `AllCopied` (`WholeFileCopied`), and `TransferSafety`: every step of both programs is a step of the
  copy by chunks (`CopiesByChunks`).

### Signal by signal: `SignalTransferProofs`

`ProtocolInvariant` (`IInv`, with the types by the lemma `TypeCorrect`), `OneWordPerNumber` (`OneArrayInFlight`),
`EveryReadyCounts` (`NoReadyMerged`), `SliceArrives` (`SliceComplete`), `LinkSafety`. `IInv`
gives, for each pair of control points of a child and its peer, exactly what is in the
signal queues: a single standard signal with its sender's pid, or the words of one array
from the one the peer reads next to the one the child sends next. That a signalfd returns the
lowest number first matters only because of that. After a failed sigqueue() a word of the array
is missing, and those behind it are not enough for the peer to reach its end (`Missing`), or
the peer does not know whom to answer (`Stranded`); either way the slice is never posted.

Two theorems have a hypothesis on the constants, where the code needs it:
`SliceArrives` that `SIGNAL_RANGE` divides `Words` (else the last words are never sent), and
`LinkSafety` that a slice has at least one array. Both are true of the real 30 and 240.

### Meeting: `HandshakeProofs`

For any number of children, attempts (at least two) and strangers: `HandshakeInv` (`HInv`),
`PidsRight` (`CfgsRight`), `LoopsInStep` (`InStep`), `HandsOver` (`SessionStart`), `GivesUpRightly`
(`GivesUpForStrangers`).

`CfgsRight` is not inductive: that the next pid is right needs that exactly one message
is under way. `InStep` says so: a pending SIGUSR1 carries the pid the sender waits for, and
while it is pending no SIGURG of the sender is; `HInv` is the two with the types.
`SessionStart` needs one more fact, that no stranger has interfered as long as
`strangers` has its first value, kept in an invariant of its own (`Alone`); so does
`GivesUpForStrangers`, that each attempt that is gone was a stranger's SIGURG (`Counted`).

### Processes and objects: `LifecycleProofs`, `IpcObjectsProofs`

`LifecycleInv` (`LInv`), `NobodyIsLeft` (`NobodyLeft`), `CleanupInOrder` (`OnlyDyingOutlive`), for any
number of children and SIGINTs. `LInv` gives for each control point of a master what is already
over: past the SIGKILLs every child has ended or has a fatal signal on the way, past the
wait()s every child has ended, and the objects are there from init to full_cleanup. A SIGINT moves a master into kill_all only from points where its objects
exist (`HitPcs`).

`ObjectsInv` (`IpcInv`), `FindsFresh` (`FreshStart`), `LeavesNothing` (`NothingLeft`), for any set of
runs, even an infinite one, and any number of swap buffers. An id or a key names one object, and a
run's ids are of its own program (`IdInv`); a run that is alone has no fellow (`AloneInv`), so
nobody else makes, uses or removes what is its program's. `OwnInv` follows it: in init it holds
the part of `Made(r)` it has passed, fresh; then all that there is of its program, what
crashed runs left included, because `Made` has every key of it; in full_cleanup each
object that is left is still ahead in `Freed(r)`, because `Freed` has every key of `Made`.

### Numbers: `LoopProofs`

`CopiesResult` (`Result`), `IntsInRange` (`TypeOK`), `BytesInOrder` (`InOrder`), for every size, window,
page and int. The invariant says that `off + n_bytes_remained` is the int, and that the output is
the identity up to `off`; for `InOrder`, also after a short write(), that it is increasing and below `off`.

`ClosedForm` (`LoopIsShare`), from what `n_bytes` is before each turn (`Rest`), and `InsideSegment`
(`SlicesInside`), from `PagesRoundUp`, for any number of children, slice, page and int size. So
`Share`, which `Sender` and `Reader` use, is what the loop does.

### Only model-checked

Liveness, as fairness and ENABLED are out of the prover's reach: `Termination` (of the sender, the
reader and the pair of children), `BothReturn`, `SenderNeverHangs`, `Completes`, `InterruptEndsBoth`, `NormalEnd`,
`Returns`, and the fairness that `ImplementsQueue`, `ImplementsTransfer` and `ImplementsLink`
promise beyond the steps. The two violated properties are findings.

## 5. Assumptions and omissions

* The transfer, the handshake, the processes and the objects are separate modules: a
  SIGINT or a crash in the middle of a transfer is modelled with the processes
  (`Lifecycle`) and the objects (`IpcObjects`), not with the data.
* One sender per reader: a second sender that answers the same reader's signals is not modelled,
  nor are SIGUSR1 and SIGUSR2 of strangers.
* `IpcObjects`: finding a set and setting it to 0 is one step; segments and sets are
  never refused (limits of the kernel); ftok() gives every file name and index a key of its own.
* Pids are not reused.
* In `Lifecycle`, forks of one program are one step (a SIGINT between two of them ends the
  master as one just after them does), and a master that waits for what a dead child
  owes stays where it is.
* SEM_UNDO in the garbage `sem_flg` is not modelled. Nor is IPC_NOWAIT in a call that would
  not have slept, where it changes nothing.
* After a D of the reader's sub_process_creation that did not wait, children that
  have not blocked their signals by the end of the handshake are left out (the default action of
  the first SIGUSR1 would end them). After a reader that left too early, the words still
  queued at a child and the sigqueue()s to children that are gone are left out.
* In `Lifecycle`, a SIGINT acts on a master at once; one that acts later, when the
  master is in another place, is a SIGINT sent later. SIGKILL and what a child gets do take
  time (`KidGone`, `MasterGone`).
* The input file does not change while it is read. Mutual exclusion and memory ordering of
  shared memory are those semop() and signals give.
* `n_bytes_to_send` of the reader's cfgs and `need_write` do not overflow: a round has at most
  122880 bytes.
* The SIGURG to a process group after a failed sigqueue() of SIGUSR1 also reaches the reader's
  master and the other children; `SignalTransfer` has a single pair.
* A write() that fails leaves the output file as it is: `ShortWrites` includes 0 bytes.

* Not modelled: `dbg.h` (handle_error prints and exits, logger returns at once) and
  `measure.h` (the clock, for a printf); the `#else` branches with `/proc/<pid>/stack` in
  both programs, which are compiled out, and what serves only them (shared_calloc_key,
  lock_shm, unlock_shm, gen_semaphores_raw_key); shared_calloc, gen_semaphores and
  gen_semaphores_raw, which no code calls.

## 6. Plan

All components with state are modelled, and all safety properties are proved. What could follow:

1. Proofs for the variants: that a ring whose master does not finish early (SIGALRM cancelled after
   the handshake, `sem_flg` set) needs no `Calm`.
2. One pair of children inside a session: `Session` with `SignalTransfer` in place of a link, to
   replace the argument over `SliceLink` by a refinement.
3. Progress measures in place of fairness: actions that strictly decrease a
   bound, as safety facts behind `Termination`.
