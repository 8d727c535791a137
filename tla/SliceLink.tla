----------------------------- MODULE SliceLink ------------------------------
(***************************************************************************)
(* What a child of the sender and its peer promise each other: slices are   *)
(* handed over one at a time, each announced, asked for, sent, and          *)
(* acknowledged once it has arrived.  The phases are those of link[i].st in *)
(* Sender and Reader.                                                      *)
(***************************************************************************)
EXTENDS Integers

VARIABLES st,       \* the phase
          no,       \* slices announced so far; the last one is number no
          arrived   \* the number of the slice in the reader's buffer, 0: none
vars == <<st, no, arrived>>

Init == st = "idle" /\ no = 0 /\ arrived = 0

Phase(from, to) == st = from /\ st' = to

Announce == Phase("idle", "req") /\ no' = no + 1 /\ UNCHANGED arrived
Go       == Phase("req", "go") /\ UNCHANGED <<no, arrived>>
Send     == Phase("go", "data") /\ UNCHANGED <<no, arrived>>
Ack      == Phase("data", "ack") /\ arrived' = no /\ UNCHANGED no
Final    == Phase("ack", "idle") /\ UNCHANGED <<no, arrived>>
Stop     == Phase("idle", "stop") /\ UNCHANGED <<no, arrived>>
Stopped  == Phase("stop", "idle") /\ UNCHANGED <<no, arrived>>

Next == Announce \/ Go \/ Send \/ Ack \/ Final \/ Stop \/ Stopped

\* A slice that was announced is handed over, the end is noticed.
Fairness == WF_vars(Go \/ Send \/ Ack \/ Final \/ Stopped)

Spec == Init /\ [][Next]_vars /\ Fairness
=============================================================================
