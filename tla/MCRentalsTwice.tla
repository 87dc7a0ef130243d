---------------------------- MODULE MCRentalsTwice ----------------------------
(***************************************************************************)
(* Rentals under a schedule that says who moves at each step.  What the    *)
(* mover does is left to Rentals: every step is a step of its Next.  The   *)
(* schedule leads past the depth that a search of all interleavings of two *)
(* users, slots and banks could reach.                                     *)
(***************************************************************************)
EXTENDS Rentals, Sequences

CONSTANTS r1, r2, station, redis

VARIABLE turn

OneSilence == [k \in FaultKind |-> IF k = "silence" THEN 1 ELSE 0]

Turns(who, n) == [k \in 1..n |-> who]

\* A start up to its wait, the cabinet, and the recording of the rental.
WholeStart(r) == Turns(r, 5) \o <<station>> \o Turns(r, 3)

\* A return up to its wait and the cabinet.
Docking(r) == Turns(r, 3) \o <<station>>

\* The acknowledgement, the check of the bank, the settlement, the locks.
Settling(r) == Turns(r, 4)

\* A start is given up and leaves its release command behind; two banks are
\* rented; the first comes back twice, the second return begun after the
\* wallet lock of the first one lapsed and halted between its check and its
\* settlement; the command left behind empties the slot that was settled, and
\* the second bank comes back to it; then the halted return goes on.
Schedule ==
    Turns(r1, 8) \o WholeStart(r1) \o WholeStart(r1)
        \o Docking(r1) \o <<redis>> \o Docking(r2) \o Turns(r2, 2) \o Settling(r1)
        \o <<station, station>>
        \o Docking(r1) \o Settling(r1)
        \o Turns(r2, 1)

Move(who) ==
    \/ who \in Request /\ (Arrive(who) \/ Handle(who))
    \/ who = station /\ Field
    \/ who = redis /\ Expiry

ScheduledInit == Init /\ turn = 1

ScheduledNext ==
    /\ turn <= Len(Schedule)
    /\ turn' = turn + 1
    /\ Move(Schedule[turn])

ScheduledSpec == ScheduledInit /\ [][ScheduledNext]_<<vars, turn>>
=============================================================================
