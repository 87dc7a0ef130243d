------------------------------ MODULE MCRentals ------------------------------
(* Small instances of Rentals for TLC. *)
EXTENDS RentalsInvariants, TLC

Faults(silence, database, crash, reconnect) ==
    [k \in FaultKind |-> CASE k = "silence"   -> silence
                          [] k = "database"  -> database
                          [] k = "crash"     -> crash
                          [] k = "reconnect" -> reconnect]

AnyFault     == Faults(1, 1, 1, 0)
NoFaults     == Faults(0, 0, 0, 0)
OneSilence   == Faults(1, 0, 0, 0)
OneReconnect == Faults(0, 0, 0, 1)

\* Requests are interchangeable, and so are users, banks and rental ids: no
\* definition tells two of them apart.
RentalSymmetry ==
    Permutations(Request) \cup Permutations(User) \cup Permutations(PowerBank)
        \cup Permutations(Rental) \cup Permutations(Slot)
=============================================================================
