----------------------------- MODULE MCLiveness -----------------------------
(***************************************************************************)
(* The commands of the backend, the requests for rentals and the requests  *)
(* of a signed-in page, side by side, under the fairness of all three:     *)
(* part says which of them runs, the others keep an initial state in which *)
(* they have nothing to do.                                                *)
(***************************************************************************)
EXTENDS CabinetCommands

CONSTANTS RentalRequest,                              \* Request of Rentals
          User, Slot, PowerBank, Rental, None, Free, Orphan, Deposit,
          ChargeAmount, InitialBalance, TopupAmount, MaxBalance,
          RentalLockTtl, WalletLockTtl, CabinetSlotLockTtl, AckTimeout,
          MaxFaults, MaxFaultsInAll,
          Fetch, MaxPairs                             \* Call of WebSession

VARIABLES part,
          wallet, bankStatus, slotStatus, slotBank, rental, rentalLock,
          walletLock, slotLock, pc, asked, cabinet, wire, answer, reports, faults,
          session, refreshing, request, issued, revoked, fresh, loggedOut,
          overlap, cut

Rentals == INSTANCE Rentals WITH
    Request <- RentalRequest, call <- asked, ack <- answer

WebSession == INSTANCE WebSession WITH Call <- Fetch, call <- request

\* A value of MaxFaults, over FaultKind of Rentals.
OneSilence == [silence |-> 1, database |-> 0, crash |-> 0, reconnect |-> 0]

rentalVars == <<wallet, bankStatus, slotStatus, slotBank, rental, rentalLock,
                walletLock, slotLock, pc, asked, cabinet, wire, answer, reports,
                faults>>

sessionVars == <<session, refreshing, request, issued, revoked, fresh,
                 loggedOut, overlap, cut>>

LiveInit ==
    /\ part \in {"commands", "rentals", "session"}
    /\ Init /\ Rentals!Init /\ WebSession!Init
    /\ part # "rentals" => \A s \in Slot : slotBank[s] = None

LiveNext ==
    /\ UNCHANGED part
    /\ \/ part = "commands" /\ Next /\ UNCHANGED <<rentalVars, sessionVars>>
       \/ part = "rentals" /\ Rentals!Next /\ UNCHANGED <<vars, sessionVars>>
       \/ part = "session" /\ WebSession!Next /\ UNCHANGED <<vars, rentalVars>>

LiveSpec ==
    /\ LiveInit
    /\ [][LiveNext]_<<part, vars, rentalVars, sessionVars>>
    /\ Fairness
    /\ Rentals!Fairness
    /\ WebSession!Fairness

\* Every request for a rental ends, whatever the cabinet and the others do.
EveryRequestIsAnswered == Rentals!EveryRequestIsAnswered

\* Every request of a page ends, also those that wait for a shared refresh.
CallsSettle == WebSession!CallsSettle
=============================================================================
