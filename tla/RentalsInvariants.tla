--------------------------- MODULE RentalsInvariants ---------------------------
(***************************************************************************)
(* The inductive strengthenings that the proofs about Rentals rest on.     *)
(***************************************************************************)
EXTENDS Rentals

\* What a handler knows at each point: the operation it runs and the locals
\* it has set.
CallFits(r) ==
    LET c == call[r]
    IN /\ pc[r] = "idle" => c = NoCall
       /\ pc[r] # "idle" => c.op # "none" /\ c.user \in User
       /\ pc[r] \in {"lockSlot", "await"} => c.op \in {"start", "return"}
       /\ pc[r] \in {"checkActive", "prepare", "rent", "compensate"} => c.op = "start"
       /\ pc[r] \in {"checkBank", "settle"} => c.op = "return"
       /\ pc[r] = "topup" => c.op = "topup"
       /\ c.op \in {"start", "return"} => c.slot \in Slot
       /\ c.op = "start" /\ pc[r] \in {"await", "rent", "compensate"}
             => c.bank \in PowerBank
       /\ c.op = "return" => c.bank \in PowerBank /\ c.rental \in Rental

CallsFit == \A r \in Request : CallFits(r)

\* A rental row is blank until it is created, and an active one names a user
\* and a bank.
RowFits(i) ==
    /\ rental[i].status = "none" => rental[i] = NoRental
    /\ rental[i].status = "active" => rental[i].user \in User /\ rental[i].bank \in PowerBank

RowsFit == \A i \in Rental : RowFits(i)

\* A return works on the row it read: its bank and its user never change.
ReturnsFit ==
    \A r \in Request :
       call[r].op = "return" =>
          /\ rental[call[r].rental].status # "none"
          /\ rental[call[r].rental].bank = call[r].bank
          /\ rental[call[r].rental].user = call[r].user

\* It charges what it computed when it began.
ChargesFit == \A r \in Request : call[r].op = "return" => call[r].charge \in ChargeAmount

\* No code makes a bank idle again, so a bank is rented once: its status says
\* how far its only rental has come.
BankFollowsRental ==
    /\ \A i, j \in Rental :
          rental[i].status # "none" /\ rental[j].status # "none"
             /\ rental[i].bank = rental[j].bank => i = j
    /\ \A i \in Rental :
          /\ rental[i].status = "active" => bankStatus[rental[i].bank] = "rented"
          /\ rental[i].status = "completed" => bankStatus[rental[i].bank] = "charging"
    /\ \A b \in PowerBank :
          bankStatus[b] = "rented" =>
             \E i \in Rental : rental[i].status = "active" /\ rental[i].bank = b

OneActivePerUser ==
    \A i, j \in Rental :
       /\ rental[i].status = "active" /\ rental[j].status = "active"
       /\ rental[i].user = rental[j].user
       => i = j

\* A bank that is stored in a slot is stored in no other and is not out.
StoredBanksAreIn ==
    /\ \A s, t \in Slot : slotBank[s] # None /\ slotBank[s] = slotBank[t] => s = t
    /\ \A s \in Slot : slotBank[s] # None => bankStatus[slotBank[s]] # "rented"

\* From taking the slot lock to the finally block, which is all the time it may
\* wait for the cabinet, a request holds the lock of its slot: its TTL is
\* longer than the wait.
NeedsSlot(r) ==
    /\ call[r].op \in {"start", "return"}
    /\ pc[r] \in {"lockWallet", "prepare", "await", "rent", "compensate",
                  "checkBank", "settle"}

SlotsHeld == \A r \in Request : NeedsSlot(r) => slotLock[call[r].slot] = r

TypeInv == TypeOK /\ RowsFit /\ CallsFit

SlotInv == TypeInv /\ SlotsHeld

CustodyInv ==
    /\ TypeInv
    /\ ReturnsFit
    /\ BankFollowsRental
    /\ OneActivePerUser
    /\ StoredBanksAreIn
-----------------------------------------------------------------------------
(***************************************************************************)
(* What locks that outlast the wait for the cabinet add.                   *)
(***************************************************************************)

\* A key with this TTL does not expire under a request that waits.
Outlasts(ttl) == AckTimeout <= ttl

NeedsWallet(r) ==
    pc[r] \in {"prepare", "await", "rent", "compensate", "checkBank", "settle", "topup"}

WalletsHeld == \A r \in Request : NeedsWallet(r) => walletLock[call[r].user] = r

StartsHeld == \A r \in Request : call[r].op = "start" => rentalLock[call[r].user] = r

\* A start that has seen no active rental is right until it creates one.
SeenNoRental(r) ==
    /\ call[r].op = "start"
    /\ pc[r] \in {"lockSlot", "lockWallet", "prepare", "await", "rent"}

StartsAreFirst == \A r \in Request : SeenNoRental(r) => Active(call[r].user) = {}

\* What a start read of its slot in the first transaction still holds in the
\* second one: nobody else writes the row while the slot is locked.
BanksStay ==
    \A r \in Request :
       call[r].op = "start" /\ pc[r] \in {"await", "rent"} => SlotStillHoldsBank(r)
-----------------------------------------------------------------------------
(***************************************************************************)
(* Commands, acknowledgements and the slots they move.                     *)
(***************************************************************************)

\* No command stays behind, because nothing abandons a request.
NothingAbandoned == MaxFaults["silence"] = 0 /\ MaxFaults["crash"] = 0

\* No transaction fails either.
NothingFails == NothingAbandoned /\ MaxFaults["database"] = 0

\* A command under way is the one its sender waits for.
CommandFits(c) ==
    LET r == c.req
    IN /\ pc[r] = "await"
       /\ ack[r] = "none"
       /\ c.slot = call[r].slot
       /\ c.kind = IF call[r].op = "start" THEN "release" ELSE "lock"

CommandsFit ==
    /\ \A c \in wire : c.req # Orphan => CommandFits(c)
    /\ \A r \in Request : ack[r] # "none" => pc[r] = "await"

NoOrphans == \A c \in wire : c.req # Orphan

\* The cabinet has moved the slot for the request.
Dispensed(r) ==
    /\ call[r].op = "start"
    /\ pc[r] = "rent" \/ (pc[r] = "await" /\ ack[r] = "ok")

Docked(r) ==
    /\ call[r].op = "return"
    /\ pc[r] \in {"checkBank", "settle"} \/ (pc[r] = "await" /\ ack[r] = "ok")

Returned(s) == slotBank[s] # None /\ bankStatus[slotBank[s]] = "charging"

\* Where no command stays behind, a slot whose row holds a returned bank holds
\* one physically, and the slot a bank has just been locked into is another.
ReturnedStay ==
    /\ \A s \in Slot : Returned(s) =>
          /\ cabinet[s] = "occupied"
          /\ \A c \in wire : c.slot = s => c.kind = "lock"
    /\ \A r \in Request : Docked(r) =>
          cabinet[call[r].slot] = "occupied" /\ ~Returned(call[r].slot)

\* A return about to settle settles a rental that is active; where locks may
\* lapse, the unique key of the slots stops it otherwise.
SettlesOnce ==
    \A r \in Request :
       pc[r] = "settle" /\ BankKeyFree(call[r].bank, call[r].slot)
          => rental[call[r].rental].status = "active"

\* A slot emptied by the cabinet is one for which a start is about to record
\* it, and a return locks its bank into a slot whose row is free.
SlotsAgree ==
    /\ \A s \in Slot :
          slotBank[s] # None /\ cabinet[s] = "empty" =>
             \E r \in Request : Dispensed(r) /\ call[r].slot = s
    /\ \A r \in Request : Docked(r) =>
          cabinet[call[r].slot] = "occupied" /\ slotBank[call[r].slot] = None
=============================================================================
