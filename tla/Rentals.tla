------------------------------- MODULE Rentals -------------------------------
(***************************************************************************)
(* RentalsService.start and RentalsService.return, run by any number of    *)
(* HTTP requests at once, over the tables they share, the Redis locks they *)
(* take, and a cabinet that answers commands late, too late or never.      *)
(*                                                                         *)
(* A step is one await of the code: a Redis call, a database transaction   *)
(* (two steps where READ COMMITTED lets another transaction in), or the    *)
(* wait for the cabinet. Locks are modelled with the TTLs the code gives   *)
(* them: every step but the wait for the cabinet's acknowledgement is      *)
(* short beside them, so a lock lapses under its owner only during that    *)
(* wait, and only when its TTL is below the acknowledgement timeout.       *)
(***************************************************************************)
EXTENDS WalletOps, FiniteSets

CONSTANTS
    Request,        \* requests the backend handles at the same time
    User, Slot, PowerBank,
    Rental,         \* rental ids; bounds the rentals of one run
    None,           \* SQL NULL
    Free, Orphan,   \* lock states: unheld; held by a request that is gone
    Deposit,        \* depositAmount of the default pricing rule
    ChargeAmount,   \* the charges calculateCost may come to
    InitialBalance, \* what a wallet may hold at the start
    TopupAmount, MaxBalance, \* the top-up of a run and its bound
    RentalLockTtl, WalletLockTtl, CabinetSlotLockTtl, AckTimeout,
    MaxFaults,      \* bound: how often each kind of fault strikes
    MaxFaultsInAll  \* bound: how many faults strike altogether

\* A command that is not acknowledged, a transaction that fails, a backend
\* that dies, a cabinet that reconnects.
FaultKind == {"silence", "database", "crash", "reconnect"}

ASSUME RentalsAssumption ==
    /\ IsFiniteSet(Request) /\ IsFiniteSet(Rental)
    /\ Deposit \in Nat
    /\ ChargeAmount \subseteq Nat
    /\ InitialBalance \subseteq Nat
    /\ TopupAmount \in Nat
    /\ MaxBalance \in Nat
    /\ {RentalLockTtl, WalletLockTtl, CabinetSlotLockTtl, AckTimeout} \subseteq Nat
    /\ AckTimeout < CabinetSlotLockTtl   \* 60 s by default, below the 65 s TTL
    /\ MaxFaults \in [FaultKind -> Nat]
    /\ MaxFaultsInAll \in Nat
    /\ Free # Orphan
    /\ Free \notin Request
    /\ Orphan \notin Request
    /\ None \notin PowerBank \cup Rental \cup User \cup Slot

VARIABLES
    \* PostgreSQL
    wallet,       \* wallets
    bankStatus,   \* power_banks.status
    slotStatus,   \* slots.status, what the cabinet last reported or a rental wrote
    slotBank,     \* slots.power_bank_id
    rental,       \* rentals
    \* Redis
    rentalLock,   \* lock:rental-start:<user>
    walletLock,   \* lock:wallet:<user>
    slotLock,     \* lock:cabinet:<cabinet>:slot:<slot>
    \* the backend process
    pc, call,     \* where each request stands and what it works on
    \* the cabinet and the broker
    cabinet,      \* what is physically in each slot
    wire,         \* commands the cabinet has not carried out yet
    ack,          \* the answer under way to each request
    reports,      \* slot snapshots the backend has not stored yet
    faults        \* faults so far

tables  == <<wallet, bankStatus, slotStatus, slotBank, rental>>
locks   == <<rentalLock, walletLock, slotLock>>
process == <<pc, call>>
field   == <<cabinet, wire, ack, reports>>
vars    == <<tables, locks, process, field, faults>>
-----------------------------------------------------------------------------
\* Types.

Owner == Request \cup {Free, Orphan}

Occupancy == {"empty", "occupied"}

Pc == {"idle", "checkActive", "lockSlot", "lockWallet", "prepare", "await",
       "rent", "compensate", "checkBank", "settle", "topup", "unlock"}

\* The locals of a handler that outlive an await.
NoCall == [op |-> "none", user |-> None, slot |-> None, bank |-> None,
           rental |-> None, charge |-> 0]

Call == [op : {"none", "start", "return", "topup"},
         user : User \cup {None}, slot : Slot \cup {None},
         bank : PowerBank \cup {None}, rental : Rental \cup {None},
         charge : Nat]

NoRental == [status |-> "none", user |-> None, bank |-> None]

RentalRow == [status : {"none", "active", "completed"},
              user : User \cup {None}, bank : PowerBank \cup {None}]

Command == [req : Request \cup {Orphan}, kind : {"release", "lock"}, slot : Slot]

TypeOK ==
    /\ wallet \in [User -> WalletRow]
    /\ bankStatus \in [PowerBank -> {"idle", "rented", "charging"}]
    /\ slotStatus \in [Slot -> Occupancy]
    /\ slotBank \in [Slot -> PowerBank \cup {None}]
    /\ rental \in [Rental -> RentalRow]
    /\ rentalLock \in [User -> Owner]
    /\ walletLock \in [User -> Owner]
    /\ slotLock \in [Slot -> Owner]
    /\ pc \in [Request -> Pc]
    /\ call \in [Request -> Call]
    /\ cabinet \in [Slot -> Occupancy]
    /\ wire \subseteq Command
    /\ ack \in [Request -> {"none", "ok", "error"}]
    /\ reports \subseteq Slot \X Occupancy
    /\ faults \in [FaultKind -> Nat]

\* Every bank is idle and in at most one slot; the tables, the cabinet and the
\* last reports agree; nobody rents and no request is being served.
Init ==
    /\ wallet \in [User -> {[balance |-> b, frozen |-> 0] : b \in InitialBalance}]
    /\ bankStatus = [b \in PowerBank |-> "idle"]
    /\ slotBank \in [Slot -> PowerBank \cup {None}]
    /\ \A s, t \in Slot : slotBank[s] # None /\ slotBank[s] = slotBank[t] => s = t
    /\ cabinet = [s \in Slot |-> IF slotBank[s] = None THEN "empty" ELSE "occupied"]
    /\ slotStatus = cabinet
    /\ rental = [i \in Rental |-> NoRental]
    /\ rentalLock = [u \in User |-> Free]
    /\ walletLock = [u \in User |-> Free]
    /\ slotLock = [s \in Slot |-> Free]
    /\ pc = [r \in Request |-> "idle"]
    /\ call = [r \in Request |-> NoCall]
    /\ wire = {}
    /\ ack = [r \in Request |-> "none"]
    /\ reports = {}
    /\ faults = [k \in FaultKind |-> 0]
-----------------------------------------------------------------------------
\* What the handlers ask of the tables.

Active(u) == {i \in Rental : rental[i].status = "active" /\ rental[i].user = u}

\* findActiveByUser found nothing.
NoActiveRental(u) == Active(u) = {}

NoActiveKey(u) == TRUE

\* The partial unique index rentals_user_id_active_key.
ActiveKeyFree(u) == Active(u) = {}

NoBankKey(b, s) == TRUE

\* The unique key on slots.power_bank_id.
BankKeyFree(b, s) == \A t \in Slot \ {s} : slotBank[t] # b

\* The slot holds a bank that can be rented.
Rentable(s) == slotBank[s] # None /\ bankStatus[slotBank[s]] = "idle"

GoTo(r, label) == pc' = [pc EXCEPT ![r] = label]

Answered(r) ==
    /\ GoTo(r, "idle")
    /\ call' = [call EXCEPT ![r] = NoCall]

FaultsInAll ==
    faults["silence"] + faults["database"] + faults["crash"] + faults["reconnect"]

Strike(kind) ==
    /\ faults[kind] < MaxFaults[kind]
    /\ FaultsInAll < MaxFaultsInAll
    /\ faults' = [faults EXCEPT ![kind] = @ + 1]

WithWallet(u, row) == wallet' = [wallet EXCEPT ![u] = row]
-----------------------------------------------------------------------------
\* Starting a rental.

\* POST /rentals: takes the rental-start lock before it reads anything.
BeginStart(r, u, s) ==
    /\ pc[r] = "idle"
    /\ rentalLock[u] = Free
    /\ rentalLock' = [rentalLock EXCEPT ![u] = r]
    /\ call' = [call EXCEPT ![r] = [NoCall EXCEPT !.op = "start", !.user = u,
                                                  !.slot = s]]
    /\ GoTo(r, "checkActive")
    /\ UNCHANGED <<tables, walletLock, slotLock, field, faults>>

\* findActiveByUser, then the pricing rule and the cabinet's heartbeat.
CheckActive(r) ==
    /\ pc[r] = "checkActive"
    /\ NoActiveRental(call[r].user)
    /\ GoTo(r, "lockSlot")
    /\ UNCHANGED <<tables, locks, call, field, faults>>

\* ActiveRentalExists, NoPricingRule, CabinetOffline, MqttUnavailable ...
RejectStart(r) ==
    /\ pc[r] = "checkActive"
    /\ GoTo(r, "unlock")
    /\ UNCHANGED <<tables, locks, call, field, faults>>

\* The first transaction: the slot holds an idle bank and the deposit is
\* frozen; after its commit the release command is published.
CanPrepareUncovered(r) == Rentable(call[r].slot)

CanPrepare(r) ==
    /\ Rentable(call[r].slot)
    /\ Covered(wallet[call[r].user], Deposit)

SendCommand(r, kind) ==
    wire' = wire \cup {[req |-> r, kind |-> kind, slot |-> call[r].slot]}

Prepare(r) ==
    LET u == call[r].user
    IN /\ pc[r] = "prepare"
       /\ CanPrepare(r)
       /\ WithWallet(u, Freeze(wallet[u], Deposit))
       /\ call' = [call EXCEPT ![r].bank = slotBank[call[r].slot]]
       /\ SendCommand(r, "release")
       /\ GoTo(r, "await")
       /\ UNCHANGED <<bankStatus, slotStatus, slotBank, rental, locks,
                      cabinet, ack, reports, faults>>

PrepareFails(r) ==
    /\ pc[r] = "prepare"
    /\ ~CanPrepare(r)
    /\ GoTo(r, "unlock")
    /\ UNCHANGED <<tables, locks, call, field, faults>>

\* The second transaction looks again at what the first one saw.
SlotStillHoldsBank(r) ==
    /\ slotBank[call[r].slot] = call[r].bank
    /\ bankStatus[call[r].bank] = "idle"

CanRent(r) == SlotStillHoldsBank(r) /\ ActiveKeyFree(call[r].user)

Rent(r, i) ==
    LET b == call[r].bank
        s == call[r].slot
    IN /\ pc[r] = "rent"
       /\ CanRent(r)
       /\ rental[i].status = "none"
       /\ bankStatus' = [bankStatus EXCEPT ![b] = "rented"]
       /\ slotStatus' = [slotStatus EXCEPT ![s] = "empty"]
       /\ slotBank' = [slotBank EXCEPT ![s] = None]
       /\ rental' = [rental EXCEPT ![i] =
                       [status |-> "active", user |-> call[r].user, bank |-> b]]
       /\ GoTo(r, "unlock")
       /\ UNCHANGED <<wallet, locks, call, field, faults>>

\* SlotEmpty, PowerBankNotIdle, or P2002 on the active-rental key.
RentFails(r) ==
    /\ pc[r] = "rent"
    /\ ~CanRent(r)
    /\ GoTo(r, "compensate")
    /\ UNCHANGED <<tables, locks, call, field, faults>>

\* releaseFrozenDeposit
ReleaseFrozenDeposit(r) ==
    LET u == call[r].user
    IN /\ pc[r] = "compensate"
       /\ WithWallet(u, Unfreeze(wallet[u], Deposit))
       /\ GoTo(r, "unlock")
       /\ UNCHANGED <<bankStatus, slotStatus, slotBank, rental, locks, call,
                      field, faults>>
-----------------------------------------------------------------------------
\* Ending a rental.

\* The reads return() does before it holds any lock: the rental is the
\* user's and active, the slot's row says empty, and the charge is computed.
BeginReturn(r, u, i, s, charge) ==
    /\ pc[r] = "idle"
    /\ rental[i].status = "active"
    /\ rental[i].user = u
    /\ slotStatus[s] = "empty"
    /\ call' = [call EXCEPT ![r] =
                  [op |-> "return", user |-> u, slot |-> s,
                   bank |-> rental[i].bank, rental |-> i, charge |-> charge]]
    /\ GoTo(r, "lockSlot")
    /\ UNCHANGED <<tables, locks, field, faults>>

\* The deposit is released before the charge is taken.
SettledWallet(r) == Charge(Unfreeze(wallet[call[r].user], Deposit), call[r].charge)

\* H-8: the bank must still be 'rented'.
BankStillOut(r) == bankStatus[call[r].bank] = "rented"

\* The transaction's first statement reads the bank without locking its row:
\* under READ COMMITTED another return of the rental can commit between this
\* read and the update of the wallet row, which it locks FOR UPDATE.
CheckBank(r) ==
    /\ pc[r] = "checkBank"
    /\ GoTo(r, IF BankStillOut(r) THEN "settle" ELSE "unlock")
    /\ UNCHANGED <<tables, locks, call, field, faults>>

CanSettle(r) ==
    /\ BankKeyFree(call[r].bank, call[r].slot)
    /\ Covered(Unfreeze(wallet[call[r].user], Deposit), call[r].charge)

Settle(r) ==
    LET b == call[r].bank
        s == call[r].slot
    IN /\ pc[r] = "settle"
       /\ CanSettle(r)
       /\ WithWallet(call[r].user, SettledWallet(r))
       /\ bankStatus' = [bankStatus EXCEPT ![b] = "charging"]
       /\ slotStatus' = [slotStatus EXCEPT ![s] = "occupied"]
       /\ slotBank' = [slotBank EXCEPT ![s] = b]
       /\ rental' = [rental EXCEPT ![call[r].rental].status = "completed"]
       /\ GoTo(r, "unlock")
       /\ UNCHANGED <<locks, call, field, faults>>

\* InsufficientBalance or P2002 on the slot's key: all rolled back, with the
\* bank already locked into the cabinet.
SettleFails(r) ==
    /\ pc[r] = "settle"
    /\ ~CanSettle(r)
    /\ GoTo(r, "unlock")
    /\ UNCHANGED <<tables, locks, call, field, faults>>
-----------------------------------------------------------------------------
\* Locks.  SET NX PX takes a free key; after three refusals acquireLock throws.

AcquireSlotLock(r) ==
    LET s == call[r].slot
    IN /\ pc[r] = "lockSlot"
       /\ slotLock[s] = Free
       /\ slotLock' = [slotLock EXCEPT ![s] = r]
       /\ GoTo(r, "lockWallet")
       /\ UNCHANGED <<tables, rentalLock, walletLock, call, field, faults>>

SlotLockBusy(r) ==
    /\ pc[r] = "lockSlot"
    /\ slotLock[call[r].slot] # Free
    /\ GoTo(r, "unlock")
    /\ UNCHANGED <<tables, locks, call, field, faults>>

\* The step each operation takes under the wallet lock.
UnderWalletLock(op) ==
    CASE op = "start"  -> "prepare"
      [] op = "return" -> "await"
      [] op = "topup"  -> "topup"

\* A return publishes its lock command as soon as it holds both locks.
AcquireWalletLock(r) ==
    LET u == call[r].user
    IN /\ pc[r] = "lockWallet"
       /\ walletLock[u] = Free
       /\ walletLock' = [walletLock EXCEPT ![u] = r]
       /\ IF call[r].op = "return" THEN SendCommand(r, "lock") ELSE UNCHANGED wire
       /\ GoTo(r, UnderWalletLock(call[r].op))
       /\ UNCHANGED <<tables, rentalLock, slotLock, call, cabinet, ack, reports,
                      faults>>

WalletLockBusy(r) ==
    /\ pc[r] = "lockWallet"
    /\ call[r].op # "return"
    /\ walletLock[call[r].user] # Free
    /\ GoTo(r, "unlock")
    /\ UNCHANGED <<tables, locks, call, field, faults>>

\* return() takes both locks before its try block: when the wallet lock is
\* busy the slot lock is not released and stays until its TTL.
WalletLockBusyOnReturn(r) ==
    LET s == call[r].slot
    IN /\ pc[r] = "lockWallet"
       /\ call[r].op = "return"
       /\ walletLock[call[r].user] # Free
       /\ slotLock' = [slotLock EXCEPT ![s] = IF @ = r THEN Orphan ELSE @]
       /\ Answered(r)
       /\ UNCHANGED <<tables, rentalLock, walletLock, field, faults>>

\* The finally blocks: each lock is deleted if its key still holds the token
\* of this request, and the request is answered.
ReleasedWithoutToken(lock, r) == [k \in DOMAIN lock |-> Free]

Released(lock, r) == [k \in DOMAIN lock |-> IF lock[k] = r THEN Free ELSE lock[k]]

Unlock(r) ==
    /\ pc[r] = "unlock"
    /\ rentalLock' = Released(rentalLock, r)
    /\ walletLock' = Released(walletLock, r)
    /\ slotLock' = Released(slotLock, r)
    /\ Answered(r)
    /\ UNCHANGED <<tables, field, faults>>

\* A key expires under a request that waits for the cabinet longer than the
\* TTL, or long after the request that held it is gone.
Lapses(holder, ttl) ==
    \/ holder = Orphan
    \/ holder \in Request /\ pc[holder] = "await" /\ ttl < AckTimeout

RentalLockLapses(u) ==
    /\ Lapses(rentalLock[u], RentalLockTtl)
    /\ rentalLock' = [rentalLock EXCEPT ![u] = Free]
    /\ UNCHANGED <<tables, walletLock, slotLock, process, field, faults>>

WalletLockLapses(u) ==
    /\ Lapses(walletLock[u], WalletLockTtl)
    /\ walletLock' = [walletLock EXCEPT ![u] = Free]
    /\ UNCHANGED <<tables, rentalLock, slotLock, process, field, faults>>

SlotLockLapses(s) ==
    /\ Lapses(slotLock[s], CabinetSlotLockTtl)
    /\ slotLock' = [slotLock EXCEPT ![s] = Free]
    /\ UNCHANGED <<tables, rentalLock, walletLock, process, field, faults>>
-----------------------------------------------------------------------------
\* WalletService.applyTransaction as the direct top-up calls it.

BeginTopup(r, u) ==
    /\ pc[r] = "idle"
    /\ wallet[u].balance + TopupAmount <= MaxBalance
    /\ call' = [call EXCEPT ![r] = [NoCall EXCEPT !.op = "topup", !.user = u]]
    /\ GoTo(r, "lockWallet")
    /\ UNCHANGED <<tables, locks, field, faults>>

TopupWallet(r) ==
    LET u == call[r].user
    IN /\ pc[r] = "topup"
       /\ WithWallet(u, Topup(wallet[u], TopupAmount))
       /\ GoTo(r, "unlock")
       /\ UNCHANGED <<bankStatus, slotStatus, slotBank, rental, locks, call,
                      field, faults>>
-----------------------------------------------------------------------------
\* The cabinet and the broker.

\* A release needs a bank in the slot and a lock needs the slot empty.
Possible(c) ==
    cabinet[c.slot] = IF c.kind = "release" THEN "occupied" ELSE "empty"

After(c) == IF c.kind = "release" THEN "empty" ELSE "occupied"

AnswerDroppingErrors(c, status) ==
    ack' = IF c.req = Orphan \/ status = "error" THEN ack
                                                ELSE [ack EXCEPT ![c.req] = status]

Answer(c, status) ==
    ack' = IF c.req = Orphan THEN ack ELSE [ack EXCEPT ![c.req] = status]

\* The slot moves, its snapshot is published, then the acknowledgement.
CarryOut(c) ==
    /\ c \in wire
    /\ Possible(c)
    /\ wire' = wire \ {c}
    /\ cabinet' = [cabinet EXCEPT ![c.slot] = After(c)]
    /\ reports' = reports \cup {<<c.slot, After(c)>>}
    /\ Answer(c, "ok")
    /\ UNCHANGED <<tables, locks, process, faults>>

\* SLOT_EMPTY or SLOT_OCCUPIED; SLOT_FAULTY whatever the slot holds.
Refuse(c) ==
    /\ c \in wire
    /\ wire' = wire \ {c}
    /\ Answer(c, "error")
    /\ UNCHANGED <<tables, locks, process, cabinet, reports, faults>>

\* A command nobody waits for any more is lost.  (Losing it earlier shows
\* the backend the same silence.)
Drop(c) ==
    /\ c \in wire
    /\ c.req = Orphan
    /\ wire' = wire \ {c}
    /\ UNCHANGED <<tables, locks, process, cabinet, ack, reports, faults>>

\* A cabinet that connects publishes a snapshot of every slot.
Snapshot(s) ==
    /\ Strike("reconnect")
    /\ reports' = reports \cup {<<s, cabinet[s]>>}
    /\ UNCHANGED <<tables, locks, process, cabinet, wire, ack>>

\* syncSlotStatus: the handlers await the heartbeat update first and are not
\* serialised, so snapshots are stored in any order; only the status column
\* is written.
StoreSnapshot(s, status) ==
    /\ <<s, status>> \in reports
    /\ reports' = reports \ {<<s, status>>}
    /\ slotStatus' = [slotStatus EXCEPT ![s] = status]
    /\ UNCHANGED <<wallet, bankStatus, slotBank, rental, locks, process,
                   cabinet, wire, ack, faults>>
-----------------------------------------------------------------------------
\* Waiting for the cabinet.

\* Commands whose sender no longer waits may still be carried out.
Abandoned(senders) ==
    {[c EXCEPT !.req = IF @ \in senders THEN Orphan ELSE @] : c \in wire}

OnFailedCommandKeepingDeposit(op) == "unlock"

\* What a handler does when sendCommand throws: start() releases the
\* deposit, return() has nothing to undo.
OnFailedCommand(op) == IF op = "start" THEN "compensate" ELSE "unlock"

OnAck(op) == IF op = "start" THEN "rent" ELSE "checkBank"

ReceiveAck(r) ==
    /\ pc[r] = "await"
    /\ ack[r] # "none"
    /\ ack' = [ack EXCEPT ![r] = "none"]
    /\ GoTo(r, IF ack[r] = "ok" THEN OnAck(call[r].op)
                                ELSE OnFailedCommand(call[r].op))
    /\ UNCHANGED <<tables, locks, call, cabinet, wire, reports, faults>>

\* The acknowledgement timeout, a failed publish, or a broker that goes away
\* (rejectAllPending); a late acknowledgement finds no pending entry.
NoAnswer(r) ==
    /\ Strike("silence")
    /\ pc[r] = "await"
    /\ ack' = [ack EXCEPT ![r] = "none"]
    /\ wire' = Abandoned({r})
    /\ GoTo(r, OnFailedCommand(call[r].op))
    /\ UNCHANGED <<tables, locks, call, cabinet, reports>>
-----------------------------------------------------------------------------
\* Faults.

\* A transaction that cannot reach the database or exceeds its time limit.
\* start() compensates for its second one; nothing compensates for a failed
\* compensation.
TransactionFails(r) ==
    /\ Strike("database")
    /\ pc[r] \in {"prepare", "rent", "compensate", "checkBank", "settle", "topup"}
    /\ GoTo(r, IF pc[r] = "rent" THEN "compensate" ELSE "unlock")
    /\ UNCHANGED <<tables, locks, call, field>>

\* The one backend process dies: its requests are never answered, their
\* locks stay until they expire, snapshots it had not stored are lost.
Crash ==
    /\ Strike("crash")
    /\ \E r \in Request : pc[r] # "idle"
    /\ pc' = [r \in Request |-> "idle"]
    /\ call' = [r \in Request |-> NoCall]
    /\ rentalLock' = [u \in User |-> IF rentalLock[u] = Free THEN Free ELSE Orphan]
    /\ walletLock' = [u \in User |-> IF walletLock[u] = Free THEN Free ELSE Orphan]
    /\ slotLock' = [s \in Slot |-> IF slotLock[s] = Free THEN Free ELSE Orphan]
    /\ wire' = Abandoned(Request)
    /\ ack' = [r \in Request |-> "none"]
    /\ reports' = {}
    /\ UNCHANGED <<tables, cabinet>>
-----------------------------------------------------------------------------
\* A customer makes a request.
Arrive(r) ==
    \E u \in User :
       \/ \E s \in Slot :
            \/ BeginStart(r, u, s)
            \/ \E i \in Rental, charge \in ChargeAmount : BeginReturn(r, u, i, s, charge)
       \/ BeginTopup(r, u)

\* The handler of a request takes its next step.
Handle(r) ==
    \/ CheckActive(r) \/ RejectStart(r)
    \/ AcquireSlotLock(r) \/ SlotLockBusy(r)
    \/ AcquireWalletLock(r) \/ WalletLockBusy(r) \/ WalletLockBusyOnReturn(r)
    \/ Prepare(r) \/ PrepareFails(r)
    \/ ReceiveAck(r) \/ NoAnswer(r)
    \/ (\E i \in Rental : Rent(r, i)) \/ RentFails(r)
    \/ ReleaseFrozenDeposit(r)
    \/ CheckBank(r) \/ Settle(r) \/ SettleFails(r)
    \/ TopupWallet(r)
    \/ Unlock(r)

Expiry ==
    \/ \E u \in User : RentalLockLapses(u) \/ WalletLockLapses(u)
    \/ \E s \in Slot : SlotLockLapses(s)

Field ==
    \/ \E c \in wire : CarryOut(c) \/ Refuse(c) \/ Drop(c)
    \/ \E s \in Slot : Snapshot(s) \/ \E o \in Occupancy : StoreSnapshot(s, o)

Next ==
    \/ \E r \in Request : Arrive(r) \/ Handle(r) \/ TransactionFails(r)
    \/ Expiry
    \/ Field
    \/ Crash

Spec == Init /\ [][Next]_vars

\* Node keeps running handlers whose await has settled, timers fire, Redis
\* expires keys, and a cabinet that is sent a command ends by acting on it or
\* by losing it.  Nothing makes customers arrive, snapshots come or faults
\* strike.
Fairness ==
    /\ \A r \in Request : WF_vars(Handle(r))
    /\ \A c \in Command : WF_vars(CarryOut(c) \/ Refuse(c) \/ Drop(c))
    /\ \A u \in User : WF_vars(RentalLockLapses(u)) /\ WF_vars(WalletLockLapses(u))
    /\ \A s \in Slot : WF_vars(SlotLockLapses(s))

FairSpec == Spec /\ Fairness
-----------------------------------------------------------------------------
\* Safety.

\* Starts that have frozen a deposit and neither created a rental nor given
\* the deposit back.
Starting(u) ==
    {r \in Request : /\ call[r].op = "start"
                     /\ call[r].user = u
                     /\ pc[r] \in {"await", "rent", "compensate"}}

Owed(u) == Deposit * (Cardinality(Starting(u)) + Cardinality(Active(u)))

\* What is frozen in a wallet is one deposit for the user's active rental and
\* one for each start still in progress, even when several starts of one user
\* overlap because their locks lapsed.  Crashes and failed transactions can
\* leave deposits frozen for nothing but never take a deposit away.  It rests
\* on a rental being settled once (SettledOnce), which takes a wallet lock that
\* outlasts the wait for the cabinet or no command left behind: what is settled
\* twice gives its deposit back twice.
DepositsAreFrozen ==
    \A u \in User : /\ wallet[u].frozen >= Owed(u)
                    /\ faults["crash"] + faults["database"] = 0
                         => wallet[u].frozen = Owed(u)

\* "H-8: verify power bank is still in 'rented' state"
\* (rentals.service.ts:235): a return settles, releasing a deposit and taking
\* a charge, only a rental that is still active.  The check reads the bank
\* before it waits for the wallet row, so it is the slots' unique key that
\* stops the second of two returns, as long as the slot row the first one
\* wrote still names the bank.
SettledOnce ==
    [][\A r \in Request : Settle(r) => rental[call[r].rental].status = "active"]_vars

\* No charge eats into a deposit: the CHECK constraint frozen <= balance is
\* never what rejects a transaction.
DepositsAreFunded == \A u \in User : wallet[u].frozen <= wallet[u].balance

\* A bank is 'rented' exactly while one active rental names it, and it is then
\* in no slot; a user has at most one active rental.  It holds although two
\* starts of one user, or two returns of one rental, may pass every check
\* made before the cabinet answers.
Custody ==
    /\ \A b \in PowerBank :
          bankStatus[b] = "rented" <=>
             \E i \in Rental : rental[i].status = "active" /\ rental[i].bank = b
    /\ \A i, j \in Rental :
          /\ rental[i].status = "active" /\ rental[j].status = "active"
          /\ rental[i].bank = rental[j].bank \/ rental[i].user = rental[j].user
          => i = j
    /\ \A s \in Slot : slotBank[s] # None => bankStatus[slotBank[s]] # "rented"

\* At most one waiting request has a command on its way to a slot, so a slot
\* never moves for a request while another one is waiting for it.
OneCommandPerSlot ==
    \A r, q \in Request :
       pc[r] = "await" /\ pc[q] = "await" /\ call[r].slot = call[q].slot => r = q

\* PAYMENT.md, section 11: two attempts to start a rental at the same time
\* meet the Redis lock.  Two starts of one user never wait for cabinets at
\* once.
StartsExclude ==
    \A r, q \in Request :
       /\ pc[r] = "await" /\ call[r].op = "start"
       /\ pc[q] = "await" /\ call[q].op = "start"
       /\ call[r].user = call[q].user
       => r = q

\* The request is about to write its user's wallet row.
WritesWallet(r) == pc[r] \in {"prepare", "settle", "compensate", "topup"}

\* "Caller MUST already hold the Redis wallet lock for this userId"
\* (wallet.service.ts:89), said of applyInExistingTx.
WalletLockIsHeld ==
    \A r \in Request : WritesWallet(r) => walletLock[call[r].user] = r

\* No request works on the slot and no command is on its way to it.
Quiet(s) == slotLock[s] = Free /\ \A c \in wire : c.slot # s

\* A slot the cabinet has emptied is not left with a bank in the database:
\* whatever was dispensed was recorded as rented.
DispensedIsRecorded ==
    \A s \in Slot : Quiet(s) /\ cabinet[s] = "empty" => slotBank[s] = None

\* The bank is in a slot of some cabinet or out on a rental.
Accounted(b) == bankStatus[b] = "rented" \/ \E s \in Slot : slotBank[s] = b

\* A bank once accounted for stays so: no return stores its bank over one that
\* the slot's row still names, and no rental loses its bank.
NoBankIsLost == [][\A b \in PowerBank : Accounted(b) => Accounted(b)']_vars
-----------------------------------------------------------------------------
\* Liveness.

\* Every request ends, whatever the cabinet and the other requests do.
EveryRequestIsAnswered ==
    \A r \in Request : pc[r] # "idle" ~> pc[r] = "idle"

\* PAYMENT.md, section 11: a bank that is back in a cabinet while its rental
\* stays active is reconciled.
DockedRentalIsCompleted ==
    \A i \in Rental :
       (\E r \in Request : pc[r] = "checkBank" /\ call[r].rental = i)
          ~> rental[i].status = "completed"
-----------------------------------------------------------------------------
\* The promise to the customer, as an abstract specification.

Contract == INSTANCE RentalContract WITH
    out     <- [u \in User |-> IF Active(u) = {} THEN None
                               ELSE rental[CHOOSE i \in Active(u) : TRUE].bank],
    used    <- {b \in PowerBank : bankStatus[b] # "idle"},
    balance <- [u \in User |-> wallet[u].balance]

\* Rentals as the customer sees them: RentalContract!Spec.  It rests on
\* SettledOnce too: what is settled twice is charged twice.
ImplementsContract == Contract!Spec
=============================================================================
