--------------------------- MODULE RentalsFieldProofs ---------------------------
(***************************************************************************)
(* Theorems about the locks of Rentals, the commands they protect and the  *)
(* slots these move.  What they assume of the TTLs and the faults is said  *)
(* in each theorem.                                                        *)
(***************************************************************************)
EXTENDS RentalsProofs

(***************************************************************************)
(* The wallet lock and the rental-start lock.                              *)
(***************************************************************************)

\* What the other requests have and know is not touched by a handler's step.
LEMMA OthersKeep ==
    ASSUME TypeInv, NEW r \in Request, Arrive(r) \/ Handle(r) \/ TransactionFails(r)
    PROVE  \A q \in Request \ {r} : pc'[q] = pc[q] /\ call'[q] = call[q]
<1> USE DEF TypeInv, TypeOK, GoTo, Answered, process
<1>1. CASE Arrive(r)
  BY <1>1 DEF Arrive, BeginStart, BeginReturn, BeginTopup
<1>2. CASE TransactionFails(r)
  BY <1>2 DEF TransactionFails
<1>3. CASE Handle(r)
  BY <1>3 DEF Handle, CheckActive, RejectStart, AcquireSlotLock, SlotLockBusy,
              AcquireWalletLock, WalletLockBusy, WalletLockBusyOnReturn, Prepare,
              PrepareFails, ReceiveAck, NoAnswer, Rent, RentFails, ReleaseFrozenDeposit,
              CheckBank, Settle, SettleFails, TopupWallet, Unlock
<1> QED
  BY <1>1, <1>2, <1>3

\* The request a handler works on changes only when it begins, when it notes
\* its bank, and when it ends.
LEMMA CallChanges ==
    ASSUME TypeInv, NEW r \in Request, Handle(r) \/ TransactionFails(r)
    PROVE  \/ call'[r] = call[r]
           \/ /\ pc[r] = "prepare" /\ pc'[r] = "await"
              /\ call'[r] \in Call
              /\ call'[r].op = call[r].op /\ call'[r].user = call[r].user
              /\ call'[r].slot = call[r].slot
              /\ call'[r].bank = slotBank[call[r].slot]
           \/ pc'[r] = "idle" /\ call'[r] = NoCall
<1> USE DEF TypeInv, TypeOK, GoTo, Answered
<1>1. CASE Prepare(r)
  <2>1. slotBank[call[r].slot] \in PowerBank /\ call[r] \in Call
    BY <1>1 DEF Prepare, CanPrepare, Rentable, CallsFit, CallFits
  <2>2. call'[r] = [call[r] EXCEPT !.bank = slotBank[call[r].slot]]
        /\ pc[r] = "prepare" /\ pc'[r] = "await"
    BY <1>1 DEF Prepare
  <2> QED
    BY <2>1, <2>2, CallWithBank
<1>2. CASE WalletLockBusyOnReturn(r) \/ Unlock(r)
  BY <1>2 DEF WalletLockBusyOnReturn, Unlock
<1>3. CASE TransactionFails(r)
  BY <1>3 DEF TransactionFails
<1>4. CASE Handle(r) /\ ~Prepare(r) /\ ~WalletLockBusyOnReturn(r) /\ ~Unlock(r)
  BY <1>4 DEF Handle, CheckActive, RejectStart, AcquireSlotLock, SlotLockBusy,
              AcquireWalletLock, WalletLockBusy, PrepareFails, ReceiveAck, NoAnswer, Rent,
              RentFails, ReleaseFrozenDeposit, CheckBank, Settle, SettleFails, TopupWallet
<1> QED
  BY <1>1, <1>2, <1>3, <1>4

\* How a handler moves on.
LEMMA PcChanges ==
    ASSUME TypeInv, NEW r \in Request, Handle(r) \/ TransactionFails(r)
    PROVE  /\ pc[r] # "idle"
           /\ pc'[r] # "checkActive"
           /\ pc'[r] = "lockSlot" => pc[r] = "checkActive" /\ NoActiveRental(call[r].user)
           /\ pc'[r] = "lockWallet" => pc[r] = "lockSlot" /\ AcquireSlotLock(r)
           /\ pc'[r] \in {"prepare", "topup"} => AcquireWalletLock(r)
           /\ pc'[r] = "await" => Prepare(r) \/ AcquireWalletLock(r)
           /\ pc'[r] \in {"rent", "checkBank"} => pc[r] = "await" /\ ReceiveAck(r) /\ ack[r] = "ok"
           /\ pc'[r] = "compensate" => pc[r] \in {"await", "rent"} /\ call[r].op = "start"
           /\ pc'[r] = "settle" => CheckBank(r) /\ BankStillOut(r)
<1> USE DEF TypeInv, TypeOK, GoTo, Answered, UnderWalletLock, OnAck, OnFailedCommand
<1>1. CASE CheckActive(r) \/ RejectStart(r) \/ SlotLockBusy(r) \/ WalletLockBusy(r)
              \/ WalletLockBusyOnReturn(r) \/ PrepareFails(r)
  BY <1>1 DEF CheckActive, RejectStart, SlotLockBusy, WalletLockBusy,
              WalletLockBusyOnReturn, PrepareFails
<1>5. CASE AcquireSlotLock(r)
  <2>1. pc[r] = "lockSlot" /\ pc'[r] = "lockWallet"
    BY <1>5 DEF AcquireSlotLock
  <2> QED
    BY <1>5, <2>1
<1>6. CASE AcquireWalletLock(r)
  <2>1. pc[r] = "lockWallet" /\ pc'[r] \in {"prepare", "topup", "await"}
    BY <1>6 DEF AcquireWalletLock, CallsFit, CallFits, Call
  <2> QED
    BY <1>6, <2>1
<1>7. CASE Prepare(r)
  <2>1. pc[r] = "prepare" /\ pc'[r] = "await"
    BY <1>7 DEF Prepare
  <2> QED
    BY <1>7, <2>1
<1>2. CASE ReceiveAck(r) \/ NoAnswer(r)
  BY <1>2 DEF ReceiveAck, NoAnswer, CallsFit, CallFits
<1>3. CASE (\E i \in Rental : Rent(r, i)) \/ RentFails(r) \/ ReleaseFrozenDeposit(r)
              \/ CheckBank(r) \/ Settle(r) \/ SettleFails(r) \/ TopupWallet(r) \/ Unlock(r)
  BY <1>3 DEF Rent, RentFails, ReleaseFrozenDeposit, CheckBank, Settle, SettleFails,
              TopupWallet, Unlock, CallsFit, CallFits
<1>4. CASE TransactionFails(r)
  BY <1>4 DEF TransactionFails, CallsFit, CallFits
<1> QED
  BY <1>1, <1>2, <1>3, <1>4, <1>5, <1>6, <1>7 DEF Handle

\* How the locks change: a handler takes a free one and deletes its own.
LEMMA LocksChange ==
    ASSUME TypeInv, NEW r \in Request, Arrive(r) \/ Handle(r) \/ TransactionFails(r)
    PROVE  \A q \in Request \ {r} :
              /\ \A u \in User : walletLock[u] = q => walletLock'[u] = q
              /\ \A u \in User : rentalLock[u] = q => rentalLock'[u] = q
<1> USE RentalsAssumption DEF TypeInv, TypeOK, locks
<1>1. CASE Arrive(r)
  BY <1>1 DEF Arrive, BeginStart, BeginReturn, BeginTopup
<1>2. CASE TransactionFails(r)
  BY <1>2 DEF TransactionFails
<1>3. CASE Unlock(r)
  BY <1>3 DEF Unlock, Released
<1>4. CASE AcquireWalletLock(r)
  BY <1>4 DEF AcquireWalletLock
<1>5. CASE Handle(r) /\ ~Unlock(r) /\ ~AcquireWalletLock(r)
  BY <1>5 DEF Handle, CheckActive, RejectStart, AcquireSlotLock, SlotLockBusy,
              WalletLockBusy, WalletLockBusyOnReturn, Prepare,
              PrepareFails, ReceiveAck, NoAnswer, Rent, RentFails, ReleaseFrozenDeposit,
              CheckBank, Settle, SettleFails, TopupWallet
<1> QED
  BY <1>1, <1>2, <1>3, <1>4, <1>5

\* What the environment leaves alone.
LEMMA EnvironmentKeeps ==
    ASSUME Expiry \/ Field
    PROVE  UNCHANGED <<pc, call>>
BY DEF Expiry, RentalLockLapses, WalletLockLapses, SlotLockLapses, Field, CarryOut, Refuse,
       Drop, Snapshot, StoreSnapshot, process

\* A crash leaves no request behind.
LEMMA CrashEnds ==
    ASSUME Crash
    PROVE  \A r \in Request : pc'[r] = "idle" /\ call'[r] = NoCall
BY DEF Crash

WalletLockInv == TypeInv /\ WalletsHeld

\* A request keeps the wallet lock from taking it to its finally block.
LEMMA WalletLockStep ==
    ASSUME Outlasts(WalletLockTtl), WalletLockInv, [Next]_vars
    PROVE  WalletLockInv'
<1>1. TypeInv'
  BY TypeStep DEF WalletLockInv
<1>2. ASSUME NEW r \in Request, Arrive(r) \/ Handle(r) \/ TransactionFails(r)
      PROVE  WalletsHeld'
  <2>1. ASSUME NEW q \in Request \ {r}, NeedsWallet(q)'
        PROVE  (walletLock[call[q].user] = q)'
    <3>1. NeedsWallet(q) /\ call'[q] = call[q]
      BY <1>2, <2>1, OthersKeep DEF WalletLockInv, NeedsWallet
    <3>2. call[q].user \in User
      BY <3>1 DEF WalletLockInv, TypeInv, CallsFit, CallFits, NeedsWallet
    <3>3. walletLock[call[q].user] = q
      BY <3>1 DEF WalletLockInv, WalletsHeld
    <3> QED
      BY <1>2, <3>1, <3>2, <3>3, LocksChange DEF WalletLockInv
  <2>2. ASSUME NeedsWallet(r)'
        PROVE  (walletLock[call[r].user] = r)'
    <3>1. CASE Arrive(r)
      BY <2>2, <3>1 DEF Arrive, BeginStart, BeginReturn, BeginTopup, GoTo, NeedsWallet,
                        WalletLockInv, TypeInv, TypeOK
    <3>2. CASE AcquireWalletLock(r)
      BY <3>2 DEF AcquireWalletLock, WalletLockInv, TypeInv, TypeOK, CallsFit, CallFits
    <3>3. CASE (Handle(r) \/ TransactionFails(r)) /\ ~AcquireWalletLock(r)
      <4>1. NeedsWallet(r) /\ pc'[r] # "idle"
        BY <2>2, <3>3, PcChanges DEF WalletLockInv, NeedsWallet, Prepare, CheckBank
      <4>2. call'[r].user = call[r].user
        BY <3>3, <4>1, CallChanges DEF WalletLockInv
      <4>3. ~Unlock(r) /\ ~WalletLockBusyOnReturn(r)
        BY <4>1 DEF Unlock, WalletLockBusyOnReturn, NeedsWallet
      <4>4. walletLock' = walletLock
        BY <3>3, <4>3 DEF Handle, CheckActive, RejectStart, AcquireSlotLock, SlotLockBusy,
              WalletLockBusy, Prepare, PrepareFails, ReceiveAck, NoAnswer, Rent, RentFails,
              ReleaseFrozenDeposit, CheckBank, Settle, SettleFails, TopupWallet,
              TransactionFails, locks
      <4> QED
        BY <4>1, <4>2, <4>4 DEF WalletLockInv, WalletsHeld
    <3> QED
      BY <1>2, <3>1, <3>2, <3>3
  <2> QED
    BY <2>1, <2>2 DEF WalletsHeld
<1>3. CASE Expiry
  <2>1. ASSUME NEW u \in User, NEW r \in Request, walletLock[u] = r
        PROVE  walletLock'[u] = r
    <3>1. ~WalletLockLapses(u)
      BY <2>1, RentalsAssumption DEF WalletLockLapses, Lapses, Outlasts
    <3> QED
      BY <1>3, <2>1, <3>1 DEF Expiry, RentalLockLapses, WalletLockLapses, SlotLockLapses,
                              WalletLockInv, TypeInv, TypeOK
  <2> QED
    BY <1>1, <1>3, <2>1, EnvironmentKeeps
       DEF WalletLockInv, WalletsHeld, NeedsWallet, TypeInv, CallsFit, CallFits
<1>4. CASE Field
  <2>1. walletLock' = walletLock
    BY <1>4 DEF Field, CarryOut, Refuse, Drop, Snapshot, StoreSnapshot, locks
  <2> QED
    BY <1>1, <1>4, <2>1, EnvironmentKeeps DEF WalletLockInv, WalletsHeld, NeedsWallet
<1>5. CASE Crash
  BY <1>1, <1>5, CrashEnds DEF WalletLockInv, WalletsHeld, NeedsWallet
<1>6. CASE UNCHANGED vars
  BY <1>1, <1>6 DEF vars, locks, process, WalletLockInv, WalletsHeld, NeedsWallet
<1> QED
  BY <1>1, <1>2, <1>3, <1>4, <1>5, <1>6 DEF Next, WalletLockInv

LEMMA WalletLockInit == Init => WalletLockInv
BY TypeInit DEF Init, WalletLockInv, WalletsHeld, NeedsWallet

\* "Caller MUST already hold the Redis wallet lock" is true of every write to
\* a wallet once the wallet lock's TTL is not below the acknowledgement timeout,
\* whatever fails or crashes.
THEOREM WalletLockHeld ==
    ASSUME Outlasts(WalletLockTtl)
    PROVE  Spec => []WalletLockIsHeld
<1>1. WalletLockInv => WalletLockIsHeld
  BY DEF WalletLockInv, WalletsHeld, NeedsWallet, WalletLockIsHeld, WritesWallet
<1>2. WalletLockInv /\ [Next]_vars => WalletLockInv'
  BY WalletLockStep
<1> QED
  BY <1>1, <1>2, WalletLockInit, PTL DEF Spec

StartLockInv == TypeInv /\ StartsHeld

LEMMA StartLockInit == Init => StartLockInv
BY TypeInit DEF Init, StartLockInv, StartsHeld, NoCall

\* A start keeps its rental-start lock to the end.
LEMMA StartLockStep ==
    ASSUME Outlasts(RentalLockTtl), StartLockInv, [Next]_vars
    PROVE  StartLockInv'
<1>1. TypeInv'
  BY TypeStep DEF StartLockInv
<1>2. \A r \in Request : call[r].op = "start" => call[r].user \in User
  BY DEF StartLockInv, TypeInv, CallsFit, CallFits, NoCall
<1>3. ASSUME NEW r \in Request, Arrive(r) \/ Handle(r) \/ TransactionFails(r)
      PROVE  StartsHeld'
  <2>1. ASSUME NEW q \in Request \ {r}, (call[q].op = "start")'
        PROVE  (rentalLock[call[q].user] = q)'
    <3>1. call'[q] = call[q]
      BY <1>3, OthersKeep DEF StartLockInv
    <3> QED
      BY <1>2, <1>3, <2>1, <3>1, LocksChange DEF StartLockInv, StartsHeld
  <2>2. ASSUME (call[r].op = "start")'
        PROVE  (rentalLock[call[r].user] = r)'
    <3>1. CASE Arrive(r)
      <4>1. PICK u \in User : \/ \E s \in Slot : BeginStart(r, u, s)
                             \/ call'[r].op # "start"
        <5>1. ASSUME NEW u \in User, BeginTopup(r, u) PROVE call'[r].op # "start"
          BY <5>1 DEF BeginTopup, NoCall, StartLockInv, TypeInv, TypeOK
        <5>2. ASSUME NEW u \in User, NEW s \in Slot, NEW i \in Rental,
                     NEW charge \in ChargeAmount, BeginReturn(r, u, i, s, charge)
              PROVE  call'[r].op # "start"
          BY <5>2 DEF BeginReturn, StartLockInv, TypeInv, TypeOK
        <5> QED
          BY <3>1, <5>1, <5>2 DEF Arrive
      <4>2. PICK s \in Slot : BeginStart(r, u, s)
        BY <2>2, <4>1
      <4>3. call'[r].user = u /\ rentalLock'[u] = r
        BY <4>2 DEF BeginStart, NoCall, StartLockInv, TypeInv, TypeOK
      <4> QED
        BY <4>3
    <3>2. CASE Handle(r) \/ TransactionFails(r)
      <4>1. call[r].op = "start" /\ call'[r].user = call[r].user
        BY <2>2, <3>2, CallChanges DEF StartLockInv, NoCall
      <4>2. ~Unlock(r)
        BY <2>2 DEF Unlock, Answered, NoCall, StartLockInv, TypeInv, TypeOK
      <4>3. rentalLock' = rentalLock
        BY <3>2, <4>2 DEF Handle, CheckActive, RejectStart, AcquireSlotLock, SlotLockBusy,
              AcquireWalletLock, WalletLockBusy, WalletLockBusyOnReturn, Prepare,
              PrepareFails, ReceiveAck, NoAnswer, Rent, RentFails, ReleaseFrozenDeposit,
              CheckBank, Settle, SettleFails, TopupWallet, TransactionFails, locks
      <4> QED
        BY <4>1, <4>3 DEF StartLockInv, StartsHeld
    <3> QED
      BY <1>3, <3>1, <3>2
  <2> QED
    BY <2>1, <2>2 DEF StartsHeld
<1>4. CASE Expiry
  <2>1. ASSUME NEW u \in User, NEW r \in Request, rentalLock[u] = r
        PROVE  rentalLock'[u] = r
    <3>1. ~RentalLockLapses(u)
      BY <2>1, RentalsAssumption DEF RentalLockLapses, Lapses, Outlasts
    <3> QED
      BY <1>4, <2>1, <3>1 DEF Expiry, RentalLockLapses, WalletLockLapses, SlotLockLapses,
                              StartLockInv, TypeInv, TypeOK
  <2> QED
    BY <1>1, <1>2, <1>4, <2>1, EnvironmentKeeps DEF StartLockInv, StartsHeld
<1>5. CASE Field
  <2>1. rentalLock' = rentalLock
    BY <1>5 DEF Field, CarryOut, Refuse, Drop, Snapshot, StoreSnapshot, locks
  <2> QED
    BY <1>1, <1>5, <2>1, EnvironmentKeeps DEF StartLockInv, StartsHeld
<1>6. CASE Crash
  BY <1>1, <1>6, CrashEnds DEF StartLockInv, StartsHeld, NoCall
<1>7. CASE UNCHANGED vars
  BY <1>1, <1>7 DEF vars, locks, process, StartLockInv, StartsHeld
<1> QED
  BY <1>1, <1>3, <1>4, <1>5, <1>6, <1>7 DEF Next, StartLockInv

\* Two starts of one user never wait for cabinets at once, provided that one of
\* the two locks a start holds outlasts the wait: with the default TTLs neither
\* does, and the property is violated.
THEOREM StartsExcluded ==
    ASSUME Outlasts(RentalLockTtl) \/ Outlasts(WalletLockTtl)
    PROVE  Spec => []StartsExclude
<1>1. ASSUME Outlasts(RentalLockTtl) PROVE Spec => []StartsExclude
  <2>1. StartLockInv => StartsExclude
    BY DEF StartLockInv, StartsHeld, StartsExclude
  <2>2. StartLockInv /\ [Next]_vars => StartLockInv'
    BY <1>1, StartLockStep
  <2> QED
    BY <2>1, <2>2, StartLockInit, PTL DEF Spec
<1>2. ASSUME Outlasts(WalletLockTtl) PROVE Spec => []StartsExclude
  <2>1. WalletLockInv => StartsExclude
    BY DEF WalletLockInv, WalletsHeld, NeedsWallet, StartsExclude
  <2>2. WalletLockInv /\ [Next]_vars => WalletLockInv'
    BY <1>2, WalletLockStep
  <2> QED
    BY <2>1, <2>2, WalletLockInit, PTL DEF Spec
<1> QED
  BY <1>1, <1>2
-----------------------------------------------------------------------------
(***************************************************************************)
(* Commands and the rows of the slots.                                     *)
(***************************************************************************)

\* What a step can do to a request.
LEMMA RequestChanges ==
    ASSUME TypeInv, [Next]_vars, NEW q \in Request
    PROVE  \/ pc'[q] = pc[q] /\ call'[q] = call[q]
           \/ Arrive(q)
           \/ Handle(q) \/ TransactionFails(q)
           \/ pc'[q] = "idle" /\ call'[q] = NoCall
<1>1. ASSUME NEW r \in Request, Arrive(r) \/ Handle(r) \/ TransactionFails(r), r # q
      PROVE  pc'[q] = pc[q] /\ call'[q] = call[q]
  BY <1>1, OthersKeep
<1>2. CASE UNCHANGED vars
  BY <1>2 DEF vars, process
<1> QED
  BY <1>1, <1>2, EnvironmentKeeps, CrashEnds DEF Next

\* A request that arrives waits for nothing yet.
LEMMA ArrivalPlace ==
    ASSUME TypeInv, NEW r \in Request, Arrive(r)
    PROVE  pc[r] = "idle" /\ pc'[r] \in {"checkActive", "lockSlot", "lockWallet"}
BY DEF Arrive, BeginStart, BeginReturn, BeginTopup, GoTo, TypeInv, TypeOK

\* The rows of banks, slots and rentals change in two transactions only.
LEMMA TablesChange ==
    ASSUME [Next]_vars
    PROVE  \/ UNCHANGED <<bankStatus, slotBank, rental>>
           \/ \E r \in Request : Settle(r) \/ \E i \in Rental : Rent(r, i)
<1> USE DEF tables
<1>1. ASSUME NEW r \in Request, Handle(r), ~Settle(r), ~\E i \in Rental : Rent(r, i)
      PROVE  UNCHANGED <<bankStatus, slotBank, rental>>
  BY <1>1 DEF Handle, CheckActive, RejectStart, AcquireSlotLock, SlotLockBusy,
              AcquireWalletLock, WalletLockBusy, WalletLockBusyOnReturn, Prepare,
              PrepareFails, ReceiveAck, NoAnswer, RentFails, ReleaseFrozenDeposit,
              CheckBank, SettleFails, TopupWallet, Unlock
<1>2. ASSUME NEW r \in Request, Arrive(r) \/ TransactionFails(r)
      PROVE  UNCHANGED <<bankStatus, slotBank, rental>>
  BY <1>2 DEF Arrive, BeginStart, BeginReturn, BeginTopup, TransactionFails
<1>3. ASSUME Expiry \/ Field \/ Crash \/ UNCHANGED vars
      PROVE  UNCHANGED <<bankStatus, slotBank, rental>>
  BY <1>3 DEF Expiry, RentalLockLapses, WalletLockLapses, SlotLockLapses, Field, CarryOut,
              Refuse, Drop, Snapshot, StoreSnapshot, Crash, vars
<1> QED
  BY <1>1, <1>2, <1>3 DEF Next

\* Two requests at work on slots are at work on two slots.
LEMMA SlotsDiffer ==
    ASSUME SlotInv, NEW q \in Request, NEW r \in Request, NeedsSlot(q), NeedsSlot(r), q # r
    PROVE  /\ call[q].slot \in Slot /\ call[r].slot \in Slot
           /\ call[q].slot # call[r].slot
BY DEF SlotInv, SlotsHeld, NeedsSlot, TypeInv, CallsFit, CallFits

BanksInv == SlotInv /\ CustodyInv /\ BanksStay

\* The bank a start has seen stays idle in its slot until the start rents it.
LEMMA BanksStayStep ==
    ASSUME BanksInv, [Next]_vars
    PROVE  BanksStay'
<1> SUFFICES ASSUME NEW q \in Request, (call[q].op = "start")', (pc[q] \in {"await", "rent"})'
             PROVE  SlotStillHoldsBank(q)'
  BY DEF BanksStay
<1> USE DEF BanksInv
<1>0. TypeInv
  BY DEF CustodyInv
<1>1. CASE Prepare(q)
  <2>1. slotBank[call[q].slot] \in PowerBank /\ bankStatus[slotBank[call[q].slot]] = "idle"
    BY <1>0, <1>1 DEF Prepare, CanPrepare, Rentable, TypeInv, TypeOK, CallsFit, CallFits
  <2>2. UNCHANGED <<bankStatus, slotBank>>
    BY <1>1 DEF Prepare
  <2>3. call'[q].slot = call[q].slot /\ call'[q].bank = slotBank[call[q].slot]
    BY <1>0, <1>1, CallChanges DEF Handle, Prepare, GoTo, TypeInv, TypeOK, NoCall
  <2> QED
    BY <2>1, <2>2, <2>3 DEF SlotStillHoldsBank
<1>2. CASE ~Prepare(q)
  <2>1. /\ call[q].op = "start" /\ pc[q] \in {"await", "rent"}
        /\ call'[q] = call[q]
    <3>1. CASE Arrive(q)
      BY <1>0, <3>1, ArrivalPlace
    <3>2. CASE Handle(q) \/ TransactionFails(q)
      <4>1. pc[q] = "await" \/ AcquireWalletLock(q)
        BY <1>0, <1>2, <3>2, PcChanges
      <4>2. ~AcquireWalletLock(q)
        BY <1>0 DEF AcquireWalletLock, UnderWalletLock, GoTo, TypeInv, TypeOK
      <4> QED
        BY <1>0, <3>2, <4>1, <4>2, CallChanges
    <3> QED
      BY <1>0, <3>1, <3>2, RequestChanges
  <2>2. SlotStillHoldsBank(q) /\ NeedsSlot(q) /\ call[q].slot \in Slot
    BY <1>0, <2>1 DEF BanksStay, NeedsSlot, TypeInv, CallsFit, CallFits
  <2>3. CASE UNCHANGED <<bankStatus, slotBank, rental>>
    BY <2>1, <2>2, <2>3 DEF SlotStillHoldsBank
  <2>4. ASSUME NEW r \in Request, Settle(r)
        PROVE  SlotStillHoldsBank(q)'
    <3>1. r # q /\ NeedsSlot(r)
      BY <1>0, <2>1, <2>4 DEF Settle, NeedsSlot, TypeInv, CallsFit, CallFits
    <3>2. call[q].slot # call[r].slot
      BY <2>2, <3>1, SlotsDiffer
    <3>3. call[q].bank # call[r].bank
      BY <2>2, <2>4, <3>2 DEF Settle, CanSettle, BankKeyFree, SlotStillHoldsBank
    <3> QED
      BY <1>0, <2>1, <2>2, <2>4, <3>2, <3>3 DEF Settle, SlotStillHoldsBank, TypeInv, TypeOK
  <2>5. ASSUME NEW r \in Request, NEW i \in Rental, Rent(r, i)
        PROVE  SlotStillHoldsBank(q)'
    <3>1. r # q
      BY <1>0, <2>5 DEF Rent, GoTo, TypeInv, TypeOK
    <3>2. NeedsSlot(r)
      BY <1>0, <2>5 DEF Rent, NeedsSlot, TypeInv, CallsFit, CallFits
    <3>3. call[q].slot # call[r].slot
      BY <2>2, <3>1, <3>2, SlotsDiffer
    <3>4. call[q].bank # call[r].bank
      <4>1. slotBank[call[r].slot] = call[r].bank /\ call[r].bank \in PowerBank
            /\ call[r].slot \in Slot
        BY <1>0, <2>5, <3>2 DEF Rent, CanRent, SlotStillHoldsBank, TypeInv, CallsFit,
                          CallFits, NeedsSlot
      <4> QED
        BY <2>2, <3>3, <4>1, RentalsAssumption
           DEF CustodyInv, StoredBanksAreIn, SlotStillHoldsBank
    <3> QED
      BY <1>0, <2>1, <2>2, <2>5, <3>3, <3>4 DEF Rent, SlotStillHoldsBank, TypeInv, TypeOK
  <2> QED
    BY <2>3, <2>4, <2>5, TablesChange
<1> QED
  BY <1>1, <1>2
LEMMA BanksInit == Init => BanksInv
BY SlotInit, CustodyInit DEF Init, BanksInv, BanksStay, NoCall

LEMMA BanksStep ==
    ASSUME BanksInv, [Next]_vars
    PROVE  BanksInv'
BY SlotStep, CustodyStep, BanksStayStep DEF BanksInv

\* An abandoned command belongs to nobody, the others are left alone.
LEMMA AbandonedKeeps ==
    ASSUME TypeInv, NEW S, NEW d \in Abandoned(S), d.req # Orphan
    PROVE  d \in wire /\ d.req \notin S
<1>1. PICK c \in wire : d = [c EXCEPT !.req = IF @ \in S THEN Orphan ELSE @]
  BY DEF Abandoned
<1>2. c \in Command
  BY DEF TypeInv, TypeOK
<1>3. c.req \notin S
  BY <1>1, <1>2 DEF Command
<1>4. d = c
  BY <1>1, <1>2, <1>3 DEF Command
<1> QED
  BY <1>1, <1>3, <1>4

\* The command that a request sends.
Sent(r, kind) == [req |-> r, kind |-> kind, slot |-> call[r].slot]

\* Who changes the commands and the acknowledgements.
LEMMA HandlerCommands ==
    ASSUME NEW r \in Request, Arrive(r) \/ Handle(r) \/ TransactionFails(r)
    PROVE  \/ UNCHANGED <<wire, ack>>
           \/ Prepare(r) /\ wire' = wire \cup {Sent(r, "release")} /\ ack' = ack
           \/ /\ AcquireWalletLock(r) /\ call[r].op = "return"
              /\ wire' = wire \cup {Sent(r, "lock")} /\ ack' = ack
           \/ ReceiveAck(r) /\ wire' = wire
           \/ NoAnswer(r)
<1> USE DEF field
<1>1. CASE Arrive(r) \/ TransactionFails(r)
  BY <1>1 DEF Arrive, BeginStart, BeginReturn, BeginTopup, TransactionFails
<1>2. CASE Prepare(r) \/ AcquireWalletLock(r)
  BY <1>2 DEF Prepare, AcquireWalletLock, SendCommand, Sent
<1>3. CASE ReceiveAck(r) \/ NoAnswer(r)
  BY <1>3 DEF ReceiveAck
<1>4. CASE Handle(r) /\ ~(Prepare(r) \/ AcquireWalletLock(r)) /\ ~ReceiveAck(r) /\ ~NoAnswer(r)
  BY <1>4 DEF Handle, CheckActive, RejectStart, AcquireSlotLock, SlotLockBusy,
              WalletLockBusy, WalletLockBusyOnReturn,
              PrepareFails, Rent, RentFails, ReleaseFrozenDeposit,
              CheckBank, Settle, SettleFails, TopupWallet, Unlock
<1> QED
  BY <1>1, <1>2, <1>3, <1>4

CommandInv == TypeInv /\ CommandsFit

LEMMA CommandInit == Init => CommandInv
BY TypeInit DEF Init, CommandInv, CommandsFit

\* A command under way is always the one its sender waits for, and nobody else
\* receives its acknowledgement.
LEMMA CommandStep ==
    ASSUME CommandInv, [Next]_vars
    PROVE  CommandInv'
<1> USE RentalsAssumption DEF CommandInv
<1>0. TypeInv'
  BY TypeStep
<1>1. ASSUME NEW r \in Request, Arrive(r) \/ Handle(r) \/ TransactionFails(r)
      PROVE  CommandsFit'
  <2>1. \A q \in Request \ {r} : pc'[q] = pc[q] /\ call'[q] = call[q]
    BY <1>1, OthersKeep
  <2>2. \A c \in wire : c.req # Orphan => c.req \in Request
    BY DEF TypeInv, TypeOK, Command
  <2>3. CASE UNCHANGED <<wire, ack>> /\ pc[r] # "await"
    BY <2>1, <2>2, <2>3 DEF CommandsFit, CommandFits
  <2>4. CASE Prepare(r) /\ wire' = wire \cup {Sent(r, "release")} /\ ack' = ack
    <3>1. /\ pc[r] = "prepare" /\ pc'[r] = "await" /\ call[r].op = "start"
          /\ call'[r].slot = call[r].slot /\ call'[r].op = "start"
      BY <2>4, CallChanges DEF Handle, Prepare, GoTo, TypeInv, TypeOK, NoCall, CallsFit, CallFits
    <3>2. \A c : c = Sent(r, "release") => CommandFits(c)'
      BY <2>4, <3>1 DEF CommandsFit, CommandFits, Sent
    <3>3. \A c \in wire : c.req # r
      BY <3>1 DEF CommandsFit, CommandFits
    <3>4. \A c \in wire : c.req # Orphan => CommandFits(c)'
      BY <2>1, <2>2, <2>4, <3>3 DEF CommandsFit, CommandFits
    <3>5. \A q \in Request : ack'[q] # "none" => pc'[q] = "await"
      BY <2>1, <2>4, <3>1 DEF CommandsFit
    <3> QED
      BY <2>4, <3>2, <3>4, <3>5 DEF CommandsFit
  <2>5. CASE AcquireWalletLock(r) /\ call[r].op = "return"
                /\ wire' = wire \cup {Sent(r, "lock")} /\ ack' = ack
    <3>1. /\ pc[r] = "lockWallet" /\ pc'[r] = "await" /\ call' = call
      BY <2>5 DEF AcquireWalletLock, UnderWalletLock, GoTo, TypeInv, TypeOK
    <3>2. \A c : c = Sent(r, "lock") => CommandFits(c)'
      BY <2>5, <3>1 DEF CommandsFit, CommandFits, Sent
    <3>3. \A c \in wire : c.req # r
      BY <3>1 DEF CommandsFit, CommandFits
    <3>4. \A c \in wire : c.req # Orphan => CommandFits(c)'
      BY <2>1, <2>2, <2>5, <3>3 DEF CommandsFit, CommandFits
    <3>5. \A q \in Request : ack'[q] # "none" => pc'[q] = "await"
      BY <2>1, <2>5, <3>1 DEF CommandsFit
    <3> QED
      BY <2>5, <3>2, <3>4, <3>5 DEF CommandsFit
  <2>6. CASE ReceiveAck(r) /\ wire' = wire
    <3>1. ack' = [ack EXCEPT ![r] = "none"] /\ ack[r] # "none"
      BY <2>6 DEF ReceiveAck
    <3>2. \A c \in wire : c.req # r
      BY <3>1 DEF CommandsFit, CommandFits
    <3> QED
      BY <2>1, <2>2, <2>6, <3>1, <3>2 DEF CommandsFit, CommandFits, TypeInv, TypeOK
  <2>7. CASE NoAnswer(r)
    <3>1. ack' = [ack EXCEPT ![r] = "none"] /\ wire' = Abandoned({r})
      BY <2>7 DEF NoAnswer
    <3>2. \A c \in wire' : c.req # Orphan => c \in wire /\ c.req # r
      BY <3>1, AbandonedKeeps
    <3>3. ASSUME NEW c \in wire', c.req # Orphan
          PROVE  CommandFits(c)'
      <4>1. CommandFits(c) /\ c.req \in Request \ {r}
        BY <2>2, <3>2, <3>3 DEF CommandsFit
      <4> QED
        BY <2>1, <3>1, <4>1 DEF CommandFits, TypeInv, TypeOK
    <3>4. \A q \in Request : ack'[q] # "none" => pc'[q] = "await"
      BY <2>1, <3>1 DEF CommandsFit, TypeInv, TypeOK
    <3> QED
      BY <3>3, <3>4 DEF CommandsFit
  <2>8. pc[r] = "await" => ReceiveAck(r) \/ NoAnswer(r)
    BY <1>1 DEF Arrive, BeginStart, BeginReturn, BeginTopup, TransactionFails, Handle,
              CheckActive, RejectStart, AcquireSlotLock, SlotLockBusy, AcquireWalletLock,
              WalletLockBusy, WalletLockBusyOnReturn, Prepare, PrepareFails, Rent, RentFails,
              ReleaseFrozenDeposit, CheckBank, Settle, SettleFails, TopupWallet, Unlock
  <2>9. ReceiveAck(r) => wire' = wire
    BY DEF ReceiveAck
  <2> QED
    BY <1>1, <2>3, <2>4, <2>5, <2>6, <2>7, <2>8, <2>9, HandlerCommands
<1>2. ASSUME Expiry
      PROVE  CommandsFit'
  <2>1. UNCHANGED <<pc, call, wire, ack>>
    BY <1>2 DEF Expiry, RentalLockLapses, WalletLockLapses, SlotLockLapses, process, field
  <2> QED
    BY <2>1 DEF CommandsFit, CommandFits
<1>3. ASSUME NEW c \in wire, CarryOut(c) \/ Refuse(c) \/ Drop(c)
      PROVE  CommandsFit'
  <2>1. /\ wire' = wire \ {c} /\ UNCHANGED <<pc, call>>
        /\ \/ ack' = ack
           \/ c.req # Orphan /\ \E st : ack' = [ack EXCEPT ![c.req] = st]
    BY <1>3 DEF CarryOut, Refuse, Drop, Answer, process
  <2>2. \A d \in wire \ {c} : d.req # Orphan /\ c.req # Orphan => d.req # c.req
    <3> SUFFICES ASSUME NEW d \in wire \ {c}, d.req # Orphan, d.req = c.req PROVE FALSE
      OBVIOUS
    <3>1. d.slot = c.slot /\ d.kind = c.kind
      BY DEF CommandsFit, CommandFits
    <3>2. d \in Command /\ c \in Command
      BY DEF TypeInv, TypeOK
    <3> QED
      BY <3>1, <3>2 DEF Command
  <2>3. c.req # Orphan => c.req \in Request /\ pc[c.req] = "await"
    BY DEF CommandsFit, CommandFits, TypeInv, TypeOK, Command
  <2>4. \A d \in wire' : d.req # Orphan => d \in wire /\ d # c /\ ack'[d.req] = ack[d.req]
    <3> SUFFICES ASSUME NEW d \in wire', d.req # Orphan PROVE ack'[d.req] = ack[d.req]
      BY <2>1
    <3>1. d.req \in Request
      BY <2>1 DEF TypeInv, TypeOK, Command
    <3> QED
      BY <2>1, <2>2, <3>1 DEF TypeInv, TypeOK
  <2>5. \A q \in Request : ack'[q] # "none" => pc[q] = "await"
    BY <2>1, <2>3 DEF CommandsFit, TypeInv, TypeOK
  <2> QED
    BY <2>1, <2>4, <2>5 DEF CommandsFit, CommandFits
<1>4. ASSUME NEW s \in Slot, Snapshot(s) \/ \E o \in Occupancy : StoreSnapshot(s, o)
      PROVE  CommandsFit'
  <2>1. UNCHANGED <<pc, call, wire, ack>>
    BY <1>4 DEF Snapshot, StoreSnapshot, process
  <2> QED
    BY <2>1 DEF CommandsFit, CommandFits
<1>5. ASSUME Crash
      PROVE  CommandsFit'
  <2>1. \A c \in wire' : c.req # Orphan => c \in wire /\ c.req \notin Request
    BY <1>5, AbandonedKeeps DEF Crash
  <2>2. \A c \in wire : c.req # Orphan => c.req \in Request
    BY DEF TypeInv, TypeOK, Command
  <2> QED
    BY <1>5, <2>1, <2>2 DEF Crash, CommandsFit
<1>6. ASSUME UNCHANGED vars
      PROVE  CommandsFit'
  BY <1>6 DEF vars, process, field, CommandsFit, CommandFits
<1> QED
  BY <1>0, <1>1, <1>2, <1>3, <1>4, <1>5, <1>6 DEF Next, Field
-----------------------------------------------------------------------------
(***************************************************************************)
(* Slots that hold a returned bank.                                        *)
(***************************************************************************)

\* Only commands move a slot.
LEMMA CabinetChanges ==
    ASSUME [Next]_vars
    PROVE  cabinet' = cabinet \/ \E c \in wire : CarryOut(c)
<1> USE DEF field
<1>1. ASSUME NEW r \in Request, Arrive(r) \/ Handle(r) \/ TransactionFails(r)
      PROVE  cabinet' = cabinet
  BY <1>1 DEF Arrive, BeginStart, BeginReturn, BeginTopup, TransactionFails, Handle,
              CheckActive, RejectStart, AcquireSlotLock, SlotLockBusy, AcquireWalletLock,
              WalletLockBusy, WalletLockBusyOnReturn, Prepare, PrepareFails, ReceiveAck,
              NoAnswer, Rent, RentFails, ReleaseFrozenDeposit, CheckBank, Settle,
              SettleFails, TopupWallet, Unlock
<1>2. ASSUME Expiry \/ Crash \/ UNCHANGED vars PROVE cabinet' = cabinet
  BY <1>2 DEF Expiry, RentalLockLapses, WalletLockLapses, SlotLockLapses, Crash, vars
<1>3. CASE Field
  BY <1>3 DEF Field, Refuse, Drop, Snapshot, StoreSnapshot
<1> QED
  BY <1>1, <1>2, <1>3 DEF Next

\* A new command is a release for a slot that is rentable, or a lock.
LEMMA NewCommands ==
    ASSUME TypeInv, [Next]_vars, NEW d \in wire', d \notin wire, d.req # Orphan
    PROVE  /\ d.req \in Request
           /\ d.kind = "lock" \/ (d.kind = "release" /\ Rentable(d.slot))
<1>1. ASSUME NEW r \in Request, Arrive(r) \/ Handle(r) \/ TransactionFails(r)
      PROVE  /\ d.req \in Request
             /\ d.kind = "lock" \/ (d.kind = "release" /\ Rentable(d.slot))
  <2>1. CASE Prepare(r) /\ wire' = wire \cup {Sent(r, "release")}
    <3>1. d = Sent(r, "release") /\ Rentable(call[r].slot)
      BY <2>1 DEF Prepare, CanPrepare
    <3> QED
      BY <3>1 DEF Sent
  <2>2. CASE wire' = wire \cup {Sent(r, "lock")}
    <3>1. d = Sent(r, "lock")
      BY <2>2
    <3> QED
      BY <3>1 DEF Sent
  <2>3. CASE NoAnswer(r)
    BY <2>3, AbandonedKeeps DEF NoAnswer
  <2> QED
    BY <1>1, <2>1, <2>2, <2>3, HandlerCommands
<1>2. ASSUME Expiry \/ Field \/ UNCHANGED vars PROVE FALSE
  BY <1>2 DEF Expiry, RentalLockLapses, WalletLockLapses, SlotLockLapses, Field, CarryOut,
              Refuse, Drop, Snapshot, StoreSnapshot, vars, field
<1>3. ASSUME Crash PROVE FALSE
  BY <1>3, AbandonedKeeps DEF Crash
<1> QED
  BY <1>1, <1>2, <1>3 DEF Next

\* What does not strike leaves no command behind.
LEMMA NoOrphansStep ==
    ASSUME NothingAbandoned, TypeInv, NoOrphans, [Next]_vars
    PROVE  NoOrphans'
<1>1. ~Strike("silence") /\ ~Strike("crash")
  BY DEF NothingAbandoned, Strike, TypeInv, TypeOK, FaultKind
<1>2. ASSUME NEW r \in Request, Arrive(r) \/ Handle(r) \/ TransactionFails(r)
      PROVE  NoOrphans'
  <2>1. ~NoAnswer(r)
    BY <1>1 DEF NoAnswer
  <2>2. Sent(r, "lock").req # Orphan /\ Sent(r, "release").req # Orphan
    BY RentalsAssumption DEF Sent
  <2> QED
    BY <1>2, <2>1, <2>2, HandlerCommands DEF NoOrphans
<1>3. ASSUME Expiry \/ Field \/ UNCHANGED vars PROVE wire' \subseteq wire
  BY <1>3 DEF Expiry, RentalLockLapses, WalletLockLapses, SlotLockLapses, Field, CarryOut,
              Refuse, Drop, Snapshot, StoreSnapshot, vars, field
<1>4. ~Crash
  BY <1>1 DEF Crash
<1> QED
  BY <1>2, <1>3, <1>4 DEF Next, NoOrphans

\* The invariant of a field where no command stays behind.
OrderlyInv == BanksInv /\ CommandInv /\ NoOrphans

LEMMA OrderlyInit == Init => OrderlyInv
BY BanksInit, CommandInit DEF Init, OrderlyInv, NoOrphans

LEMMA OrderlyStep ==
    ASSUME NothingAbandoned, OrderlyInv, [Next]_vars
    PROVE  OrderlyInv'
BY BanksStep, CommandStep, NoOrphansStep DEF OrderlyInv, CommandInv

\* A command for the slot of a request is its own.
LEMMA OwnCommand ==
    ASSUME OrderlyInv, NEW r \in Request, NeedsSlot(r), NEW c \in wire, c.slot = call[r].slot
    PROVE  c.req = r /\ pc[r] = "await" /\ ack[r] = "none"
<1>1. c.req \in Request /\ CommandFits(c)
  BY DEF OrderlyInv, CommandInv, CommandsFit, NoOrphans, TypeInv, TypeOK, Command
<1>2. NeedsSlot(c.req)
  BY <1>1 DEF OrderlyInv, CommandInv, CommandFits, NeedsSlot, TypeInv, CallsFit, CallFits
<1>3. c.req = r
  BY <1>1, <1>2, SlotsDiffer DEF OrderlyInv, BanksInv, CommandFits
<1> QED
  BY <1>1, <1>3 DEF CommandFits

\* A bank that is locked in was locked in by the step, or before.
LEMMA DockedChanges ==
    ASSUME OrderlyInv, [Next]_vars, NEW q \in Request, Docked(q)'
    PROVE  /\ call'[q] = call[q] /\ call[q].op = "return"
           /\ \/ Docked(q)
              \/ \E c \in wire : CarryOut(c) /\ c.req = q /\ c.kind = "lock"
<1> USE DEF OrderlyInv, CommandInv
<1>1. ~Arrive(q)
  BY ArrivalPlace DEF Docked
<1>2. call'[q] = call[q] /\ call[q].op = "return"
  <2>1. pc'[q] # "idle" /\ call'[q].op = "return"
    BY DEF Docked
  <2>2. CASE Handle(q) \/ TransactionFails(q)
    <3>1. ~(pc[q] = "prepare" /\ call'[q].op = call[q].op)
      BY <2>1 DEF TypeInv, CallsFit, CallFits
    <3> QED
      BY <2>1, <2>2, <3>1, CallChanges
  <2> QED
    BY <1>1, <2>1, <2>2, RequestChanges
<1>3. ASSUME NEW r \in Request, Arrive(r) \/ Handle(r) \/ TransactionFails(r)
      PROVE  Docked(q)
  <2>1. CASE r # q
    <3>1. pc'[q] = pc[q] /\ ack'[q] = ack[q]
      BY <1>3, <2>1, OthersKeep, HandlerCommands DEF ReceiveAck, NoAnswer, TypeInv, TypeOK
    <3> QED
      BY <1>2, <3>1 DEF Docked
  <2>2. CASE r = q
    <3>1. CASE (pc[q] \in {"checkBank", "settle"})'
      BY <1>1, <1>2, <1>3, <2>2, <3>1, PcChanges DEF Docked, CheckBank
    <3>2. CASE (pc[q] = "await" /\ ack[q] = "ok")'
      <4>1. AcquireWalletLock(q)
        BY <1>1, <1>2, <1>3, <2>2, <3>2, PcChanges DEF Prepare, TypeInv, CallsFit, CallFits
      <4>2. ack[q] = "none"
        BY <4>1 DEF AcquireWalletLock, CommandsFit
      <4>3. ack'[q] = "none"
        BY <4>1, <4>2 DEF AcquireWalletLock
      <4> QED
        BY <3>2, <4>3
    <3> QED
      BY <3>1, <3>2 DEF Docked
  <2> QED
    BY <2>1, <2>2
<1>4. ASSUME Expiry \/ (\E s \in Slot : Snapshot(s) \/ \E o \in Occupancy : StoreSnapshot(s, o))
               \/ UNCHANGED vars
      PROVE  Docked(q)
  <2>1. UNCHANGED <<pc, ack>>
    BY <1>4 DEF Expiry, RentalLockLapses, WalletLockLapses, SlotLockLapses, Snapshot,
                StoreSnapshot, vars, process, field
  <2> QED
    BY <1>2, <2>1 DEF Docked
<1>5. ASSUME NEW c \in wire, CarryOut(c) \/ Refuse(c) \/ Drop(c)
      PROVE  Docked(q) \/ (CarryOut(c) /\ c.req = q /\ c.kind = "lock")
  <2>1. pc' = pc
    BY <1>5 DEF CarryOut, Refuse, Drop, process
  <2>2. c.req \in Request /\ CommandFits(c)
    BY DEF CommandsFit, NoOrphans, TypeInv, TypeOK, Command
  <2>3. CASE ack'[q] = ack[q]
    BY <1>2, <2>1, <2>3 DEF Docked
  <2>4. CASE ack'[q] # ack[q] /\ pc[q] # "await"
    BY <1>2, <2>1, <2>4 DEF Docked
  <2>5. CASE ack'[q] # ack[q] /\ pc[q] = "await"
    <3>1. c.req = q /\ ~Drop(c)
      BY <1>5, <2>5 DEF CarryOut, Refuse, Drop, Answer, TypeInv, TypeOK
    <3>2. ack'[q] = "ok"
      BY <2>1, <2>5 DEF Docked
    <3>3. ~Refuse(c)
      BY <2>2, <3>1, <3>2 DEF Refuse, Answer, NoOrphans, TypeInv, TypeOK
    <3> QED
      BY <1>2, <1>5, <2>2, <3>1, <3>3 DEF CommandFits
  <2> QED
    BY <2>3, <2>4, <2>5
<1>6. ~Crash
  BY <1>2, CrashEnds DEF NoCall
<1> QED
  BY <1>1, <1>2, <1>3, <1>4, <1>5, <1>6 DEF Next, Field
\* A slot comes to hold a returned bank only when a return settles there.
LEMMA ReturnedChanges ==
    ASSUME CustodyInv, [Next]_vars, NEW s \in Slot, Returned(s)'
    PROVE  Returned(s) \/ \E r \in Request : Settle(r) /\ call[r].slot = s
<1> USE DEF CustodyInv, TypeInv, TypeOK
<1>1. CASE UNCHANGED <<bankStatus, slotBank, rental>>
  BY <1>1 DEF Returned
<1>2. ASSUME NEW r \in Request, Settle(r), call[r].slot # s
      PROVE  Returned(s)
  <2>1. slotBank'[s] = slotBank[s] /\ slotBank[s] # call[r].bank
    BY <1>2 DEF Settle, CanSettle, BankKeyFree
  <2>2. slotBank[s] \in PowerBank
    BY <2>1 DEF Returned
  <2>3. bankStatus'[slotBank[s]] = bankStatus[slotBank[s]]
    BY <1>2, <2>1, <2>2 DEF Settle
  <2> QED
    BY <2>1, <2>3 DEF Returned
<1>3. ASSUME NEW r \in Request, NEW i \in Rental, Rent(r, i)
      PROVE  Returned(s)
  <2>1. slotBank'[s] = slotBank[s] /\ slotBank[s] \in PowerBank
    BY <1>3 DEF Rent, Returned
  <2>2. bankStatus'[slotBank[s]] = bankStatus[slotBank[s]]
    BY <1>3, <2>1 DEF Rent, Returned
  <2> QED
    BY <2>1, <2>2 DEF Returned
<1> QED
  BY <1>1, <1>2, <1>3, TablesChange

ReturnedInv == OrderlyInv /\ ReturnedStay

LEMMA ReturnedInit == Init => ReturnedInv
<1> SUFFICES ASSUME Init PROVE ReturnedInv
  OBVIOUS
<1>1. \A s \in Slot : ~Returned(s)
  BY DEF Init, Returned
<1>2. \A r \in Request : ~Docked(r)
  BY DEF Init, Docked, NoCall
<1> QED
  BY <1>1, <1>2, OrderlyInit DEF ReturnedInv, ReturnedStay

\* No command takes a returned bank out of its slot, and no bank is locked into
\* a slot that holds a returned one.
LEMMA ReturnedStep ==
    ASSUME NothingAbandoned, ReturnedInv, [Next]_vars
    PROVE  ReturnedInv'
<1> USE DEF ReturnedInv
<1>0. OrderlyInv' /\ OrderlyInv /\ CustodyInv /\ TypeInv /\ CommandsFit /\ NoOrphans
  BY OrderlyStep DEF OrderlyInv, CommandInv, BanksInv
<1>t. /\ cabinet \in [Slot -> Occupancy]
      /\ \A c \in wire : c \in Command /\ c.slot \in Slot
  BY <1>0 DEF TypeInv, TypeOK, Command
<1>1. ASSUME NEW s \in Slot, Returned(s)'
      PROVE  /\ cabinet'[s] = "occupied"
             /\ \A c \in wire' : c.slot = s => c.kind = "lock"
  <2>1. CASE Returned(s)
    <3>1. cabinet[s] = "occupied" /\ \A c \in wire : c.slot = s => c.kind = "lock"
      BY <2>1 DEF ReturnedStay
    <3>2. cabinet'[s] = "occupied"
      <4>1. ASSUME NEW c \in wire, CarryOut(c)
            PROVE  cabinet'[s] = "occupied"
        BY <1>t, <3>1, <4>1 DEF CarryOut, After
      <4> QED
        BY <3>1, <4>1, CabinetChanges
    <3>3. ASSUME NEW d \in wire', d.slot = s
          PROVE  d.kind = "lock"
      <4>1. CASE d \in wire
        BY <3>1, <3>3, <4>1
      <4>2. CASE d \notin wire
        <5>1. d.req # Orphan
          BY <1>0 DEF OrderlyInv, NoOrphans
        <5>2. ~Rentable(s)
          BY <2>1 DEF Returned, Rentable
        <5> QED
          BY <1>0, <3>3, <4>2, <5>1, <5>2, NewCommands
      <4> QED
        BY <4>1, <4>2
    <3> QED
      BY <3>2, <3>3
  <2>2. ASSUME NEW r \in Request, Settle(r), call[r].slot = s
        PROVE  /\ cabinet'[s] = "occupied"
               /\ \A c \in wire' : c.slot = s => c.kind = "lock"
    <3>1. UNCHANGED <<cabinet, wire>> /\ pc[r] = "settle" /\ call[r].op = "return"
      BY <1>0, <2>2 DEF Settle, field, TypeInv, CallsFit, CallFits
    <3>2. cabinet[s] = "occupied"
      BY <2>2, <3>1 DEF Docked, ReturnedStay
    <3>3. \A c \in wire : c.slot # s
      BY <1>0, <2>2, <3>1, OwnCommand DEF NeedsSlot
    <3> QED
      BY <3>1, <3>2, <3>3
  <2> QED
    BY <1>0, <1>1, <2>1, <2>2, ReturnedChanges
<1>2. ASSUME NEW q \in Request, Docked(q)'
      PROVE  (cabinet[call[q].slot] = "occupied" /\ ~Returned(call[q].slot))'
  <2> DEFINE s == call[q].slot
  <2>1. /\ call'[q] = call[q] /\ s \in Slot
        /\ Docked(q) \/ \E c \in wire : CarryOut(c) /\ c.req = q /\ c.kind = "lock"
    BY <1>0, <1>2, DockedChanges DEF TypeInv, CallsFit, CallFits
  <2>2. ASSUME NEW c \in wire, CarryOut(c), c.req = q, c.kind = "lock"
        PROVE  cabinet'[s] = "occupied" /\ ~Returned(s)'
    <3>1. c.slot = s
      BY <1>0, <2>2 DEF CommandsFit, CommandFits, NoOrphans
    <3>2. cabinet[s] = "empty" /\ cabinet'[s] = "occupied"
      BY <1>t, <2>2, <3>1 DEF CarryOut, Possible, After
    <3>3. ~Returned(s)
      BY <2>1, <3>2 DEF ReturnedStay
    <3> QED
      BY <2>1, <2>2, <3>2, <3>3 DEF CarryOut, tables, process, Returned
  <2>3. CASE Docked(q)
    <3>1. cabinet[s] = "occupied" /\ ~Returned(s) /\ NeedsSlot(q)
      BY <2>3 DEF ReturnedStay, Docked, NeedsSlot
    <3>2. cabinet'[s] = "occupied"
      <4>1. ASSUME NEW c \in wire, CarryOut(c)
            PROVE  cabinet'[s] = cabinet[s]
        <5>1. c.slot # s
          BY <1>0, <2>3, <3>1, OwnCommand DEF Docked
        <5> QED
          BY <1>t, <2>1, <4>1, <5>1 DEF CarryOut
      <4> QED
        BY <3>1, <4>1, CabinetChanges
    <3>3. ASSUME Returned(s)' PROVE FALSE
      <4>1. PICK r \in Request : Settle(r) /\ call[r].slot = s
        BY <1>0, <2>1, <3>1, <3>3, ReturnedChanges
      <4>2. NeedsSlot(r) /\ pc'[r] = "unlock"
        BY <1>0, <4>1 DEF Settle, GoTo, NeedsSlot, TypeInv, TypeOK, CallsFit, CallFits
      <4>3. r # q
        BY <1>2, <4>2 DEF Docked
      <4> QED
        BY <1>0, <3>1, <4>1, <4>2, <4>3, SlotsDiffer DEF OrderlyInv, BanksInv
    <3> QED
      BY <2>1, <3>2, <3>3 DEF Returned
  <2> QED
    BY <2>1, <2>2, <2>3
<1> QED
  BY <1>0, <1>1, <1>2 DEF ReturnedStay
-----------------------------------------------------------------------------
(***************************************************************************)
(* A return that settles ends a rental that is still active.               *)
(***************************************************************************)

\* A return stands before its settlement because it has just found the bank out,
\* or because it has stood there before.
LEMMA SettleBegins ==
    ASSUME CustodyInv, [Next]_vars, NEW q \in Request, pc'[q] = "settle"
    PROVE  /\ call'[q] = call[q] /\ call[q].op = "return" /\ NeedsSlot(q)
           /\ call[q].rental \in Rental
           /\ \/ /\ CheckBank(q)
                 /\ rental' = rental /\ rental[call[q].rental].status = "active"
              \/ pc[q] = "settle"
<1> USE DEF CustodyInv
<1>1. CASE CheckBank(q)
  <2>1. /\ call' = call /\ rental' = rental /\ pc[q] = "checkBank"
        /\ bankStatus[call[q].bank] = "rented"
    BY <1>1 DEF CheckBank, BankStillOut, GoTo, tables, TypeInv, TypeOK
  <2>2. call[q].op = "return" /\ call[q].rental \in Rental
    BY <2>1 DEF TypeInv, CallsFit, CallFits
  <2>3. rental[call[q].rental].status = "active"
    BY <2>1, <2>2 DEF ReturnsFit, BankFollowsRental, TypeInv, TypeOK, RentalRow
  <2> QED
    BY <1>1, <2>1, <2>2, <2>3 DEF NeedsSlot
<1>2. CASE ~CheckBank(q)
  <2>1. pc'[q] = pc[q] /\ call'[q] = call[q]
    BY <1>2, RequestChanges, ArrivalPlace, PcChanges
  <2> QED
    BY <2>1 DEF NeedsSlot, TypeInv, CallsFit, CallFits
<1> QED
  BY <1>1, <1>2

\* What a step does to the rental a return is about to settle: only another
\* settlement of the same rental ends it.
LEMMA RentalEnds ==
    ASSUME CustodyInv, [Next]_vars, NEW q \in Request, call[q].op = "return",
           call[q].rental \in Rental,
           rental[call[q].rental].status = "active"
    PROVE  \/ rental'[call[q].rental].status = "active"
           \/ \E r \in Request : Settle(r) /\ call[r].op = "return"
                                           /\ call[r].rental = call[q].rental
<1> USE DEF CustodyInv
<1>1. ASSUME NEW r \in Request, Settle(r), call[r].rental # call[q].rental
      PROVE  rental'[call[q].rental].status = "active"
  BY <1>1 DEF Settle, TypeInv, TypeOK
<1>2. ASSUME NEW r \in Request, NEW i \in Rental, Rent(r, i)
      PROVE  rental'[call[q].rental].status = "active"
  BY <1>2 DEF Rent, TypeInv, TypeOK
<1>3. ASSUME NEW r \in Request, Settle(r) PROVE call[r].op = "return"
  BY <1>3 DEF Settle, TypeInv, CallsFit, CallFits
<1> QED
  BY <1>1, <1>2, <1>3, TablesChange

SettlesActive ==
    \A r \in Request : pc[r] = "settle" => rental[call[r].rental].status = "active"

WalletSettleInv == WalletLockInv /\ BanksInv /\ SettlesActive

\* Two returns of one rental take the same wallet lock.
LEMMA WalletSettleStep ==
    ASSUME Outlasts(WalletLockTtl), WalletSettleInv, [Next]_vars
    PROVE  WalletSettleInv'
<1> USE DEF WalletSettleInv, BanksInv
<1>1. ASSUME NEW q \in Request, pc'[q] = "settle"
      PROVE  (rental[call[q].rental].status = "active")'
  <2>1. /\ call'[q] = call[q] /\ call[q].op = "return" /\ call[q].rental \in Rental
        /\ \/ CheckBank(q) /\ rental' = rental /\ rental[call[q].rental].status = "active"
           \/ pc[q] = "settle"
    BY <1>1, SettleBegins
  <2>2. CASE CheckBank(q) /\ rental' = rental /\ rental[call[q].rental].status = "active"
    BY <2>1, <2>2
  <2>3. CASE pc[q] = "settle"
    <3>1. rental[call[q].rental].status = "active"
      BY <2>3 DEF SettlesActive
    <3>2. ASSUME NEW r \in Request, Settle(r), call[r].op = "return",
                 call[r].rental = call[q].rental
          PROVE  FALSE
      <4>1. call[r].user = call[q].user
        BY <2>1, <3>2 DEF CustodyInv, ReturnsFit
      <4>2. NeedsWallet(r) /\ NeedsWallet(q)
        BY <2>3, <3>2 DEF Settle, NeedsWallet
      <4>3. r = q
        BY <4>1, <4>2 DEF WalletLockInv, WalletsHeld
      <4> QED
        BY <1>1, <3>2, <4>3 DEF Settle, GoTo, CustodyInv, TypeInv, TypeOK
    <3> QED
      BY <2>1, <3>1, <3>2, RentalEnds
  <2> QED
    BY <2>1, <2>2, <2>3
<1> QED
  BY <1>1, WalletLockStep, BanksStep DEF SettlesActive

ReturnedSettleInv == ReturnedInv /\ SettlesOnce

\* Two returns of one rental whose wallet lock lapsed lock the bank into two
\* slots; the row of the first stays, and its key stops the second.
LEMMA ReturnedSettleStep ==
    ASSUME NothingAbandoned, ReturnedSettleInv, [Next]_vars
    PROVE  ReturnedSettleInv'
<1> USE DEF ReturnedSettleInv
<1>0. SlotInv /\ CustodyInv /\ ReturnedInv /\ TypeInv
  BY DEF ReturnedInv, OrderlyInv, BanksInv, CustodyInv
<1>1. ASSUME NEW q \in Request, pc'[q] = "settle", BankKeyFree(call[q].bank, call[q].slot)'
      PROVE  (rental[call[q].rental].status = "active")'
  <2> DEFINE i == call[q].rental
             b == call[q].bank
             s == call[q].slot
  <2>1. /\ call'[q] = call[q] /\ call[q].op = "return" /\ i \in Rental /\ NeedsSlot(q)
        /\ \/ CheckBank(q) /\ rental' = rental /\ rental[i].status = "active"
           \/ pc[q] = "settle"
    BY <1>0, <1>1, SettleBegins
  <2>2. CASE CheckBank(q) /\ rental' = rental /\ rental[i].status = "active"
    BY <2>1, <2>2
  <2>3. CASE pc[q] = "settle" /\ rental[i].status = "active"
    <3>1. ASSUME NEW r \in Request, Settle(r), call[r].op = "return", call[r].rental = i
          PROVE  FALSE
      <4>1. call[r].bank = b /\ b \in PowerBank
        BY <1>0, <2>1, <3>1 DEF CustodyInv, ReturnsFit, TypeInv, CallsFit, CallFits
      <4>2. r # q /\ NeedsSlot(r)
        BY <1>0, <1>1, <3>1 DEF Settle, GoTo, NeedsSlot, TypeInv, TypeOK
      <4>3. call[r].slot # s /\ call[r].slot \in Slot
        BY <1>0, <2>1, <4>2, SlotsDiffer
      <4>4. slotBank'[call[r].slot] = b
        BY <1>0, <3>1, <4>1, <4>3 DEF Settle, TypeInv, TypeOK
      <4> QED
        BY <1>1, <2>1, <4>3, <4>4 DEF BankKeyFree
    <3> QED
      BY <1>0, <2>1, <2>3, <3>1, RentalEnds
  <2>4. CASE pc[q] = "settle" /\ rental[i].status # "active"
    <3>1. PICK t \in Slot \ {s} : slotBank[t] = b
      BY <2>4 DEF SettlesOnce, BankKeyFree
    <3>2. bankStatus[b] = "charging" /\ b \in PowerBank
      BY <1>0, <2>1, <2>4
         DEF CustodyInv, ReturnsFit, BankFollowsRental, TypeInv, TypeOK, RentalRow,
             CallsFit, CallFits
    <3>3. Returned(t)
      BY <3>1, <3>2, RentalsAssumption DEF Returned
    <3>4. slotBank'[t] # b
      BY <1>1, <2>1, <3>1 DEF BankKeyFree
    <3>5. ASSUME NEW r \in Request, NEW j \in Rental, Rent(r, j)
          PROVE  FALSE
      <4>1. call[r].slot # t
        BY <3>1, <3>2, <3>5 DEF Rent, CanRent, SlotStillHoldsBank
      <4> QED
        BY <1>0, <3>1, <3>4, <3>5, <4>1 DEF Rent, TypeInv, TypeOK
    <3>6. ASSUME NEW r \in Request, Settle(r)
          PROVE  FALSE
      <4>1. Docked(r)
        BY <1>0, <3>6 DEF Settle, Docked, TypeInv, CallsFit, CallFits
      <4>2. call[r].slot # t
        BY <3>3, <4>1 DEF ReturnedInv, ReturnedStay
      <4> QED
        BY <1>0, <3>1, <3>4, <3>6, <4>2 DEF Settle, TypeInv, TypeOK
    <3> QED
      BY <3>1, <3>4, <3>5, <3>6, TablesChange
  <2> QED
    BY <2>1, <2>2, <2>3, <2>4
<1> QED
  BY <1>0, <1>1, ReturnedStep DEF SettlesOnce

\* What settling once rests on: locks that outlast the wait, or a field where no
\* command stays behind.
SettleHypothesis == Outlasts(WalletLockTtl) \/ NothingAbandoned

SettleInv ==
    /\ BanksInv
    /\ Outlasts(WalletLockTtl) => WalletLockInv /\ SettlesActive
    /\ NothingAbandoned => ReturnedInv /\ SettlesOnce

LEMMA SettleInit == Init => SettleInv
<1> SUFFICES ASSUME Init PROVE SettleInv
  OBVIOUS
<1>1. SettlesActive /\ SettlesOnce
  BY DEF Init, SettlesActive, SettlesOnce
<1> QED
  BY <1>1, BanksInit, WalletLockInit, ReturnedInit DEF SettleInv

LEMMA SettleStep == SettleInv /\ [Next]_vars => SettleInv'
<1> SUFFICES ASSUME SettleInv, [Next]_vars PROVE SettleInv'
  OBVIOUS
<1>1. BanksInv'
  BY BanksStep DEF SettleInv
<1>2. ASSUME Outlasts(WalletLockTtl) PROVE (WalletLockInv /\ SettlesActive)'
  BY <1>2, WalletSettleStep DEF SettleInv, WalletSettleInv
<1>3. ASSUME NothingAbandoned PROVE (ReturnedInv /\ SettlesOnce)'
  BY <1>3, ReturnedSettleStep DEF SettleInv, ReturnedSettleInv
<1> QED
  BY <1>1, <1>2, <1>3 DEF SettleInv, Outlasts, NothingAbandoned

\* A return that can settle ends an active rental.
LEMMA SettlesAnActiveRental ==
    ASSUME SettleHypothesis, SettleInv, NEW r \in Request, Settle(r)
    PROVE  rental[call[r].rental].status = "active"
BY DEF SettleHypothesis, SettleInv, SettlesActive, SettlesOnce, Settle, CanSettle
-----------------------------------------------------------------------------
(***************************************************************************)
(* Where no transaction fails either, the tables follow the cabinet.       *)
(***************************************************************************)

FirstInv == CustodyInv /\ StartLockInv /\ StartsAreFirst

\* A start that has found no active rental of its user stays right, because no
\* other start of the user gets past the rental-start lock.
LEMMA StartsAreFirstStep ==
    ASSUME Outlasts(RentalLockTtl), FirstInv, [Next]_vars
    PROVE  StartsAreFirst'
<1> SUFFICES ASSUME NEW q \in Request, SeenNoRental(q)'
             PROVE  (Active(call[q].user) = {})'
  BY DEF StartsAreFirst
<1>0. CustodyInv /\ TypeInv /\ StartsHeld
  BY DEF FirstInv, StartLockInv
<1>1. /\ call[q].op = "start" /\ call'[q].user = call[q].user
      /\ \/ CheckActive(q)
         \/ SeenNoRental(q)
  <2>1. CASE Arrive(q)
    <3>1. ASSUME NEW u \in User, NEW s \in Slot, BeginStart(q, u, s) PROVE FALSE
      BY <1>0, <3>1 DEF BeginStart, GoTo, SeenNoRental, TypeInv, TypeOK
    <3>2. ASSUME NEW u \in User, NEW s \in Slot, NEW i \in Rental,
                 NEW charge \in ChargeAmount, BeginReturn(q, u, i, s, charge)
          PROVE  FALSE
      BY <1>0, <3>2 DEF BeginReturn, SeenNoRental, TypeInv, TypeOK
    <3>3. ASSUME NEW u \in User, BeginTopup(q, u) PROVE FALSE
      BY <1>0, <3>3 DEF BeginTopup, NoCall, SeenNoRental, TypeInv, TypeOK
    <3> QED
      BY <2>1, <3>1, <3>2, <3>3 DEF Arrive
  <2>2. CASE Handle(q) \/ TransactionFails(q)
    <3>1. call[q].op = "start" /\ call'[q].user = call[q].user
      BY <1>0, <2>2, CallChanges DEF SeenNoRental, NoCall
    <3>2. pc'[q] = "lockSlot" => CheckActive(q)
      <4>1. pc'[q] = "lockSlot" => pc[q] = "checkActive"
        BY <1>0, <2>2, PcChanges
      <4> QED
        BY <1>0, <2>2, <4>1
           DEF Handle, TransactionFails, RejectStart, AcquireSlotLock, SlotLockBusy,
               AcquireWalletLock, WalletLockBusy, WalletLockBusyOnReturn, Prepare,
               PrepareFails, ReceiveAck, NoAnswer, Rent, RentFails, ReleaseFrozenDeposit,
               CheckBank, Settle, SettleFails, TopupWallet, Unlock, GoTo, TypeInv, TypeOK
    <3>3. pc'[q] # "lockSlot" => pc[q] \in {"lockSlot", "lockWallet", "prepare", "await"}
      <4>1. Prepare(q) => pc[q] = "prepare"
        BY DEF Prepare
      <4>2. AcquireWalletLock(q) => pc[q] = "lockWallet"
        BY DEF AcquireWalletLock
      <4> QED
        BY <1>0, <2>2, <4>1, <4>2, PcChanges DEF SeenNoRental
    <3> QED
      BY <3>1, <3>2, <3>3 DEF SeenNoRental
  <2> QED
    BY <1>0, <2>1, <2>2, RequestChanges DEF SeenNoRental, NoCall
<1> DEFINE u == call[q].user
<1>2. Active(u) = {}
  BY <1>1 DEF CheckActive, NoActiveRental, FirstInv, StartsAreFirst
<1>3. ASSUME NEW r \in Request, NEW j \in Rental, Rent(r, j)
      PROVE  Active(u)' = {}
  <2>1. r # q
    BY <1>0, <1>1, <1>3 DEF Rent, CheckActive, GoTo, SeenNoRental, TypeInv, TypeOK
  <2>2. call[r].op = "start"
    BY <1>0, <1>3 DEF Rent, TypeInv, CallsFit, CallFits
  <2>3. call[r].user # u
    BY <1>0, <1>1, <2>1, <2>2 DEF StartsHeld
  <2> QED
    BY <1>0, <1>2, <1>3, <2>3 DEF Rent, Active, TypeInv, TypeOK
<1>4. ASSUME NEW r \in Request, Settle(r)
      PROVE  Active(u)' = {}
  <2>1. call[r].rental \in Rental
    BY <1>0, <1>4 DEF Settle, TypeInv, CallsFit, CallFits
  <2>2. \A j \in Rental : /\ rental'[j].status = "active" => rental[j].status = "active"
                         /\ rental'[j].user = rental[j].user
    <3>1. \A row \in RentalRow : [row EXCEPT !.status = "completed"].status = "completed"
                               /\ [row EXCEPT !.status = "completed"].user = row.user
      BY DEF RentalRow
    <3> QED
      BY <1>0, <1>4, <2>1, <3>1 DEF Settle, TypeInv, TypeOK
  <2> QED
    BY <1>1, <1>2, <2>2 DEF Active
<1>5. CASE rental' = rental
  BY <1>1, <1>2, <1>5 DEF Active
<1>6. Active(u)' = {}
  BY <1>3, <1>4, <1>5, TablesChange
<1> QED
  BY <1>1, <1>6 DEF Active
\* A start whose bank is out waits until it has recorded it.
LEMMA DispensedStays ==
    ASSUME NothingFails, OrderlyInv, FirstInv, [Next]_vars, NEW r \in Request, Dispensed(r)
    PROVE  \/ Dispensed(r)' /\ call'[r] = call[r]
           \/ \E i \in Rental : Rent(r, i)
<1>0. /\ TypeInv /\ CommandsFit /\ NoOrphans /\ BanksStay /\ StartsAreFirst
      /\ call[r].op = "start" /\ pc[r] \in {"await", "rent"}
      /\ pc[r] = "await" => ack[r] = "ok"
  BY DEF OrderlyInv, CommandInv, BanksInv, FirstInv, StartLockInv, Dispensed
<1>1. ~Strike("silence") /\ ~Strike("crash") /\ ~Strike("database")
  BY <1>0 DEF NothingFails, NothingAbandoned, Strike, TypeInv, TypeOK, FaultKind
<1>2. CASE Handle(r)
  <2>1. CASE ReceiveAck(r)
    BY <1>0, <2>1 DEF ReceiveAck, OnAck, GoTo, Dispensed, TypeInv, TypeOK
  <2>2. ~NoAnswer(r)
    BY <1>1 DEF NoAnswer
  <2>3. ~RentFails(r)
    BY <1>0 DEF RentFails, CanRent, BanksStay, StartsAreFirst, SeenNoRental, ActiveKeyFree
  <2>4. CASE \E i \in Rental : Rent(r, i)
    BY <2>4
  <2> QED
    BY <1>0, <1>2, <2>1, <2>2, <2>3, <2>4
       DEF Handle, CheckActive, RejectStart, AcquireSlotLock, SlotLockBusy,
           AcquireWalletLock, WalletLockBusy, WalletLockBusyOnReturn, Prepare,
           PrepareFails, ReleaseFrozenDeposit, CheckBank, Settle, SettleFails,
           TopupWallet, Unlock
<1>3. ~Arrive(r) /\ ~TransactionFails(r) /\ ~Crash
  BY <1>0, <1>1, ArrivalPlace DEF TransactionFails, Crash
<1>4. ASSUME NEW q \in Request \ {r}, Arrive(q) \/ Handle(q) \/ TransactionFails(q)
      PROVE  Dispensed(r)' /\ call'[r] = call[r]
  <2>1. pc'[r] = pc[r] /\ call'[r] = call[r] /\ ack'[r] = ack[r]
    BY <1>0, <1>4, OthersKeep, HandlerCommands DEF ReceiveAck, NoAnswer, TypeInv, TypeOK
  <2> QED
    BY <2>1 DEF Dispensed
<1>5. ASSUME Expiry \/ Field \/ UNCHANGED vars
      PROVE  Dispensed(r)' /\ call'[r] = call[r]
  <2>1. pc' = pc /\ call' = call
    BY <1>5, EnvironmentKeeps DEF vars, process
  <2>2. ASSUME NEW c \in wire, CarryOut(c) \/ Refuse(c), pc[r] = "await"
        PROVE  ack'[r] = ack[r]
    <3>1. c.req \in Request /\ ack[c.req] = "none"
      BY <1>0 DEF CommandsFit, CommandFits, NoOrphans, TypeInv, TypeOK, Command
    <3>2. c.req # r
      BY <1>0, <2>2, <3>1
    <3> QED
      BY <1>0, <2>2, <3>1, <3>2 DEF CarryOut, Refuse, Answer, TypeInv, TypeOK
  <2>3. ~(\E c \in wire : CarryOut(c) \/ Refuse(c)) => ack' = ack
    BY <1>5 DEF Expiry, RentalLockLapses, WalletLockLapses, SlotLockLapses, Field, Drop,
                Snapshot, StoreSnapshot, vars, field
  <2>4. pc[r] = "await" => ack'[r] = ack[r]
    BY <2>2, <2>3
  <2> QED
    BY <2>1, <2>4 DEF Dispensed
<1> QED
  BY <1>2, <1>3, <1>4, <1>5 DEF Next

\* A bank that is locked in stays there while its request works on the slot.
LEMMA DockedStays ==
    ASSUME OrderlyInv, [Next]_vars, NEW q \in Request, Docked(q)
    PROVE  cabinet'[call[q].slot] = cabinet[call[q].slot]
<1>1. NeedsSlot(q) /\ call[q].slot \in Slot /\ cabinet \in [Slot -> Occupancy]
  BY DEF Docked, NeedsSlot, OrderlyInv, CommandInv, TypeInv, TypeOK, CallsFit, CallFits
<1>2. ASSUME NEW c \in wire, CarryOut(c)
      PROVE  cabinet'[call[q].slot] = cabinet[call[q].slot]
  <2>1. c.slot # call[q].slot
    BY <1>1, OwnCommand DEF Docked
  <2> QED
    BY <1>1, <1>2, <2>1 DEF CarryOut
<1> QED
  BY <1>2, CabinetChanges
FieldInv == OrderlyInv /\ FirstInv /\ SlotsAgree

LEMMA FieldInit == Init => FieldInv
<1> SUFFICES ASSUME Init PROVE FieldInv
  OBVIOUS
<1>1. StartsAreFirst
  BY DEF Init, StartsAreFirst, SeenNoRental, NoCall
<1>2. SlotsAgree
  BY DEF Init, SlotsAgree, Docked, NoCall
<1> QED
  BY <1>1, <1>2, OrderlyInit, CustodyInit, StartLockInit DEF FieldInv, FirstInv

\* Settling stores the bank in the slot it was locked into, and nowhere else.
LEMMA SlotRowFills ==
    ASSUME TypeInv, [Next]_vars, NEW s \in Slot, slotBank[s] = None, slotBank'[s] # None
    PROVE  \E r \in Request : Settle(r) /\ call[r].slot = s
<1> USE DEF TypeInv, TypeOK
<1>1. ASSUME NEW r \in Request, NEW i \in Rental, Rent(r, i) PROVE FALSE
  BY <1>1 DEF Rent
<1>2. ASSUME NEW r \in Request, Settle(r) PROVE call[r].slot = s
  BY <1>2 DEF Settle
<1> QED
  BY <1>1, <1>2, TablesChange

\* A slot that the cabinet empties is one a start records, a slot into which it
\* locks a bank is one whose row is free.
LEMMA SlotsAgreeStep ==
    ASSUME NothingFails, FieldInv, [Next]_vars
    PROVE  SlotsAgree'
<1> USE DEF FieldInv
<1>0. /\ TypeInv /\ CommandsFit /\ NoOrphans /\ SlotInv
      /\ cabinet \in [Slot -> Occupancy]
      /\ \A c \in wire : c \in Command /\ c.slot \in Slot
  BY DEF OrderlyInv, CommandInv, BanksInv, TypeInv, TypeOK, Command
<1>1. ASSUME NEW s \in Slot, slotBank'[s] # None, cabinet'[s] = "empty"
      PROVE  \E r \in Request : Dispensed(r)' /\ call'[r].slot = s
  <2>1. CASE slotBank[s] # None /\ cabinet[s] = "empty"
    <3>1. PICK r \in Request : Dispensed(r) /\ call[r].slot = s
      BY <2>1 DEF SlotsAgree
    <3>2. ASSUME NEW i \in Rental, Rent(r, i) PROVE FALSE
      BY <1>0, <1>1, <3>1, <3>2 DEF Rent, TypeInv, TypeOK
    <3> QED
      BY <3>1, <3>2, DispensedStays
  <2>2. CASE cabinet[s] # "empty"
    <3>1. PICK c \in wire : CarryOut(c)
      BY <1>1, <2>2, CabinetChanges
    <3>2. c.slot = s /\ c.kind = "release"
      BY <1>0, <1>1, <2>2, <3>1 DEF CarryOut, After
    <3>3. c.req \in Request /\ CommandFits(c)
      BY <1>0 DEF CommandsFit, NoOrphans, Command
    <3>4. ack'[c.req] = "ok" /\ UNCHANGED <<pc, call>>
      BY <1>0, <3>1, <3>3 DEF CarryOut, Answer, process, NoOrphans, TypeInv, TypeOK
    <3>5. call[c.req].op = "start" /\ pc[c.req] = "await" /\ call[c.req].slot = s
      BY <3>2, <3>3 DEF CommandFits
    <3> QED
      BY <3>3, <3>4, <3>5 DEF Dispensed
  <2>3. CASE slotBank[s] = None /\ cabinet[s] = "empty"
    <3>1. PICK r \in Request : Settle(r) /\ call[r].slot = s
      BY <1>0, <1>1, <2>3, SlotRowFills
    <3>2. Docked(r)
      BY <1>0, <3>1 DEF Settle, Docked, TypeInv, CallsFit, CallFits
    <3> QED
      BY <2>3, <3>1, <3>2 DEF SlotsAgree
  <2> QED
    BY <2>1, <2>2, <2>3
<1>2. ASSUME NEW q \in Request, Docked(q)'
      PROVE  (cabinet[call[q].slot] = "occupied" /\ slotBank[call[q].slot] = None)'
  <2> DEFINE s == call[q].slot
  <2>1. /\ call'[q] = call[q] /\ call[q].op = "return" /\ s \in Slot
        /\ Docked(q) \/ \E c \in wire : CarryOut(c) /\ c.req = q /\ c.kind = "lock"
    BY <1>0, <1>2, DockedChanges DEF TypeInv, CallsFit, CallFits
  <2>2. ASSUME NEW c \in wire, CarryOut(c), c.req = q, c.kind = "lock"
        PROVE  cabinet'[s] = "occupied" /\ slotBank'[s] = None
    <3>1. c.slot = s /\ pc[q] = "await"
      BY <1>0, <2>2 DEF CommandsFit, CommandFits, NoOrphans
    <3>2. cabinet[s] = "empty" /\ cabinet'[s] = "occupied" /\ slotBank' = slotBank
      BY <1>0, <2>2, <3>1 DEF CarryOut, Possible, After, tables
    <3>3. ASSUME slotBank[s] # None PROVE FALSE
      <4>1. PICK r \in Request : Dispensed(r) /\ call[r].slot = s
        BY <2>1, <3>2, <3>3 DEF SlotsAgree
      <4>2. NeedsSlot(r) /\ NeedsSlot(q) /\ r # q
        BY <2>1, <3>1, <4>1 DEF Dispensed, NeedsSlot
      <4> QED
        BY <1>0, <4>1, <4>2, SlotsDiffer
    <3> QED
      BY <3>2, <3>3
  <2>3. CASE Docked(q)
    <3>1. cabinet[s] = "occupied" /\ slotBank[s] = None /\ cabinet'[s] = cabinet[s]
      BY <2>3, DockedStays DEF SlotsAgree
    <3>2. ASSUME slotBank'[s] # None PROVE FALSE
      <4>1. PICK r \in Request : Settle(r) /\ call[r].slot = s
        BY <1>0, <2>1, <3>1, <3>2, SlotRowFills
      <4>2. NeedsSlot(r) /\ NeedsSlot(q) /\ pc'[r] = "unlock"
        BY <1>0, <2>3, <4>1 DEF Settle, GoTo, NeedsSlot, Docked, TypeInv, TypeOK, CallsFit,
                               CallFits
      <4>3. r # q
        BY <1>2, <4>2 DEF Docked
      <4> QED
        BY <1>0, <4>1, <4>2, <4>3, SlotsDiffer
    <3> QED
      BY <2>1, <3>1, <3>2
  <2> QED
    BY <2>1, <2>2, <2>3
<1> QED
  BY <1>1, <1>2 DEF SlotsAgree

LEMMA FieldStep ==
    ASSUME NothingFails, Outlasts(RentalLockTtl), FieldInv, [Next]_vars
    PROVE  FieldInv'
<1>1. NothingAbandoned
  BY DEF NothingFails
<1> QED
  BY <1>1, OrderlyStep, CustodyStep, StartLockStep, StartsAreFirstStep, SlotsAgreeStep
     DEF FieldInv, FirstInv

\* A slot at rest that the cabinet has emptied holds no bank in the database.
\* Every fault that is assumed away breaks it: a release nobody waits for any
\* more still empties its slot, and so does one whose recording fails.
THEOREM DispensedRecorded ==
    ASSUME NothingFails, Outlasts(RentalLockTtl)
    PROVE  Spec => []DispensedIsRecorded
<1>1. ASSUME FieldInv PROVE DispensedIsRecorded
  <2> SUFFICES ASSUME NEW s \in Slot, Quiet(s), cabinet[s] = "empty", slotBank[s] # None
               PROVE  FALSE
    BY DEF DispensedIsRecorded
  <2>1. PICK r \in Request : Dispensed(r) /\ call[r].slot = s
    BY <1>1 DEF FieldInv, SlotsAgree
  <2>2. slotLock[s] = r
    BY <1>1, <2>1
       DEF FieldInv, OrderlyInv, BanksInv, SlotInv, SlotsHeld, NeedsSlot, Dispensed
  <2> QED
    BY <2>2, RentalsAssumption DEF Quiet
<1>2. FieldInv /\ [Next]_vars => FieldInv'
  BY FieldStep
<1> QED
  BY <1>1, <1>2, FieldInit, PTL DEF Spec

\* No bank that is in a slot or out on a rental is lost sight of: a return
\* stores its bank only over an empty row, and a rental keeps its bank.
THEOREM BanksAreKept ==
    ASSUME NothingFails, Outlasts(RentalLockTtl)
    PROVE  Spec => NoBankIsLost
<1>1. ASSUME FieldInv, [Next]_vars, NEW b \in PowerBank, Accounted(b)
      PROVE  Accounted(b)'
  <2>0. TypeInv /\ SlotInv
    BY <1>1 DEF FieldInv, OrderlyInv, BanksInv, SlotInv
  <2>1. CASE UNCHANGED <<bankStatus, slotBank, rental>>
    BY <1>1, <2>1 DEF Accounted
  <2>2. ASSUME NEW r \in Request, Settle(r)
        PROVE  Accounted(b)'
    <3>1. /\ call[r].slot \in Slot /\ call[r].bank \in PowerBank /\ Docked(r)
          /\ slotBank' = [slotBank EXCEPT ![call[r].slot] = call[r].bank]
          /\ bankStatus' = [bankStatus EXCEPT ![call[r].bank] = "charging"]
      BY <2>0, <2>2 DEF Settle, Docked, TypeInv, CallsFit, CallFits
    <3>2. slotBank[call[r].slot] # b
      BY <1>1, <3>1, RentalsAssumption DEF FieldInv, SlotsAgree
    <3>3. CASE b = call[r].bank
      BY <2>0, <3>1, <3>3 DEF Accounted, TypeInv, TypeOK
    <3>4. CASE b # call[r].bank
      BY <1>1, <2>0, <3>1, <3>2, <3>4 DEF Accounted, TypeInv, TypeOK
    <3> QED
      BY <3>3, <3>4
  <2>3. ASSUME NEW r \in Request, NEW i \in Rental, Rent(r, i)
        PROVE  Accounted(b)'
    <3>1. /\ call[r].bank \in PowerBank /\ slotBank[call[r].slot] = call[r].bank
          /\ slotBank' = [slotBank EXCEPT ![call[r].slot] = None]
          /\ bankStatus' = [bankStatus EXCEPT ![call[r].bank] = "rented"]
      BY <2>0, <2>3 DEF Rent, CanRent, SlotStillHoldsBank, TypeInv, CallsFit, CallFits
    <3>2. CASE b = call[r].bank
      BY <2>0, <3>1, <3>2 DEF Accounted, TypeInv, TypeOK
    <3>3. CASE b # call[r].bank
      BY <1>1, <2>0, <3>1, <3>3 DEF Accounted, TypeInv, TypeOK
    <3> QED
      BY <3>2, <3>3
  <2> QED
    BY <2>1, <2>2, <2>3, <1>1, TablesChange
<1>2. FieldInv /\ [Next]_vars
        => \A b \in PowerBank : Accounted(b) => Accounted(b)'
  BY <1>1
<1>3. FieldInv /\ [Next]_vars => FieldInv'
  BY FieldStep
<1> QED
  BY <1>2, <1>3, FieldInit, PTL DEF Spec, NoBankIsLost
=============================================================================
