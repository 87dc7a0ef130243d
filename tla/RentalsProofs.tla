----------------------------- MODULE RentalsProofs -----------------------------
(***************************************************************************)
(* Theorems about Rentals, for every number of requests, users, slots,     *)
(* banks and rentals, every TTL and timeout that RentalsAssumption allows, *)
(* and any number of faults.                                               *)
(***************************************************************************)
EXTENDS RentalsInvariants, TLAPS, FiniteSetTheorems

\* Wallet arithmetic stays within the natural numbers.
LEMMA WalletOpsType ==
    ASSUME NEW w \in WalletRow, NEW a \in Nat
    PROVE  /\ Topup(w, a) \in WalletRow
           /\ Freeze(w, a) \in WalletRow
           /\ Unfreeze(w, a) \in WalletRow
           /\ Covered(w, a) => Charge(w, a) \in WalletRow
BY DEF WalletRow, Topup, Freeze, Unfreeze, Covered, Available, Charge

\* The two ways a rentals row changes keep it a row.
LEMMA RowType ==
    /\ \A u \in User, b \in PowerBank :
          [status |-> "active", user |-> u, bank |-> b] \in RentalRow
    /\ \A row \in RentalRow : [row EXCEPT !.status = "completed"] \in RentalRow
BY DEF RentalRow

\* So does naming the bank a start works on.
LEMMA CallWithBank ==
    ASSUME NEW c \in Call, NEW b \in PowerBank
    PROVE  LET d == [c EXCEPT !.bank = b]
           IN  /\ d \in Call
               /\ d.op = c.op /\ d.user = c.user /\ d.slot = c.slot /\ d.bank = b
BY DEF Call

\* Abandoning commands leaves commands.
LEMMA AbandonedType ==
    ASSUME wire \subseteq Command, NEW S PROVE Abandoned(S) \subseteq Command
BY DEF Abandoned, Command

\* Counting a fault keeps the counters natural.
LEMMA StrikeType ==
    ASSUME faults \in [FaultKind -> Nat], NEW k \in FaultKind, Strike(k)
    PROVE  faults' \in [FaultKind -> Nat]
BY DEF Strike

\* The seeded tables and an idle backend are well typed.
LEMMA TypeInit == Init => TypeInv
<1> SUFFICES ASSUME Init PROVE TypeInv
  OBVIOUS
<1> USE RentalsAssumption
<1>1. wallet \in [User -> WalletRow]
  BY DEF Init, WalletRow
<1>2. cabinet \in [Slot -> Occupancy]
  BY DEF Init, Occupancy
<1>3. NoCall \in Call /\ NoRental \in RentalRow
  BY DEF NoCall, Call, NoRental, RentalRow
<1>4. TypeOK
  BY <1>1, <1>2, <1>3 DEF Init, TypeOK, Owner, Pc, Command, FaultKind
<1>5. CallsFit
  BY DEF Init, CallsFit, CallFits, NoCall
<1>6. RowsFit
  BY DEF Init, RowsFit, RowFits, NoRental
<1> QED
  BY <1>4, <1>5, <1>6 DEF TypeInv

\* A new request is well formed.
LEMMA TypeBegin ==
    ASSUME TypeInv, NEW r \in Request, Arrive(r)
    PROVE  TypeInv'
<1> USE RentalsAssumption DEF TypeInv, TypeOK, RowsFit, RowFits, CallsFit, CallFits,
        tables, locks,
        field, GoTo
<1>1. ASSUME NEW u \in User, NEW s \in Slot, BeginStart(r, u, s)
      PROVE  TypeInv'
  <2>1. TypeOK'
    BY <1>1 DEF BeginStart, NoCall, Call, Pc, Owner
  <2>2. CallsFit'
    BY <1>1 DEF BeginStart, NoCall
  <2> QED
    BY <1>1, <2>1, <2>2 DEF BeginStart
<1>2. ASSUME NEW u \in User, NEW s \in Slot, NEW i \in Rental,
             NEW charge \in ChargeAmount, BeginReturn(r, u, i, s, charge)
      PROVE  TypeInv'
  BY <1>2 DEF BeginReturn, NoCall, Call, Pc, Owner
<1>3. ASSUME NEW u \in User, BeginTopup(r, u)
      PROVE  TypeInv'
  <2>1. TypeOK'
    BY <1>3 DEF BeginTopup, NoCall, Call, Pc, Owner
  <2>2. CallsFit'
    BY <1>3 DEF BeginTopup, NoCall
  <2> QED
    BY <1>3, <2>1, <2>2 DEF BeginTopup
<1> QED
  BY <1>1, <1>2, <1>3 DEF Arrive

\* A handler's step keeps its locals in line with where it stands.
LEMMA TypeHandle ==
    ASSUME TypeInv, NEW r \in Request, Handle(r)
    PROVE  TypeInv'
<1> USE RentalsAssumption DEF TypeInv, TypeOK, RowsFit, RowFits, CallsFit, CallFits,
        tables, locks, field, GoTo, Call, Pc, Owner
<1>1. ASSUME CheckActive(r) \/ RejectStart(r) \/ PrepareFails(r) \/ RentFails(r)
                \/ CheckBank(r) \/ SettleFails(r) \/ SlotLockBusy(r) \/ WalletLockBusy(r)
      PROVE  TypeInv'
  <2>1. PICK p \in {"lockSlot", "unlock", "compensate", "settle"} :
           /\ pc' = [pc EXCEPT ![r] = p]
           /\ p = "lockSlot" => pc[r] = "checkActive"
           /\ p = "compensate" => pc[r] = "rent"
           /\ p = "settle" => pc[r] = "checkBank"
    BY <1>1 DEF CheckActive, RejectStart, PrepareFails, RentFails, CheckBank, SettleFails,
                SlotLockBusy, WalletLockBusy
  <2>2. pc[r] # "idle" /\ UNCHANGED <<tables, locks, call, field, faults>>
    BY <1>1 DEF CheckActive, RejectStart, PrepareFails, RentFails, CheckBank, SettleFails,
                SlotLockBusy, WalletLockBusy
  <2>3. TypeOK'
    BY <2>1, <2>2
  <2>4. CallsFit'
    BY <2>1, <2>2
  <2> QED
    BY <2>2, <2>3, <2>4
<1>2. ASSUME AcquireSlotLock(r) \/ WalletLockBusyOnReturn(r)
      PROVE  TypeInv'
  <2>1. CASE AcquireSlotLock(r)
    BY <2>1 DEF AcquireSlotLock
  <2>2. CASE WalletLockBusyOnReturn(r)
    BY <2>2 DEF WalletLockBusyOnReturn, Answered, NoCall
  <2> QED
    BY <1>2, <2>1, <2>2
<1>3. ASSUME AcquireWalletLock(r)
      PROVE  TypeInv'
  <2>1. wire' \subseteq Command
    BY <1>3 DEF AcquireWalletLock, SendCommand, Command
  <2>2. pc' = [pc EXCEPT ![r] = UnderWalletLock(call[r].op)] /\ UnderWalletLock(call[r].op) \in Pc
    BY <1>3 DEF AcquireWalletLock, UnderWalletLock
  <2>3. CallsFit'
    BY <1>3, <2>2 DEF AcquireWalletLock, UnderWalletLock
  <2> QED
    BY <1>3, <2>1, <2>2, <2>3 DEF AcquireWalletLock
<1>4. ASSUME Prepare(r)
      PROVE  TypeInv'
  <2>1. Freeze(wallet[call[r].user], Deposit) \in WalletRow
    BY <1>4, WalletOpsType DEF Prepare
  <2>2. slotBank[call[r].slot] \in PowerBank
    BY <1>4 DEF Prepare, CanPrepare, Rentable
  <2>3. wire' \subseteq Command
    BY <1>4 DEF Prepare, SendCommand, Command
  <2> DEFINE c == [call[r] EXCEPT !.bank = slotBank[call[r].slot]]
  <2>4. /\ call' = [call EXCEPT ![r] = c]
        /\ pc[r] = "prepare" /\ pc' = [pc EXCEPT ![r] = "await"]
    BY <1>4 DEF Prepare
  <2>5. call[r] \in Call /\ call[r].op = "start" /\ call[r].user \in User
        /\ call[r].slot \in Slot
    BY <2>4
  <2>6. c \in Call /\ c.op = "start" /\ c.user \in User /\ c.slot \in Slot
        /\ c.bank \in PowerBank
    BY <2>2, <2>5, CallWithBank
  <2> HIDE DEF c
  <2>7. CallFits(r)'
    BY <2>4, <2>6
  <2>8. ASSUME NEW q \in Request \ {r} PROVE CallFits(q)'
    BY <2>4
  <2>9. CallsFit'
    BY <2>7, <2>8
  <2> QED
    BY <1>4, <2>1, <2>3, <2>4, <2>6, <2>9 DEF Prepare, WithWallet
<1>5. ASSUME ReceiveAck(r)
      PROVE  TypeInv'
  BY <1>5 DEF ReceiveAck, OnAck, OnFailedCommand
<1>6. ASSUME NoAnswer(r)
      PROVE  TypeInv'
  <2>1. wire' \subseteq Command
    BY <1>6, AbandonedType DEF NoAnswer
  <2>2. faults' \in [FaultKind -> Nat]
    BY <1>6, StrikeType DEF NoAnswer, FaultKind
  <2>3. /\ pc' = [pc EXCEPT ![r] = OnFailedCommand(call[r].op)]
        /\ ack' = [ack EXCEPT ![r] = "none"]
        /\ UNCHANGED <<tables, locks, call, cabinet, reports>>
    BY <1>6 DEF NoAnswer
  <2>4. TypeOK'
    BY <2>1, <2>2, <2>3 DEF OnFailedCommand
  <2>5. CallsFit'
    BY <1>6, <2>3 DEF NoAnswer, OnFailedCommand
  <2> QED
    BY <2>3, <2>4, <2>5
<1>7. ASSUME NEW i \in Rental, Rent(r, i)
      PROVE  TypeInv'
  <2> DEFINE row == [status |-> "active", user |-> call[r].user, bank |-> call[r].bank]
  <2>1. call[r].user \in User /\ call[r].bank \in PowerBank
    BY <1>7 DEF Rent
  <2>2. rental' = [rental EXCEPT ![i] = row]
    BY <1>7 DEF Rent
  <2>3. row \in RentalRow
    BY <2>1, RowType
  <2> HIDE DEF row
  <2>4. rental' \in [Rental -> RentalRow]
    BY <2>2, <2>3
  <2>5. row.status = "active" /\ row.user \in User /\ row.bank \in PowerBank
    BY <2>1 DEF row
  <2>6. RowsFit'
    BY <2>2, <2>5
  <2> QED
    BY <1>7, <2>4, <2>6 DEF Rent, Occupancy
<1>8. ASSUME ReleaseFrozenDeposit(r) \/ TopupWallet(r)
      PROVE  TypeInv'
  <2>1. CASE ReleaseFrozenDeposit(r)
    <3>1. Unfreeze(wallet[call[r].user], Deposit) \in WalletRow
      BY <2>1, WalletOpsType DEF ReleaseFrozenDeposit
    <3> QED
      BY <2>1, <3>1 DEF ReleaseFrozenDeposit, WithWallet
  <2>2. CASE TopupWallet(r)
    <3>1. Topup(wallet[call[r].user], TopupAmount) \in WalletRow
      BY <2>2, WalletOpsType DEF TopupWallet
    <3> QED
      BY <2>2, <3>1 DEF TopupWallet, WithWallet
  <2> QED
    BY <1>8, <2>1, <2>2
<1>9. ASSUME Settle(r)
      PROVE  TypeInv'
  <2>1. SettledWallet(r) \in WalletRow
    BY <1>9, WalletOpsType DEF Settle, SettledWallet, CanSettle
  <2> DEFINE i == call[r].rental
             row == [rental[i] EXCEPT !.status = "completed"]
  <2>2. i \in Rental /\ rental' = [rental EXCEPT ![i] = row]
    BY <1>9 DEF Settle
  <2>3. rental[i] \in RentalRow
    BY <2>2
  <2>4. row \in RentalRow
    BY <2>3, RowType
  <2>5. row.status = "completed"
    BY <2>3 DEF RentalRow
  <2> HIDE DEF row, i
  <2>6. rental' \in [Rental -> RentalRow]
    BY <2>2, <2>4
  <2>7. RowsFit'
    BY <2>2, <2>5
  <2>8. /\ wallet' \in [User -> WalletRow]
        /\ bankStatus' \in [PowerBank -> {"idle", "rented", "charging"}]
        /\ slotStatus' \in [Slot -> Occupancy]
        /\ slotBank' \in [Slot -> PowerBank \cup {None}]
    BY <1>9, <2>1 DEF Settle, WithWallet, Occupancy
  <2>9. pc' = [pc EXCEPT ![r] = "unlock"] /\ UNCHANGED <<locks, call, field, faults>>
    BY <1>9 DEF Settle
  <2>10. TypeOK'
    BY <2>6, <2>8, <2>9
  <2>11. CallsFit'
    BY <1>9, <2>9 DEF Settle
  <2> QED
    BY <2>7, <2>10, <2>11
<1>10. ASSUME Unlock(r)
       PROVE  TypeInv'
  BY <1>10 DEF Unlock, Released, Answered, NoCall
<1> QED
  BY <1>1, <1>2, <1>3, <1>4, <1>5, <1>6, <1>7, <1>8, <1>9, <1>10 DEF Handle

\* A failed transaction changes nothing but the handler's place.
LEMMA TypeTransactionFails ==
    ASSUME TypeInv, NEW r \in Request, TransactionFails(r)
    PROVE  TypeInv'
<1>1. faults' \in [FaultKind -> Nat]
  BY StrikeType DEF TransactionFails, FaultKind, TypeInv, TypeOK
<1>2. /\ pc' = [pc EXCEPT ![r] = IF pc[r] = "rent" THEN "compensate" ELSE "unlock"]
      /\ UNCHANGED <<tables, locks, call, field>>
  BY DEF TransactionFails, GoTo
<1>3. TypeOK'
  BY <1>1, <1>2 DEF TypeInv, TypeOK, tables, locks, field, Pc
<1>4. RowsFit'
  BY <1>2 DEF TypeInv, RowsFit, RowFits, tables
<1>5. CallsFit'
  BY <1>2 DEF TransactionFails, TypeInv, TypeOK, CallsFit, CallFits
<1> QED
  BY <1>3, <1>4, <1>5 DEF TypeInv

\* Keys expire into the free state.
LEMMA TypeExpiry ==
    ASSUME TypeInv, Expiry
    PROVE  TypeInv'
<1> USE DEF TypeInv, TypeOK, RowsFit, RowFits, CallsFit, CallFits, tables, process,
        field, Owner
<1>1. ASSUME NEW u \in User, RentalLockLapses(u) \/ WalletLockLapses(u)
      PROVE  TypeInv'
  BY <1>1 DEF RentalLockLapses, WalletLockLapses
<1>2. ASSUME NEW s \in Slot, SlotLockLapses(s)
      PROVE  TypeInv'
  BY <1>2 DEF SlotLockLapses
<1> QED
  BY <1>1, <1>2 DEF Expiry

\* What the cabinet does stays in the field, but for the slot status it
\* reports.
LEMMA TypeField ==
    ASSUME TypeInv, Field
    PROVE  TypeInv'
<1> USE DEF TypeInv, TypeOK, RowsFit, RowFits, CallsFit, CallFits, tables, locks,
        process
<1>1. ASSUME NEW c \in wire, CarryOut(c) \/ Refuse(c)
      PROVE  TypeInv'
  <2>1. c \in Command /\ wire' \subseteq Command
    BY <1>1 DEF CarryOut, Refuse
  <2>2. c.req \in Request \cup {Orphan} /\ c.slot \in Slot
    BY <2>1 DEF Command
  <2>3. After(c) \in Occupancy
    BY DEF After, Occupancy
  <2>4. ack' \in [Request -> {"none", "ok", "error"}]
    BY <1>1, <2>2 DEF CarryOut, Refuse, Answer
  <2>5. cabinet' \in [Slot -> Occupancy] /\ reports' \subseteq Slot \X Occupancy
    BY <1>1, <2>2, <2>3 DEF CarryOut, Refuse
  <2> QED
    BY <1>1, <2>1, <2>4, <2>5 DEF CarryOut, Refuse
<1>2. ASSUME NEW c \in wire, Drop(c)
      PROVE  TypeInv'
  BY <1>2 DEF Drop
<1>3. ASSUME NEW s \in Slot, Snapshot(s)
      PROVE  TypeInv'
  <2>1. faults' \in [FaultKind -> Nat]
    BY <1>3, StrikeType DEF Snapshot, FaultKind
  <2> QED
    BY <1>3, <2>1 DEF Snapshot
<1>4. ASSUME NEW s \in Slot, NEW o \in Occupancy, StoreSnapshot(s, o)
      PROVE  TypeInv'
  BY <1>4 DEF StoreSnapshot
<1> QED
  BY <1>1, <1>2, <1>3, <1>4 DEF Field

\* After a crash no request is being served.
LEMMA TypeCrash ==
    ASSUME TypeInv, Crash
    PROVE  TypeInv'
<1>1. faults' \in [FaultKind -> Nat] /\ wire' \subseteq Command
  BY StrikeType, AbandonedType DEF Crash, FaultKind, TypeInv, TypeOK
<1>2. /\ rentalLock' \in [User -> Owner]
      /\ walletLock' \in [User -> Owner]
      /\ slotLock' \in [Slot -> Owner]
  BY DEF Crash, Owner
<1>3. pc' \in [Request -> Pc] /\ call' \in [Request -> Call]
  BY DEF Crash, Pc, NoCall, Call
<1>4. /\ ack' \in [Request -> {"none", "ok", "error"}]
      /\ reports' \subseteq Slot \X Occupancy
  BY DEF Crash
<1>5. TypeOK'
  BY <1>1, <1>2, <1>3, <1>4 DEF Crash, TypeInv, TypeOK, tables
<1>6. RowsFit'
  BY DEF Crash, TypeInv, RowsFit, RowFits, tables
<1>7. CallsFit'
  BY DEF Crash, CallsFit, CallFits, NoCall
<1> QED
  BY <1>5, <1>6, <1>7 DEF TypeInv

\* No step of a handler, a key's expiry, the field or a fault breaks a type.
LEMMA TypeStep ==
    ASSUME TypeInv, [Next]_vars
    PROVE  TypeInv'
<1>1. CASE UNCHANGED vars
  BY <1>1 DEF vars, tables, locks, process, field, TypeInv, TypeOK, RowsFit, RowFits,
              CallsFit, CallFits
<1> QED
  BY <1>1, TypeBegin, TypeHandle, TypeTransactionFails, TypeExpiry, TypeField,
     TypeCrash DEF Next

\* The handlers, the tables and the locks keep their types: no handler reads a
\* local it has not set, no balance and no frozen amount becomes negative
\* (the CHECK constraints of the wallets table).
THEOREM TypeCorrect == Spec => []TypeOK
<1>1. TypeInv => TypeOK
  BY DEF TypeInv
<1> QED
  BY <1>1, TypeInit, TypeStep, PTL DEF Spec
-----------------------------------------------------------------------------
\* One command per slot.

\* Initially no request needs a slot.
LEMMA SlotInit == Init => SlotInv
<1>1. Init => SlotsHeld
  BY DEF Init, SlotsHeld, NeedsSlot
<1> QED
  BY <1>1, TypeInit DEF SlotInv

\* The handlers keep the lock of their slot until their finally block.
LEMMA SlotHandle ==
    ASSUME SlotInv, NEW r \in Request, Arrive(r) \/ Handle(r) \/ TransactionFails(r)
    PROVE  SlotsHeld'
<1> USE RentalsAssumption DEF SlotInv, TypeInv, TypeOK, CallsFit, CallFits, SlotsHeld,
        NeedsSlot, locks, GoTo, Call
<1>1. CASE Arrive(r)
  <2>1. PICK label, c : /\ pc' = [pc EXCEPT ![r] = label]
                        /\ call' = [call EXCEPT ![r] = c]
                        /\ slotLock' = slotLock
                        /\ label \in {"checkActive", "lockSlot"} \/ c.op = "topup"
    <3>1. ASSUME NEW u \in User, NEW s \in Slot, BeginStart(r, u, s)
          PROVE  /\ pc' = [pc EXCEPT ![r] = "checkActive"]
                 /\ \E c : call' = [call EXCEPT ![r] = c]
                 /\ slotLock' = slotLock
      BY <3>1 DEF BeginStart
    <3>2. ASSUME NEW u \in User, NEW s \in Slot, NEW i \in Rental,
                 NEW charge \in ChargeAmount, BeginReturn(r, u, i, s, charge)
          PROVE  /\ pc' = [pc EXCEPT ![r] = "lockSlot"]
                 /\ \E c : call' = [call EXCEPT ![r] = c]
                 /\ slotLock' = slotLock
      BY <3>2 DEF BeginReturn
    <3>3. ASSUME NEW u \in User, BeginTopup(r, u)
          PROVE  /\ pc' = [pc EXCEPT ![r] = "lockWallet"]
                 /\ \E c : call' = [call EXCEPT ![r] = c] /\ c.op = "topup"
                 /\ slotLock' = slotLock
      <4>1. [NoCall EXCEPT !.op = "topup", !.user = u].op = "topup"
        BY DEF NoCall
      <4> QED
        BY <3>3, <4>1 DEF BeginTopup
    <3> QED
      BY <1>1, <3>1, <3>2, <3>3 DEF Arrive
  <2> QED
    BY <2>1
<1>2. CASE AcquireSlotLock(r)
  BY <1>2 DEF AcquireSlotLock
<1>3. CASE WalletLockBusyOnReturn(r)
  BY <1>3 DEF WalletLockBusyOnReturn, Answered, NoCall
<1>4. CASE Unlock(r)
  <2>1. \A q \in Request \ {r} : pc'[q] = pc[q] /\ call'[q] = call[q]
    BY <1>4 DEF Unlock, Answered
  <2>2. pc'[r] = "idle"
    BY <1>4 DEF Unlock, Answered
  <2>3. \A q \in Request \ {r}, s \in Slot : slotLock[s] = q => slotLock'[s] = q
    BY <1>4 DEF Unlock, Released
  <2>4. \A q \in Request \ {r} : NeedsSlot(q)' => NeedsSlot(q) /\ call[q].slot \in Slot
    BY <2>1
  <2> QED
    BY <2>1, <2>2, <2>3, <2>4
<1>5. CASE Prepare(r)
  BY <1>5 DEF Prepare
<1>6. CASE CheckActive(r) \/ RejectStart(r) \/ SlotLockBusy(r) \/ WalletLockBusy(r)
             \/ PrepareFails(r) \/ RentFails(r) \/ CheckBank(r) \/ SettleFails(r)
  BY <1>6 DEF CheckActive, RejectStart, SlotLockBusy, WalletLockBusy, PrepareFails,
              RentFails, CheckBank, SettleFails
<1>7. CASE AcquireWalletLock(r) \/ ReceiveAck(r) \/ NoAnswer(r)
  BY <1>7 DEF AcquireWalletLock, ReceiveAck, NoAnswer
<1>8. CASE (\E i \in Rental : Rent(r, i)) \/ ReleaseFrozenDeposit(r) \/ Settle(r)
             \/ TopupWallet(r)
  BY <1>8 DEF Rent, ReleaseFrozenDeposit, Settle, TopupWallet
<1>9. CASE TransactionFails(r)
  BY <1>9 DEF TransactionFails
<1> QED
  BY <1>1, <1>2, <1>3, <1>4, <1>5, <1>6, <1>7, <1>8, <1>9 DEF Handle

\* The lock of a slot does not lapse under a request that waits for it.
LEMMA SlotEnvironment ==
    ASSUME SlotInv, Expiry \/ Field \/ Crash
    PROVE  SlotsHeld'
<1> USE DEF SlotsHeld, NeedsSlot, process, locks
<1>1. CASE Expiry
  <2>1. ASSUME NEW s \in Slot, SlotLockLapses(s)
        PROVE  SlotsHeld'
    <3>1. slotLock[s] \notin Request
      BY <2>1, RentalsAssumption DEF SlotLockLapses, Lapses
    <3> QED
      BY <2>1, <3>1 DEF SlotLockLapses, SlotInv, TypeInv, TypeOK
  <2>2. ASSUME NEW u \in User, RentalLockLapses(u) \/ WalletLockLapses(u)
        PROVE  SlotsHeld'
    BY <2>2 DEF RentalLockLapses, WalletLockLapses, SlotInv
  <2> QED
    BY <1>1, <2>1, <2>2 DEF Expiry
<1>2. CASE Field
  <2>1. UNCHANGED <<slotLock, pc, call>>
    BY <1>2 DEF Field, CarryOut, Refuse, Drop, Snapshot, StoreSnapshot
  <2> QED
    BY <2>1 DEF SlotInv
<1>3. CASE Crash
  BY <1>3 DEF Crash
<1> QED
  BY <1>1, <1>2, <1>3

\* No step takes the lock of a slot from a request that needs it.
LEMMA SlotStep ==
    ASSUME SlotInv, [Next]_vars
    PROVE  SlotInv'
<1>1. TypeInv'
  BY TypeStep DEF SlotInv
<1>2. SlotsHeld'
  <2>1. CASE UNCHANGED vars
    BY <2>1 DEF vars, locks, process, SlotInv, SlotsHeld, NeedsSlot
  <2> QED
    BY <2>1, SlotHandle, SlotEnvironment DEF Next
<1> QED
  BY <1>1, <1>2 DEF SlotInv

\* Whatever overlaps, lapses or fails, at most one request waits for the
\* cabinet to move a slot.
THEOREM SlotExclusion == Spec => []OneCommandPerSlot
<1>1. SlotInv => OneCommandPerSlot
  BY DEF SlotInv, TypeInv, CallsFit, CallFits, SlotsHeld, NeedsSlot, OneCommandPerSlot
<1> QED
  BY <1>1, SlotInit, SlotStep, PTL DEF Spec
-----------------------------------------------------------------------------
\* Custody of the banks.

CustodyTables == BankFollowsRental /\ OneActivePerUser /\ StoredBanksAreIn

\* Initially every bank is idle in one slot and there is no rental.
LEMMA CustodyInit == Init => CustodyInv
<1> SUFFICES ASSUME Init PROVE CustodyInv
  OBVIOUS
<1>1. ReturnsFit
  BY DEF Init, ReturnsFit, NoCall
<1>2. BankFollowsRental /\ OneActivePerUser
  BY DEF Init, BankFollowsRental, OneActivePerUser, NoRental
<1>3. StoredBanksAreIn
  BY RentalsAssumption DEF Init, StoredBanksAreIn
<1> QED
  BY <1>1, <1>2, <1>3, TypeInit DEF CustodyInv

\* A step that leaves these tables alone keeps what they say, and a return
\* keeps its row if only requests that end or begin a start change locals.
LEMMA CustodyFrame ==
    ASSUME CustodyInv, UNCHANGED <<bankStatus, slotBank, rental>>,
           \A q \in Request : call'[q].op = "return" => call'[q] = call[q]
    PROVE  CustodyTables' /\ ReturnsFit'
BY DEF CustodyInv, CustodyTables, ReturnsFit, BankFollowsRental, OneActivePerUser,
       StoredBanksAreIn

\* A new rental takes an idle bank out of the only slot that stores it.
LEMMA CustodyRent ==
    ASSUME CustodyInv, NEW r \in Request, NEW i \in Rental, Rent(r, i)
    PROVE  CustodyTables' /\ ReturnsFit'
<1> DEFINE b == call[r].bank
           u == call[r].user
           s == call[r].slot
<1>1. /\ b \in PowerBank /\ bankStatus[b] = "idle" /\ slotBank[s] = b /\ s \in Slot
      /\ \A j \in Rental : ~(rental[j].status = "active" /\ rental[j].user = u)
      /\ rental[i].status = "none"
  BY DEF Rent, CanRent, SlotStillHoldsBank, ActiveKeyFree, Active, CustodyInv, TypeInv,
         CallsFit, CallFits
<1>2. \A j \in Rental : rental[j].status # "none" => rental[j].bank # b
  BY <1>1 DEF CustodyInv, BankFollowsRental, TypeInv, TypeOK, RentalRow
<1>3. /\ bankStatus' = [bankStatus EXCEPT ![b] = "rented"]
      /\ slotBank' = [slotBank EXCEPT ![s] = None]
      /\ rental' = [rental EXCEPT ![i] = [status |-> "active", user |-> u, bank |-> b]]
      /\ call' = call
  BY DEF Rent
<1> HIDE DEF b, u, s
<1>4. /\ rental'[i].status = "active" /\ rental'[i].user = u /\ rental'[i].bank = b
      /\ \A j \in Rental \ {i} : rental'[j] = rental[j]
      /\ bankStatus'[b] = "rented"
      /\ \A c \in PowerBank \ {b} : bankStatus'[c] = bankStatus[c]
  BY <1>1, <1>3 DEF CustodyInv, TypeInv, TypeOK
<1>5. BankFollowsRental'
  <2>1. ASSUME NEW j \in Rental, NEW k \in Rental, rental'[j].status # "none",
               rental'[k].status # "none", rental'[j].bank = rental'[k].bank
        PROVE  j = k
    BY <1>2, <1>4, <2>1 DEF CustodyInv, BankFollowsRental
  <2>2. ASSUME NEW j \in Rental
        PROVE  /\ rental'[j].status = "active" => bankStatus'[rental'[j].bank] = "rented"
               /\ rental'[j].status = "completed"
                     => bankStatus'[rental'[j].bank] = "charging"
    <3>1. CASE j = i
      BY <1>4, <3>1
    <3>2. CASE j # i /\ rental[j].status # "none"
      <4>1. rental'[j] = rental[j] /\ rental[j].bank # b
        BY <1>2, <1>4, <3>2
      <4>2. bankStatus'[rental[j].bank] = bankStatus[rental[j].bank]
        BY <1>3, <4>1 DEF CustodyInv, TypeInv, TypeOK
      <4> QED
        BY <4>1, <4>2 DEF CustodyInv, BankFollowsRental
    <3>3. CASE j # i /\ rental[j].status = "none"
      BY <1>4, <3>3
    <3> QED
      BY <3>1, <3>2, <3>3
  <2>3. ASSUME NEW c \in PowerBank, bankStatus'[c] = "rented"
        PROVE  \E j \in Rental : rental'[j].status = "active" /\ rental'[j].bank = c
    <3>1. CASE c = b
      BY <1>4, <3>1
    <3>2. CASE c # b
      <4>1. PICK j \in Rental : rental[j].status = "active" /\ rental[j].bank = c
        BY <1>4, <2>3, <3>2 DEF CustodyInv, BankFollowsRental
      <4> QED
        BY <1>1, <1>4, <4>1
    <3> QED
      BY <3>1, <3>2
  <2> QED
    BY <2>1, <2>2, <2>3 DEF BankFollowsRental
<1>6. OneActivePerUser'
  BY <1>1, <1>4 DEF CustodyInv, OneActivePerUser
<1>7. StoredBanksAreIn'
  <2>1. \A t \in Slot : slotBank'[t] # None => slotBank'[t] = slotBank[t] /\ t # s
    BY <1>1, <1>3 DEF CustodyInv, TypeInv, TypeOK
  <2>2. \A t \in Slot : slotBank'[t] # None => slotBank[t] \in PowerBank \ {b}
    BY <1>1, <2>1, RentalsAssumption DEF CustodyInv, TypeInv, TypeOK, StoredBanksAreIn
  <2> QED
    BY <1>4, <2>1, <2>2 DEF CustodyInv, StoredBanksAreIn
<1>8. ReturnsFit'
  BY <1>1, <1>3, <1>4 DEF CustodyInv, ReturnsFit, TypeInv, CallsFit, CallFits
<1> QED
  BY <1>5, <1>6, <1>7, <1>8 DEF CustodyTables

\* A settled return stores the bank of its rental, and completes the row that
\* it read, even if another return of the rental has done so before.
LEMMA CustodySettle ==
    ASSUME CustodyInv, NEW r \in Request, Settle(r)
    PROVE  CustodyTables' /\ ReturnsFit'
<1> DEFINE b == call[r].bank
           s == call[r].slot
           i == call[r].rental
<1>1. /\ b \in PowerBank /\ i \in Rental /\ s \in Slot
      /\ rental[i].status # "none" /\ rental[i].bank = b
      /\ \A t \in Slot \ {s} : slotBank[t] # b
  BY DEF Settle, CanSettle, BankKeyFree, CustodyInv, TypeInv, CallsFit, CallFits,
         ReturnsFit
<1>2. /\ bankStatus' = [bankStatus EXCEPT ![b] = "charging"]
      /\ slotBank' = [slotBank EXCEPT ![s] = b]
      /\ rental' = [rental EXCEPT ![i].status = "completed"]
      /\ call' = call
  BY DEF Settle
<1> HIDE DEF b, s, i
<1>3. /\ rental'[i].status = "completed"
      /\ \A j \in Rental : rental'[j].user = rental[j].user /\ rental'[j].bank = rental[j].bank
      /\ \A j \in Rental \ {i} : rental'[j] = rental[j]
      /\ bankStatus'[b] = "charging"
      /\ \A c : c # b => bankStatus'[c] = bankStatus[c]
  <2>1. rental[i] \in RentalRow
    BY <1>1 DEF CustodyInv, TypeInv, TypeOK
  <2>2. \A c : c # b => bankStatus'[c] = bankStatus[c]
    BY <1>2 DEF CustodyInv, TypeInv, TypeOK
  <2> QED
    BY <1>1, <1>2, <2>1, <2>2 DEF CustodyInv, TypeInv, TypeOK, RentalRow
<1>4. \A j \in Rental \ {i} : rental[j].status # "none" => rental[j].bank # b
  BY <1>1 DEF CustodyInv, BankFollowsRental
<1>5. BankFollowsRental'
  <2>1. ASSUME NEW j \in Rental, NEW k \in Rental, rental'[j].status # "none",
               rental'[k].status # "none", rental'[j].bank = rental'[k].bank
        PROVE  j = k
    BY <1>1, <1>3, <1>4, <2>1 DEF CustodyInv, BankFollowsRental
  <2>2. ASSUME NEW j \in Rental
        PROVE  /\ rental'[j].status = "active" => bankStatus'[rental'[j].bank] = "rented"
               /\ rental'[j].status = "completed"
                     => bankStatus'[rental'[j].bank] = "charging"
    <3>1. CASE j = i
      BY <1>1, <1>3, <3>1
    <3>2. CASE j # i /\ rental[j].status # "none"
      BY <1>3, <1>4, <3>2 DEF CustodyInv, BankFollowsRental
    <3>3. CASE j # i /\ rental[j].status = "none"
      BY <1>3, <3>3
    <3> QED
      BY <3>1, <3>2, <3>3
  <2>3. ASSUME NEW c \in PowerBank, bankStatus'[c] = "rented"
        PROVE  \E j \in Rental : rental'[j].status = "active" /\ rental'[j].bank = c
    <3>1. c # b /\ bankStatus[c] = "rented"
      BY <1>3, <2>3
    <3>2. PICK j \in Rental : rental[j].status = "active" /\ rental[j].bank = c
      BY <3>1 DEF CustodyInv, BankFollowsRental
    <3>3. j # i
      BY <1>1, <3>1, <3>2
    <3> QED
      BY <1>3, <3>2, <3>3
  <2> QED
    BY <2>1, <2>2, <2>3 DEF BankFollowsRental
<1>6. OneActivePerUser'
  BY <1>3 DEF CustodyInv, OneActivePerUser
<1>7. StoredBanksAreIn'
  <2>1. slotBank'[s] = b /\ \A t \in Slot \ {s} : slotBank'[t] = slotBank[t]
    BY <1>1, <1>2 DEF CustodyInv, TypeInv, TypeOK
  <2> QED
    BY <1>1, <1>3, <2>1 DEF CustodyInv, StoredBanksAreIn
<1>8. ReturnsFit'
  BY <1>1, <1>2, <1>3 DEF CustodyInv, ReturnsFit, TypeInv, CallsFit, CallFits
<1> QED
  BY <1>5, <1>6, <1>7, <1>8 DEF CustodyTables

\* A return copies bank and user from the active row it found.
LEMMA CustodyBegin ==
    ASSUME CustodyInv, NEW r \in Request, Arrive(r)
    PROVE  CustodyTables' /\ ReturnsFit'
<1> USE DEF CustodyInv, CustodyTables, TypeInv, TypeOK
<1>1. UNCHANGED <<bankStatus, slotBank, rental>>
  BY DEF Arrive, BeginStart, BeginReturn, BeginTopup, tables
<1>2. ASSUME NEW u \in User, NEW s \in Slot, NEW i \in Rental,
             NEW charge \in ChargeAmount, BeginReturn(r, u, i, s, charge)
      PROVE  ReturnsFit'
  BY <1>1, <1>2 DEF BeginReturn, ReturnsFit
<1>3. ASSUME NEW u \in User, NEW s \in Slot, BeginStart(r, u, s)
      PROVE  ReturnsFit'
  BY <1>1, <1>3 DEF BeginStart, ReturnsFit, NoCall
<1>4. ASSUME NEW u \in User, BeginTopup(r, u)
      PROVE  ReturnsFit'
  BY <1>1, <1>4 DEF BeginTopup, ReturnsFit, NoCall
<1>5. ReturnsFit'
  BY <1>2, <1>3, <1>4 DEF Arrive
<1> QED
  BY <1>1, <1>5 DEF BankFollowsRental, OneActivePerUser, StoredBanksAreIn

\* Only the two transactions that write these tables can disturb custody, and
\* each restores what it changes.
LEMMA CustodyStep ==
    ASSUME CustodyInv, [Next]_vars
    PROVE  CustodyInv'
<1> DEFINE Goal == CustodyTables' /\ ReturnsFit'
           Frame == /\ UNCHANGED <<bankStatus, slotBank, rental>>
                    /\ \A q \in Request : call'[q].op = "return" => call'[q] = call[q]
<1>1. ASSUME NEW r \in Request, Handle(r)
      PROVE  Goal
  <2>1. CASE CheckActive(r) \/ RejectStart(r) \/ AcquireSlotLock(r) \/ SlotLockBusy(r)
               \/ AcquireWalletLock(r) \/ WalletLockBusy(r) \/ PrepareFails(r)
               \/ ReceiveAck(r) \/ NoAnswer(r) \/ RentFails(r) \/ CheckBank(r)
               \/ SettleFails(r) \/ ReleaseFrozenDeposit(r) \/ TopupWallet(r)
    <3>1. Frame
      BY <2>1 DEF CheckActive, RejectStart, AcquireSlotLock, SlotLockBusy,
                  AcquireWalletLock, WalletLockBusy, PrepareFails, ReceiveAck, NoAnswer,
                  RentFails, CheckBank, SettleFails, ReleaseFrozenDeposit, TopupWallet,
                  tables
    <3> QED
      BY <3>1, CustodyFrame
  <2>2. CASE Prepare(r)
    <3>1. Frame
      BY <2>2 DEF Prepare, CustodyInv, TypeInv, TypeOK, CallsFit, CallFits, Call
    <3> QED
      BY <3>1, CustodyFrame
  <2>3. CASE WalletLockBusyOnReturn(r) \/ Unlock(r)
    <3>1. Frame
      BY <2>3 DEF WalletLockBusyOnReturn, Unlock, Answered, NoCall, tables, CustodyInv,
                  TypeInv, TypeOK
    <3> QED
      BY <3>1, CustodyFrame
  <2> QED
    BY <1>1, <2>1, <2>2, <2>3, CustodyRent, CustodySettle DEF Handle
<1>2. ASSUME NEW r \in Request, TransactionFails(r)
      PROVE  Goal
  <2>1. Frame
    BY <1>2 DEF TransactionFails, tables
  <2> QED
    BY <2>1, CustodyFrame
<1>3. ASSUME Expiry \/ Field
      PROVE  Goal
  <2>1. Frame
    BY <1>3 DEF Expiry, RentalLockLapses, WalletLockLapses, SlotLockLapses, Field, CarryOut,
                Refuse, Drop, Snapshot, StoreSnapshot, tables, process
  <2> QED
    BY <2>1, CustodyFrame
<1>4. ASSUME Crash
      PROVE  Goal
  <2>1. Frame
    BY <1>4 DEF Crash, NoCall, tables
  <2> QED
    BY <2>1, CustodyFrame
<1>5. ASSUME UNCHANGED vars
      PROVE  Goal
  <2>1. Frame
    BY <1>5 DEF vars, tables, process
  <2> QED
    BY <2>1, CustodyFrame
<1>6. Goal
  BY <1>1, <1>2, <1>3, <1>4, <1>5, CustodyBegin DEF Next
<1> QED
  BY <1>6, TypeStep DEF CustodyInv, CustodyTables

\* A bank is rented exactly while one active rental names it, is then stored
\* in no slot, and a user has at most one active rental: whatever locks lapse,
\* commands fail, transactions fail or backends die.
THEOREM CustodyHolds == Spec => []Custody
<1>1. CustodyInv => Custody
  <2> SUFFICES ASSUME CustodyInv PROVE Custody
    OBVIOUS
  <2>1. \A b \in PowerBank :
           bankStatus[b] = "rented" <=>
              \E i \in Rental : rental[i].status = "active" /\ rental[i].bank = b
    BY DEF CustodyInv, BankFollowsRental
  <2> QED
    BY <2>1 DEF CustodyInv, BankFollowsRental, OneActivePerUser, StoredBanksAreIn, Custody
<1> QED
  BY <1>1, CustodyInit, CustodyStep, PTL DEF Spec
-----------------------------------------------------------------------------
\* Deposits.

\* No wallet operation the handlers run leaves more frozen than there is.
LEMMA WalletOpsFunded ==
    ASSUME NEW w \in WalletRow, w.frozen <= w.balance, NEW a \in Nat
    PROVE  /\ Topup(w, a).frozen <= Topup(w, a).balance
           /\ Unfreeze(w, a).frozen <= Unfreeze(w, a).balance
           /\ Covered(w, a) => /\ Freeze(w, a).frozen <= Freeze(w, a).balance
                               /\ Charge(w, a).frozen <= Charge(w, a).balance
BY DEF WalletRow, Topup, Freeze, Unfreeze, Covered, Available, Charge

\* A step that writes one funded row keeps the wallets funded.
LEMMA FundedWrite ==
    ASSUME TypeInv, DepositsAreFunded, NEW u \in User, NEW row, WithWallet(u, row),
           row.frozen <= row.balance
    PROVE  DepositsAreFunded'
BY DEF TypeInv, TypeOK, DepositsAreFunded, WithWallet

\* Freezing and charging check the available balance on the row they lock, so
\* no step freezes or takes more than there is.
LEMMA FundedStep ==
    ASSUME TypeInv, DepositsAreFunded, [Next]_vars
    PROVE  DepositsAreFunded'
<1>1. ASSUME NEW r \in Request, Handle(r)
      PROVE  DepositsAreFunded'
  <2> DEFINE u == call[r].user
  <2>1. pc[r] # "idle" => u \in User /\ wallet[u] \in WalletRow
                            /\ wallet[u].frozen <= wallet[u].balance
    BY DEF TypeInv, TypeOK, CallsFit, CallFits, DepositsAreFunded
  <2>2. CASE Prepare(r)
    <3>1. LET row == Freeze(wallet[u], Deposit)
          IN  row.frozen <= row.balance
      BY <2>1, <2>2, WalletOpsFunded, RentalsAssumption DEF Prepare, CanPrepare
    <3> QED
      BY <2>1, <2>2, <3>1, FundedWrite DEF Prepare
  <2>3. CASE ReleaseFrozenDeposit(r)
    <3>1. LET row == Unfreeze(wallet[u], Deposit)
          IN  row.frozen <= row.balance
      BY <2>1, <2>3, WalletOpsFunded, RentalsAssumption DEF ReleaseFrozenDeposit
    <3> QED
      BY <2>1, <2>3, <3>1, FundedWrite DEF ReleaseFrozenDeposit
  <2>4. CASE Settle(r)
    <3> DEFINE w == Unfreeze(wallet[u], Deposit)
    <3>1. pc[r] = "settle" /\ call[r].charge \in Nat /\ Covered(w, call[r].charge)
      BY <2>4 DEF Settle, CanSettle, TypeInv, TypeOK, Call
    <3>2. w \in WalletRow /\ w.frozen <= w.balance
      BY <2>1, <3>1, WalletOpsType, WalletOpsFunded, RentalsAssumption
    <3> HIDE DEF w
    <3>3. LET row == Charge(w, call[r].charge)
          IN  row.frozen <= row.balance
      BY <3>1, <3>2, WalletOpsFunded
    <3>4. SettledWallet(r).frozen <= SettledWallet(r).balance
      BY <3>3 DEF SettledWallet, w
    <3> QED
      BY <2>1, <2>4, <3>1, <3>4, FundedWrite DEF Settle
  <2>5. CASE TopupWallet(r)
    <3>1. LET row == Topup(wallet[u], TopupAmount)
          IN  row.frozen <= row.balance
      BY <2>1, <2>5, WalletOpsFunded, RentalsAssumption DEF TopupWallet
    <3> QED
      BY <2>1, <2>5, <3>1, FundedWrite DEF TopupWallet
  <2>6. CASE wallet' = wallet
    BY <2>6 DEF DepositsAreFunded
  <2>7. Prepare(r) \/ ReleaseFrozenDeposit(r) \/ Settle(r) \/ TopupWallet(r)
          \/ wallet' = wallet
    BY <1>1 DEF Handle, CheckActive, RejectStart, AcquireSlotLock, SlotLockBusy,
                AcquireWalletLock, WalletLockBusy, WalletLockBusyOnReturn, PrepareFails,
                ReceiveAck, NoAnswer, Rent, RentFails, CheckBank, SettleFails, Unlock, tables
  <2> QED
    BY <2>2, <2>3, <2>4, <2>5, <2>6, <2>7
<1>2. ASSUME NEW r \in Request, Arrive(r) \/ TransactionFails(r)
      PROVE  wallet' = wallet
  BY <1>2 DEF Arrive, BeginStart, BeginReturn, BeginTopup, TransactionFails, tables
<1>3. ASSUME Expiry \/ Field \/ Crash \/ UNCHANGED vars
      PROVE  wallet' = wallet
  BY <1>3 DEF Expiry, RentalLockLapses, WalletLockLapses, SlotLockLapses, Field, CarryOut,
              Refuse, Drop, Snapshot, StoreSnapshot, Crash, vars, tables
<1>4. CASE wallet' = wallet
  BY <1>4 DEF DepositsAreFunded
<1> QED
  BY <1>1, <1>2, <1>3, <1>4 DEF Next

\* No charge eats into a deposit and no freeze exceeds the balance, even when
\* the wallet lock has lapsed under its holder.
THEOREM DepositsFunded == Spec => []DepositsAreFunded
<1>1. ASSUME Init PROVE DepositsAreFunded
  <2>1. ASSUME NEW u \in User PROVE wallet[u].frozen <= wallet[u].balance
    <3>1. PICK b \in InitialBalance : wallet[u] = [balance |-> b, frozen |-> 0]
      BY <1>1 DEF Init
    <3>2. b \in Nat
      BY RentalsAssumption
    <3> QED
      BY <3>1, <3>2
  <2> QED
    BY <2>1 DEF DepositsAreFunded
<1> QED
  BY <1>1, TypeInit, TypeStep, FundedStep, PTL DEF Spec
=============================================================================
