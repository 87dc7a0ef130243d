-------------------------- MODULE RentalsContractProofs --------------------------
(***************************************************************************)
(* Theorems about the money of Rentals: what is frozen in the wallets, and *)
(* that renting keeps the promise of RentalContract.                       *)
(***************************************************************************)
EXTENDS RentalsFieldProofs, FiniteSetTheorems

(***************************************************************************)
(* One deposit for each start in progress and each active rental.          *)
(***************************************************************************)

Debt(S, A) == Deposit * (Cardinality(S) + Cardinality(A))

\* One start or one rental more or less is one deposit more or less.
LEMMA DebtChanges ==
    ASSUME NEW S, NEW A, IsFiniteSet(S), IsFiniteSet(A)
    PROVE  /\ Debt(S, A) \in Nat
           /\ \A x : x \notin S => Debt(S \cup {x}, A) = Debt(S, A) + Deposit
           /\ \A x \in S : Debt(S \ {x}, A) = Debt(S, A) - Deposit /\ Debt(S, A) >= Deposit
           /\ \A x : x \notin A => Debt(S, A \cup {x}) = Debt(S, A) + Deposit
           /\ \A x \in A : Debt(S, A \ {x}) = Debt(S, A) - Deposit /\ Debt(S, A) >= Deposit
           /\ Debt({}, A) <= Debt(S, A)
<1>1. Deposit \in Nat /\ Cardinality(S) \in Nat /\ Cardinality(A) \in Nat
  BY FS_CardinalityType, RentalsAssumption
<1>2. \A d, m, n \in Nat : /\ d * (m + n) \in Nat
                           /\ d * ((m + 1) + n) = d * (m + n) + d
                           /\ d * (m + (n + 1)) = d * (m + n) + d
                           /\ d * (0 + n) <= d * (m + n)
  OBVIOUS
<1>3. ASSUME NEW x, x \notin S PROVE Cardinality(S \cup {x}) = Cardinality(S) + 1
  BY <1>3, FS_AddElement
<1>4. ASSUME NEW x, x \notin A PROVE Cardinality(A \cup {x}) = Cardinality(A) + 1
  BY <1>4, FS_AddElement
<1>5. ASSUME NEW x \in S
      PROVE  Cardinality(S \ {x}) \in Nat /\ Cardinality(S) = Cardinality(S \ {x}) + 1
  <2>1. IsFiniteSet(S \ {x}) /\ Cardinality(S \ {x}) = Cardinality(S) - 1
    BY <1>5, FS_RemoveElement
  <2> QED
    BY <1>1, <2>1, FS_CardinalityType
<1>6. ASSUME NEW x \in A
      PROVE  Cardinality(A \ {x}) \in Nat /\ Cardinality(A) = Cardinality(A \ {x}) + 1
  <2>1. IsFiniteSet(A \ {x}) /\ Cardinality(A \ {x}) = Cardinality(A) - 1
    BY <1>6, FS_RemoveElement
  <2> QED
    BY <1>1, <2>1, FS_CardinalityType
<1>7. Cardinality({}) = 0
  BY FS_EmptySet
<1>8. ASSUME NEW x \in S PROVE Debt(S, A) = Debt(S \ {x}, A) + Deposit /\ Debt(S \ {x}, A) \in Nat
  BY <1>1, <1>2, <1>5, <1>8 DEF Debt
<1>9. ASSUME NEW x \in A PROVE Debt(S, A) = Debt(S, A \ {x}) + Deposit /\ Debt(S, A \ {x}) \in Nat
  BY <1>1, <1>2, <1>6, <1>9 DEF Debt
<1>10. Debt(S, A) \in Nat /\ Debt({}, A) <= Debt(S, A)
  BY <1>1, <1>2, <1>7 DEF Debt
<1>11. \A x : x \notin S => Debt(S \cup {x}, A) = Debt(S, A) + Deposit
  BY <1>1, <1>2, <1>3 DEF Debt
<1>12. \A x : x \notin A => Debt(S, A \cup {x}) = Debt(S, A) + Deposit
  BY <1>1, <1>2, <1>4 DEF Debt
<1>13. \A x \in S : Debt(S \ {x}, A) = Debt(S, A) - Deposit /\ Debt(S, A) >= Deposit
  BY <1>1, <1>8
<1>14. \A x \in A : Debt(S, A \ {x}) = Debt(S, A) - Deposit /\ Debt(S, A) >= Deposit
  BY <1>1, <1>9
<1> QED
  BY <1>10, <1>11, <1>12, <1>13, <1>14

\* Starts and active rentals are finitely many.
LEMMA OwedIsDebt ==
    \A u \in User : /\ IsFiniteSet(Starting(u)) /\ IsFiniteSet(Active(u))
                    /\ Owed(u) = Debt(Starting(u), Active(u))
<1>1. \A u \in User : Starting(u) \subseteq Request /\ Active(u) \subseteq Rental
  BY DEF Starting, Active
<1> QED
  BY <1>1, FS_Subset, RentalsAssumption DEF Owed, Debt

Starts(r, u) ==
    call[r].op = "start" /\ call[r].user = u /\ pc[r] \in {"await", "rent", "compensate"}

\* A handler's step changes the set of starts by its own request at most.
LEMMA StartingChanges ==
    ASSUME TypeInv, NEW r \in Request, Arrive(r) \/ Handle(r) \/ TransactionFails(r),
           NEW u \in User
    PROVE  /\ Starts(r, u)' => Starting(u)' = Starting(u) \cup {r}
           /\ ~Starts(r, u)' => Starting(u)' = Starting(u) \ {r}
           /\ Starts(r, u) <=> r \in Starting(u)
BY OthersKeep DEF Starting, Starts

Faultless == faults["crash"] + faults["database"] = 0

\* Faults are counted for good.
LEMMA FaultsGrow ==
    ASSUME TypeInv, [Next]_vars
    PROVE  Faultless' => Faultless
<1> USE DEF TypeInv, TypeOK, FaultKind, Faultless
<1>1. ASSUME NEW k \in FaultKind, Strike(k) PROVE Faultless' => Faultless
  BY <1>1 DEF Strike
<1>2. ASSUME NEW r \in Request, Arrive(r) \/ Handle(r) \/ TransactionFails(r)
      PROVE  faults' = faults \/ \E k \in FaultKind : Strike(k)
  BY <1>2 DEF Arrive, BeginStart, BeginReturn, BeginTopup, TransactionFails, Handle,
              CheckActive, RejectStart, AcquireSlotLock, SlotLockBusy, AcquireWalletLock,
              WalletLockBusy, WalletLockBusyOnReturn, Prepare, PrepareFails, ReceiveAck,
              NoAnswer, Rent, RentFails, ReleaseFrozenDeposit, CheckBank, Settle,
              SettleFails, TopupWallet, Unlock
<1>3. ASSUME Expiry \/ Field \/ Crash \/ UNCHANGED vars
      PROVE  faults' = faults \/ \E k \in FaultKind : Strike(k)
  BY <1>3 DEF Expiry, RentalLockLapses, WalletLockLapses, SlotLockLapses, Field, CarryOut,
              Refuse, Drop, Snapshot, StoreSnapshot, Crash, vars
<1> QED
  BY <1>1, <1>2, <1>3 DEF Next
\* The property for one user.
Frozen(u) == /\ wallet[u].frozen >= Owed(u)
             /\ Faultless => wallet[u].frozen = Owed(u)

\* Nothing changes for a user whose frozen amount, starts and rental stay.
LEMMA FrozenFrame ==
    ASSUME NEW u \in User, Frozen(u), Faultless' => Faultless,
           wallet'[u].frozen = wallet[u].frozen,
           Starting(u)' = Starting(u), Active(u)' = Active(u)
    PROVE  Frozen(u)'
<1>1. Owed(u)' = Owed(u)
  BY DEF Owed
<1> QED
  BY <1>1 DEF Frozen

\* What the five steps that count deposits do to the users they do not serve.
LEMMA FrozenOthers ==
    ASSUME TypeInv, [Next]_vars, NEW r \in Request, Handle(r) \/ TransactionFails(r),
           pc[r] # "idle", NEW u \in User, u # call[r].user, Frozen(u),
           wallet'[u] = wallet[u], Active(u)' = Active(u),
           call'[r].user = call[r].user
    PROVE  Frozen(u)'
<1>1. Starting(u)' = Starting(u) \ {r} /\ r \notin Starting(u)
  BY StartingChanges DEF Starts
<1>2. Starting(u)' = Starting(u)
  BY <1>1
<1> QED
  BY <1>2, FaultsGrow, FrozenFrame

\* Freezing the deposit begins a start.
LEMMA FrozenPrepare ==
    ASSUME TypeInv, \A u \in User : Frozen(u), [Next]_vars, NEW r \in Request, Prepare(r),
           NEW u \in User
    PROVE  Frozen(u)'
<1>1. /\ call'[r].user = call[r].user /\ call'[r].op = "start" /\ call[r].user \in User
      /\ pc[r] = "prepare" /\ pc'[r] = "await"
  BY CallChanges DEF Handle, Prepare, GoTo, NoCall, TypeInv, TypeOK, CallsFit, CallFits
<1>2. Active(u)' = Active(u)
  BY DEF Prepare, Active
<1>3. CASE u # call[r].user
  <2>1. wallet'[u] = wallet[u]
    BY <1>3 DEF Prepare, WithWallet, TypeInv, TypeOK
  <2> QED
    BY <1>1, <1>2, <1>3, <2>1, FrozenOthers DEF Handle
<1>4. CASE u = call[r].user
  <2>1. Starting(u)' = Starting(u) \cup {r} /\ r \notin Starting(u)
    BY <1>1, <1>4, StartingChanges DEF Handle, Starts
  <2>2. Owed(u)' = Owed(u) + Deposit /\ Owed(u) \in Nat
    BY <1>2, <2>1, OwedIsDebt, DebtChanges DEF Owed, Debt
  <2>3. wallet'[u].frozen = wallet[u].frozen + Deposit /\ wallet[u] \in WalletRow
    BY <1>4 DEF Prepare, WithWallet, Freeze, TypeInv, TypeOK, WalletRow
  <2> QED
    BY <2>2, <2>3, FaultsGrow, RentalsAssumption DEF Frozen, WalletRow
<1> QED
  BY <1>3, <1>4

\* Giving the deposit back ends one.
LEMMA FrozenRelease ==
    ASSUME TypeInv, \A u \in User : Frozen(u), [Next]_vars, NEW r \in Request,
           ReleaseFrozenDeposit(r), NEW u \in User
    PROVE  Frozen(u)'
<1>1. /\ call' = call /\ call[r].op = "start" /\ call[r].user \in User
      /\ pc[r] = "compensate" /\ pc'[r] = "unlock"
  BY DEF ReleaseFrozenDeposit, GoTo, TypeInv, TypeOK, CallsFit, CallFits
<1>2. Active(u)' = Active(u)
  BY DEF ReleaseFrozenDeposit, Active
<1>3. CASE u # call[r].user
  <2>1. wallet'[u] = wallet[u]
    BY <1>3 DEF ReleaseFrozenDeposit, WithWallet, TypeInv, TypeOK
  <2> QED
    BY <1>1, <1>2, <1>3, <2>1, FrozenOthers DEF Handle
<1>4. CASE u = call[r].user
  <2>1. Starting(u)' = Starting(u) \ {r} /\ r \in Starting(u)
    BY <1>1, <1>4, StartingChanges DEF Handle, Starts
  <2>2. Owed(u)' = Owed(u) - Deposit /\ Owed(u) \in Nat /\ Owed(u) >= Deposit
    <3>1. Owed(u)' = Debt(Starting(u) \ {r}, Active(u))
      BY <1>2, <2>1 DEF Owed, Debt
    <3> QED
      BY <2>1, <3>1, OwedIsDebt, DebtChanges
  <2>3. wallet[u].frozen >= Deposit /\ wallet[u] \in WalletRow
    BY <2>2, RentalsAssumption DEF Frozen, TypeInv, TypeOK, WalletRow
  <2>4. wallet'[u].frozen = wallet[u].frozen - Deposit
    BY <1>4, <2>3 DEF ReleaseFrozenDeposit, WithWallet, Unfreeze, TypeInv, TypeOK, WalletRow
  <2> QED
    BY <2>2, <2>3, <2>4, FaultsGrow, RentalsAssumption DEF Frozen, WalletRow
<1> QED
  BY <1>3, <1>4

\* A new rental takes over the deposit of its start.
LEMMA FrozenRent ==
    ASSUME TypeInv, \A u \in User : Frozen(u), [Next]_vars, NEW r \in Request,
           NEW i \in Rental, Rent(r, i), NEW u \in User
    PROVE  Frozen(u)'
<1>1. /\ call' = call /\ call[r].op = "start" /\ call[r].user \in User
      /\ pc[r] = "rent" /\ pc'[r] = "unlock" /\ wallet' = wallet
      /\ rental[i].status = "none"
      /\ rental' = [rental EXCEPT ![i] = [status |-> "active", user |-> call[r].user,
                                          bank |-> call[r].bank]]
  BY DEF Rent, GoTo, TypeInv, TypeOK, CallsFit, CallFits, field
<1>2. CASE u # call[r].user
  <2>1. Active(u)' = Active(u)
    BY <1>1, <1>2 DEF Active, TypeInv, TypeOK
  <2> QED
    BY <1>1, <1>2, <2>1, FrozenOthers DEF Handle
<1>3. CASE u = call[r].user
  <2>1. Active(u)' = Active(u) \cup {i} /\ i \notin Active(u)
    BY <1>1, <1>3 DEF Active, TypeInv, TypeOK
  <2>2. Starting(u)' = Starting(u) \ {r} /\ r \in Starting(u)
    BY <1>1, <1>3, StartingChanges DEF Handle, Starts
  <2>3. IsFiniteSet(Starting(u) \ {r}) /\ IsFiniteSet(Active(u)) /\ IsFiniteSet(Starting(u))
    BY OwedIsDebt, FS_Subset
  <2>4. Debt(Starting(u) \ {r}, Active(u)) = Owed(u) - Deposit
    BY <2>2, <2>3, DebtChanges, OwedIsDebt
  <2>5. Debt(Starting(u) \ {r}, Active(u) \cup {i})
          = Debt(Starting(u) \ {r}, Active(u)) + Deposit
    BY <2>1, <2>3, DebtChanges
  <2>6. Owed(u) \in Nat /\ Owed(u)' = Debt(Starting(u) \ {r}, Active(u) \cup {i})
    BY <2>1, <2>2, <2>3, DebtChanges, OwedIsDebt DEF Owed, Debt
  <2>7. Owed(u)' = Owed(u)
    BY <2>4, <2>5, <2>6, RentalsAssumption
  <2> QED
    BY <1>1, <2>7, FaultsGrow DEF Frozen
<1> QED
  BY <1>2, <1>3

\* Settling releases the deposit of the rental it ends, and it ends one.
LEMMA FrozenSettle ==
    ASSUME CustodyInv, \A u \in User : Frozen(u), [Next]_vars, NEW r \in Request,
           Settle(r), rental[call[r].rental].status = "active", NEW u \in User
    PROVE  Frozen(u)'
<1> DEFINE i == call[r].rental
<1>0. TypeInv
  BY DEF CustodyInv
<1>1. /\ call' = call /\ call[r].op = "return" /\ call[r].user \in User
      /\ i \in Rental /\ pc[r] = "settle" /\ pc'[r] = "unlock"
      /\ rental[i].user = call[r].user
  BY <1>0 DEF Settle, GoTo, CustodyInv, ReturnsFit, TypeInv, TypeOK, CallsFit, CallFits
<1>2. \A j \in Rental \ {i} : rental'[j] = rental[j]
  BY <1>0, <1>1 DEF Settle, TypeInv, TypeOK
<1>3. rental'[i].status = "completed"
  <2>1. \A row \in RentalRow : [row EXCEPT !.status = "completed"].status = "completed"
    BY DEF RentalRow
  <2> QED
    BY <1>0, <1>1, <2>1 DEF Settle, TypeInv, TypeOK
<1>4. CASE u # call[r].user
  <2>1. Active(u)' = Active(u)
    BY <1>1, <1>2, <1>3, <1>4 DEF Active
  <2>2. wallet'[u] = wallet[u]
    BY <1>0, <1>4 DEF Settle, WithWallet, TypeInv, TypeOK
  <2> QED
    BY <1>0, <1>1, <1>4, <2>1, <2>2, FrozenOthers DEF Handle
<1>5. CASE u = call[r].user
  <2>1. Active(u)' = Active(u) \ {i} /\ i \in Active(u)
    BY <1>1, <1>2, <1>3, <1>5 DEF Active
  <2>2. Starting(u)' = Starting(u)
    BY <1>0, <1>1, StartingChanges DEF Handle, Starts
  <2>3. Owed(u)' = Owed(u) - Deposit /\ Owed(u) \in Nat /\ Owed(u) >= Deposit
    <3>1. Owed(u)' = Debt(Starting(u), Active(u) \ {i})
      BY <2>1, <2>2 DEF Owed, Debt
    <3> QED
      BY <2>1, <3>1, OwedIsDebt, DebtChanges
  <2>4. wallet[u].frozen >= Deposit /\ wallet[u] \in WalletRow
    BY <1>0, <2>3, RentalsAssumption DEF Frozen, TypeInv, TypeOK, WalletRow
  <2>5. wallet'[u].frozen = wallet[u].frozen - Deposit
    BY <1>0, <1>5, <2>4 DEF Settle, WithWallet, SettledWallet, Unfreeze, Charge, TypeInv,
                            TypeOK, WalletRow
  <2> QED
    BY <1>0, <2>3, <2>4, <2>5, FaultsGrow, RentalsAssumption DEF Frozen, WalletRow
<1> QED
  BY <1>4, <1>5
DepositInv == SettleInv /\ DepositsAreFrozen

LEMMA DepositInit == Init => DepositInv
<1> SUFFICES ASSUME Init PROVE DepositInv
  OBVIOUS
<1>1. ASSUME NEW u \in User PROVE wallet[u].frozen = 0 /\ Owed(u) = 0
  <2>1. Starting(u) = {} /\ Active(u) = {}
    BY DEF Init, Starting, Active, NoCall, NoRental
  <2>2. Owed(u) = Deposit * (0 + 0)
    BY <2>1, FS_EmptySet DEF Owed
  <2>3. wallet[u].frozen = 0
    BY DEF Init
  <2> QED
    BY <2>2, <2>3, RentalsAssumption
<1> QED
  BY <1>1, SettleInit DEF DepositInv, DepositsAreFrozen

\* The handlers' other steps count no deposit.
LEMMA FrozenHandle ==
    ASSUME CustodyInv, \A u \in User : Frozen(u), [Next]_vars, NEW r \in Request,
           Arrive(r) \/ Handle(r),
           ~Prepare(r), ~ReleaseFrozenDeposit(r), ~Settle(r), ~\E i \in Rental : Rent(r, i),
           NEW u \in User
    PROVE  Frozen(u)'
<1>0. TypeInv
  BY DEF CustodyInv
<1>1. wallet'[u].frozen = wallet[u].frozen
  <2>1. CASE TopupWallet(r)
    BY <1>0, <2>1 DEF TopupWallet, WithWallet, Topup, TypeInv, TypeOK, WalletRow
  <2>2. CASE ~TopupWallet(r)
    BY <2>2 DEF Arrive, BeginStart, BeginReturn, BeginTopup, Handle, tables,
              CheckActive, RejectStart, AcquireSlotLock, SlotLockBusy, AcquireWalletLock,
              WalletLockBusy, WalletLockBusyOnReturn, PrepareFails, ReceiveAck,
              NoAnswer, RentFails, CheckBank, SettleFails, Unlock
  <2> QED
    BY <2>1, <2>2
<1>2. rental' = rental
  BY DEF Arrive, BeginStart, BeginReturn, BeginTopup, Handle, tables,
              CheckActive, RejectStart, AcquireSlotLock, SlotLockBusy, AcquireWalletLock,
              WalletLockBusy, WalletLockBusyOnReturn, PrepareFails, ReceiveAck,
              NoAnswer, RentFails, CheckBank, SettleFails, TopupWallet, Unlock
<1>3. Starts(r, u)' <=> Starts(r, u)
  <2>1. CASE Arrive(r)
    BY <1>0, <2>1, ArrivalPlace DEF Starts
  <2>2. CASE RentFails(r)
    BY <1>0, <2>2 DEF RentFails, GoTo, Starts, TypeInv, TypeOK
  <2>3. CASE ReceiveAck(r) \/ NoAnswer(r)
    BY <1>0, <2>3 DEF ReceiveAck, NoAnswer, OnAck, OnFailedCommand, GoTo, Starts, TypeInv,
                      TypeOK
  <2>4. CASE AcquireWalletLock(r)
    <3>1. pc[r] = "lockWallet" /\ call' = call
          /\ pc'[r] = UnderWalletLock(call[r].op)
      BY <1>0, <2>4 DEF AcquireWalletLock, GoTo, TypeInv, TypeOK
    <3> QED
      BY <3>1 DEF UnderWalletLock, Starts
  <2>5. CASE Handle(r) /\ ~RentFails(r) /\ ~ReceiveAck(r) /\ ~NoAnswer(r)
                       /\ ~AcquireWalletLock(r)
    <3>1. pc[r] \notin {"await", "rent", "compensate"}
      BY <2>5 DEF Handle, CheckActive, RejectStart, AcquireSlotLock, SlotLockBusy,
                  WalletLockBusy, WalletLockBusyOnReturn, PrepareFails, CheckBank,
                  SettleFails, TopupWallet, Unlock
    <3>2. pc'[r] \notin {"await", "rent", "compensate"}
      BY <1>0, <2>5, <3>1, PcChanges
    <3> QED
      BY <3>1, <3>2 DEF Starts
  <2> QED
    BY <2>1, <2>2, <2>3, <2>4, <2>5
<1>4. Starting(u)' = Starting(u)
  <2>1. CASE Starts(r, u)
    <3>1. Starting(u)' = Starting(u) \cup {r} /\ r \in Starting(u)
      BY <1>0, <1>3, <2>1, StartingChanges
    <3> QED
      BY <3>1
  <2>2. CASE ~Starts(r, u)
    <3>1. Starting(u)' = Starting(u) \ {r} /\ r \notin Starting(u)
      BY <1>0, <1>3, <2>2, StartingChanges
    <3> QED
      BY <3>1
  <2> QED
    BY <2>1, <2>2
<1>5. Active(u)' = Active(u)
  BY <1>2 DEF Active
<1> QED
  BY <1>0, <1>1, <1>4, <1>5, FaultsGrow, FrozenFrame

\* A transaction that fails leaves the deposit frozen, and so does a crash: more
\* may then be frozen than is owed, never less.
LEMMA FrozenFaults ==
    ASSUME TypeInv, \A u \in User : Frozen(u), [Next]_vars,
           Crash \/ \E r \in Request : TransactionFails(r), NEW u \in User
    PROVE  Frozen(u)'
<1>1. ~Faultless'
  BY DEF Crash, TransactionFails, Strike, Faultless, FaultKind, TypeInv, TypeOK
<1>2. wallet' = wallet /\ Active(u)' = Active(u)
  BY DEF Crash, TransactionFails, tables, Active
<1>3. Starting(u)' \subseteq Starting(u)
  <2>1. CASE Crash
    BY <2>1, CrashEnds DEF Starting
  <2>2. ASSUME NEW r \in Request, TransactionFails(r)
        PROVE  Starting(u)' \subseteq Starting(u)
    BY <2>2 DEF TransactionFails, GoTo, Starting, TypeInv, TypeOK
  <2> QED
    BY <2>1, <2>2
<1>4. Owed(u)' <= Owed(u) /\ Owed(u) \in Nat /\ Owed(u)' \in Nat
  <2>1. /\ IsFiniteSet(Starting(u)) /\ IsFiniteSet(Active(u))
        /\ Cardinality(Starting(u)') <= Cardinality(Starting(u))
        /\ Cardinality(Starting(u)') \in Nat
    BY <1>3, OwedIsDebt, FS_Subset, FS_CardinalityType
  <2>2. Cardinality(Starting(u)) \in Nat /\ Cardinality(Active(u)) \in Nat /\ Deposit \in Nat
    BY <2>1, FS_CardinalityType, RentalsAssumption
  <2>3. \A d, k, m, n \in Nat : k <= m => /\ d * (k + n) <= d * (m + n)
                                          /\ d * (k + n) \in Nat /\ d * (m + n) \in Nat
    OBVIOUS
  <2>4. Owed(u)' = Deposit * (Cardinality(Starting(u)') + Cardinality(Active(u)))
    BY <1>2 DEF Owed
  <2> QED
    BY <2>1, <2>2, <2>3, <2>4 DEF Owed
<1>5. wallet[u].frozen >= Owed(u) /\ wallet[u].frozen \in Nat
  BY DEF Frozen, TypeInv, TypeOK, WalletRow
<1> QED
  BY <1>1, <1>2, <1>4, <1>5 DEF Frozen

\* Nothing else touches wallets, rentals or starts.
LEMMA FrozenEnvironment ==
    ASSUME TypeInv, \A u \in User : Frozen(u), [Next]_vars,
           Expiry \/ Field \/ UNCHANGED vars, NEW u \in User
    PROVE  Frozen(u)'
<1>1. UNCHANGED <<wallet, rental, pc, call>>
  BY DEF Expiry, RentalLockLapses, WalletLockLapses, SlotLockLapses, Field, CarryOut, Refuse,
         Drop, Snapshot, StoreSnapshot, vars, tables, process
<1>2. Starting(u)' = Starting(u) /\ Active(u)' = Active(u)
  BY <1>1 DEF Starting, Active
<1> QED
  BY <1>1, <1>2, FaultsGrow, FrozenFrame

LEMMA DepositStep ==
    ASSUME SettleHypothesis, DepositInv, [Next]_vars
    PROVE  DepositInv'
<1>0. CustodyInv /\ TypeInv /\ SettleInv
  BY DEF DepositInv, SettleInv, BanksInv, CustodyInv
<1>1. \A u \in User : Frozen(u)
  BY DEF DepositInv, DepositsAreFrozen, Frozen, Faultless
<1>2. ASSUME NEW u \in User PROVE Frozen(u)'
  <2>1. ASSUME NEW r \in Request, Settle(r) PROVE Frozen(u)'
    <3>1. rental[call[r].rental].status = "active"
      BY <1>0, <2>1, SettlesAnActiveRental
    <3> QED
      BY <1>0, <1>1, <2>1, <3>1, FrozenSettle
  <2> QED
    BY <1>0, <1>1, <2>1, FrozenPrepare, FrozenRelease, FrozenRent, FrozenHandle,
       FrozenFaults, FrozenEnvironment DEF Next
<1>3. DepositsAreFrozen'
  BY <1>2 DEF DepositsAreFrozen, Frozen, Faultless
<1> QED
  BY <1>0, <1>3, SettleStep DEF DepositInv

\* What is frozen is one deposit for each start in progress and each active
\* rental, whatever overlaps, lapses, fails or crashes, as long as a rental is
\* settled once: the wallet lock outlasts the wait for the cabinet, or no
\* command is left behind by a request that stopped waiting for it.
THEOREM DepositsFrozen ==
    ASSUME SettleHypothesis
    PROVE  Spec => []DepositsAreFrozen
<1>1. DepositInv => DepositsAreFrozen
  BY DEF DepositInv
<1>2. DepositInv /\ [Next]_vars => DepositInv'
  BY DepositStep
<1> QED
  BY <1>1, <1>2, DepositInit, PTL DEF Spec
-----------------------------------------------------------------------------
(***************************************************************************)
(* Renting keeps the promise of RentalContract.                            *)
(***************************************************************************)

\* The bank a user has taken, as the refinement mapping of Rentals sees it.
Taken(u) == IF Active(u) = {} THEN None ELSE rental[CHOOSE i \in Active(u) : TRUE].bank

Used == {b \in PowerBank : bankStatus[b] # "idle"}

\* There is at most one active rental to choose from.
LEMMA TakenIsRented ==
    CustodyInv => \A u \in User : \A i \in Active(u) :
                     Taken(u) = rental[i].bank /\ rental[i].bank \in PowerBank
<1> SUFFICES ASSUME CustodyInv, NEW u \in User, NEW i \in Active(u)
             PROVE  Taken(u) = rental[i].bank /\ rental[i].bank \in PowerBank
  OBVIOUS
<1>1. (CHOOSE j \in Active(u) : TRUE) \in Active(u)
  OBVIOUS
<1>2. (CHOOSE j \in Active(u) : TRUE) = i
  BY <1>1 DEF CustodyInv, OneActivePerUser, Active
<1> QED
  BY <1>2 DEF Taken, Active, CustodyInv, TypeInv, RowsFit, RowFits

\* The customer sees the tables of rentals, banks and balances only.
LEMMA ContractFrame ==
    ASSUME rental' = rental, bankStatus' = bankStatus,
           \A u \in User : wallet'[u].balance = wallet[u].balance
    PROVE  UNCHANGED Contract!vars
BY DEF Contract!vars, Active

\* Renting is the contract's Begin.
LEMMA ContractRent ==
    ASSUME DepositInv, DepositsAreFunded, [Next]_vars, NEW r \in Request, NEW i \in Rental,
           Rent(r, i), NEW u, u = call[r].user, NEW b, b = call[r].bank
    PROVE  u \in User /\ b \in PowerBank /\ Contract!Begin(u, b)
<1>0. CustodyInv /\ TypeInv
  BY DEF DepositInv, SettleInv, BanksInv, CustodyInv
<1>1. /\ u \in User /\ b \in PowerBank /\ bankStatus[b] = "idle" /\ Active(u) = {}
      /\ rental[i].status = "none" /\ call[r].op = "start" /\ pc[r] = "rent"
      /\ wallet' = wallet
      /\ bankStatus' = [bankStatus EXCEPT ![b] = "rented"]
      /\ rental' = [rental EXCEPT ![i] = [status |-> "active", user |-> u, bank |-> b]]
  BY <1>0 DEF Rent, CanRent, SlotStillHoldsBank, ActiveKeyFree, TypeInv, TypeOK, CallsFit,
              CallFits
<1>2. wallet[u].balance >= Deposit
  <2>1. r \in Starting(u)
    BY <1>1 DEF Starting
  <2>2. Owed(u) >= Deposit /\ Owed(u) \in Nat
    <3>1. /\ IsFiniteSet(Starting(u)) /\ IsFiniteSet(Active(u))
          /\ Owed(u) = Debt(Starting(u), Active(u))
      BY <1>1, OwedIsDebt
    <3>2. /\ Debt(Starting(u), Active(u)) \in Nat
          /\ \A x \in Starting(u) : Debt(Starting(u), Active(u)) >= Deposit
      BY <3>1, DebtChanges
    <3> QED
      BY <2>1, <3>1, <3>2
  <2>3. wallet[u].frozen >= Owed(u) /\ wallet[u].frozen <= wallet[u].balance
        /\ wallet[u] \in WalletRow
    BY <1>0, <1>1 DEF DepositInv, DepositsAreFrozen, DepositsAreFunded, TypeInv, TypeOK
  <2> QED
    BY <2>2, <2>3, RentalsAssumption DEF WalletRow
<1>3. ASSUME NEW v \in User PROVE Taken(v)' = IF v = u THEN b ELSE Taken(v)
  <2>1. CASE v = u
    <3>1. Active(v)' = {i}
      BY <1>0, <1>1, <2>1 DEF Active, TypeInv, TypeOK
    <3>2. rental'[i].bank = b
      BY <1>0, <1>1 DEF TypeInv, TypeOK
    <3> QED
      BY <2>1, <3>1, <3>2 DEF Taken
  <2>2. CASE v # u
    <3>1. Active(v)' = Active(v)
      BY <1>0, <1>1, <2>2 DEF Active, TypeInv, TypeOK
    <3>2. \A j \in Active(v) : rental'[j] = rental[j]
      BY <1>0, <1>1 DEF Active, TypeInv, TypeOK
    <3> QED
      BY <2>2, <3>1, <3>2 DEF Taken
  <2> QED
    BY <2>1, <2>2
<1>4. Used' = Used \cup {b} /\ b \notin Used
  BY <1>0, <1>1 DEF Used, TypeInv, TypeOK
<1>5. Taken(u) = None
  BY <1>1 DEF Taken
<1>6. [v \in User |-> Taken(v)'] = [[v \in User |-> Taken(v)] EXCEPT ![u] = b]
  BY <1>1, <1>3
<1>7. Contract!Begin(u, b)
  BY <1>1, <1>2, <1>4, <1>5, <1>6 DEF Contract!Begin, Taken, Used
<1> QED
  BY <1>1, <1>7
\* Settling is the contract's End.
LEMMA ContractSettle ==
    ASSUME DepositInv, ChargesFit, [Next]_vars, NEW r \in Request, Settle(r),
           rental[call[r].rental].status = "active",
           NEW u, u = call[r].user, NEW charge, charge = call[r].charge
    PROVE  u \in User /\ charge \in ChargeAmount /\ Contract!End(u, charge)
<1>0. CustodyInv /\ TypeInv
  BY DEF DepositInv, SettleInv, BanksInv, CustodyInv
<1> DEFINE i == call[r].rental
<1>1. /\ pc[r] = "settle" /\ call[r].op = "return" /\ u \in User /\ i \in Rental
      /\ call[r].bank \in PowerBank
      /\ rental[i].status = "active" /\ rental[i].user = u /\ rental[i].bank = call[r].bank
      /\ charge \in ChargeAmount /\ charge \in Nat
  BY <1>0, RentalsAssumption
     DEF Settle, ChargesFit, CustodyInv, ReturnsFit, TypeInv, CallsFit, CallFits
<1>2. /\ rental'[i].status = "completed"
      /\ \A j \in Rental \ {i} : rental'[j] = rental[j]
  <2>1. \A row \in RentalRow : [row EXCEPT !.status = "completed"].status = "completed"
    BY DEF RentalRow
  <2> QED
    BY <1>0, <1>1, <2>1 DEF Settle, TypeInv, TypeOK
<1>3. Taken(u) # None
  <2>1. i \in Active(u)
    BY <1>1 DEF Active
  <2>2. Taken(u) \in PowerBank
    BY <1>0, <1>1, <2>1, TakenIsRented
  <2> QED
    BY <2>2, RentalsAssumption
<1>4. ASSUME NEW v \in User PROVE Taken(v)' = IF v = u THEN None ELSE Taken(v)
  <2>1. CASE v = u
    <3>1. Active(v)' = {}
      BY <1>0, <1>1, <1>2, <2>1 DEF Active, CustodyInv, OneActivePerUser
    <3> QED
      BY <2>1, <3>1 DEF Taken
  <2>2. CASE v # u
    <3>1. Active(v)' = Active(v) /\ i \notin Active(v)
      BY <1>1, <1>2, <2>2 DEF Active
    <3>2. \A j \in Active(v) : rental'[j] = rental[j]
      BY <1>2, <3>1 DEF Active
    <3> QED
      BY <2>2, <3>1, <3>2 DEF Taken
  <2> QED
    BY <2>1, <2>2
<1>5. Used' = Used
  <2>1. bankStatus[call[r].bank] = "rented"
    BY <1>0, <1>1 DEF CustodyInv, BankFollowsRental
  <2> QED
    BY <1>0, <1>1, <2>1 DEF Settle, Used, TypeInv, TypeOK
<1>6. /\ wallet[u].balance >= charge
      /\ \A v \in User : wallet'[v].balance = IF v = u THEN wallet[v].balance - charge
                                                       ELSE wallet[v].balance
  <2>1. wallet[u] \in WalletRow /\ Unfreeze(wallet[u], Deposit) \in WalletRow
    BY <1>0, <1>1, WalletOpsType, RentalsAssumption DEF TypeInv, TypeOK
  <2>2. Unfreeze(wallet[u], Deposit).balance = wallet[u].balance
    BY <2>1 DEF Unfreeze, WalletRow
  <2>3. wallet[u].balance >= charge
    BY <1>1, <2>1, <2>2 DEF Settle, CanSettle, Covered, Available, WalletRow
  <2>4. \A row \in WalletRow : [row EXCEPT !.balance = @ - charge].balance
                                 = row.balance - charge
    BY DEF WalletRow
  <2>5. wallet' = [wallet EXCEPT ![u] = [Unfreeze(wallet[u], Deposit)
                                           EXCEPT !.balance = @ - charge]]
    BY DEF Settle, WithWallet, SettledWallet, Charge
  <2> QED
    BY <1>0, <1>1, <2>1, <2>2, <2>3, <2>4, <2>5 DEF TypeInv, TypeOK
<1>7. [v \in User |-> Taken(v)'] = [[v \in User |-> Taken(v)] EXCEPT ![u] = None]
  BY <1>1, <1>4
<1>8. [v \in User |-> wallet'[v].balance]
        = [[v \in User |-> wallet[v].balance] EXCEPT ![u] = @ - charge]
  BY <1>1, <1>6
<1>9. Contract!End(u, charge)
  BY <1>1, <1>3, <1>5, <1>6, <1>7, <1>8 DEF Contract!End, Taken, Used
<1> QED
  BY <1>1, <1>9

\* The direct top-up is the contract's AddFunds.
LEMMA ContractTopup ==
    ASSUME TypeInv, NEW r \in Request, TopupWallet(r), NEW u, u = call[r].user
    PROVE  u \in User /\ Contract!AddFunds(u)
<1>1. u \in User /\ rental' = rental /\ bankStatus' = bankStatus /\ wallet[u] \in WalletRow
  BY DEF TopupWallet, TypeInv, TypeOK, CallsFit, CallFits
<1>2. \A v \in User : wallet'[v].balance = IF v = u THEN wallet[v].balance + TopupAmount
                                                     ELSE wallet[v].balance
  <2>1. \A row \in WalletRow : [row EXCEPT !.balance = @ + TopupAmount].balance
                                 = row.balance + TopupAmount
    BY DEF WalletRow
  <2> QED
    BY <1>1, <2>1 DEF TopupWallet, WithWallet, Topup, TypeInv, TypeOK
<1>3. [v \in User |-> wallet'[v].balance]
        = [[v \in User |-> wallet[v].balance] EXCEPT ![u] = @ + TopupAmount]
  BY <1>1, <1>2
<1>4. \A v \in User : Taken(v)' = Taken(v)
  BY <1>1 DEF Taken, Active
<1> QED
  BY <1>1, <1>3, <1>4 DEF Contract!AddFunds, Taken
\* No other step is seen by the customer.
LEMMA ContractStutter ==
    ASSUME TypeInv, [Next]_vars,
           \A r \in Request : ~Settle(r) /\ ~TopupWallet(r) /\ ~\E i \in Rental : Rent(r, i)
    PROVE  UNCHANGED Contract!vars
<1>1. bankStatus' = bankStatus /\ rental' = rental
  BY TablesChange
<1>2. ASSUME NEW r \in Request, Prepare(r)
      PROVE  \A u \in User : wallet'[u].balance = wallet[u].balance
  BY <1>2 DEF Prepare, WithWallet, Freeze, TypeInv, TypeOK, WalletRow
<1>3. ASSUME NEW r \in Request, ReleaseFrozenDeposit(r)
      PROVE  \A u \in User : wallet'[u].balance = wallet[u].balance
  BY <1>3 DEF ReleaseFrozenDeposit, WithWallet, Unfreeze, TypeInv, TypeOK, WalletRow
<1>4. ASSUME NEW r \in Request, Arrive(r) \/ Handle(r) \/ TransactionFails(r),
             ~Prepare(r), ~ReleaseFrozenDeposit(r)
      PROVE  wallet' = wallet
  BY <1>4 DEF Arrive, BeginStart, BeginReturn, BeginTopup, TransactionFails, Handle, tables,
              CheckActive, RejectStart, AcquireSlotLock, SlotLockBusy, AcquireWalletLock,
              WalletLockBusy, WalletLockBusyOnReturn, PrepareFails, ReceiveAck,
              NoAnswer, RentFails, CheckBank, SettleFails, Unlock
<1>5. ASSUME Expiry \/ Field \/ Crash \/ UNCHANGED vars
      PROVE  wallet' = wallet
  BY <1>5 DEF Expiry, RentalLockLapses, WalletLockLapses, SlotLockLapses, Field, CarryOut,
              Refuse, Drop, Snapshot, StoreSnapshot, Crash, vars, tables
<1>6. \A u \in User : wallet'[u].balance = wallet[u].balance
  BY <1>2, <1>3, <1>4, <1>5 DEF Next
<1> QED
  BY <1>1, <1>6, ContractFrame

ContractInv == DepositInv /\ DepositsAreFunded /\ ChargesFit

LEMMA ContractInit == Init => ContractInv /\ Contract!Init
<1> SUFFICES ASSUME Init PROVE ContractInv /\ Contract!Init
  OBVIOUS
<1>1. \A u \in User : /\ wallet[u].balance \in InitialBalance
                      /\ wallet[u].frozen = 0 /\ wallet[u].balance \in Nat
  <2> SUFFICES ASSUME NEW u \in User
               PROVE  /\ wallet[u].balance \in InitialBalance
                      /\ wallet[u].frozen = 0 /\ wallet[u].balance \in Nat
    OBVIOUS
  <2>1. PICK b \in InitialBalance : wallet[u] = [balance |-> b, frozen |-> 0]
    BY DEF Init
  <2>2. b \in Nat
    BY RentalsAssumption
  <2> QED
    BY <2>1, <2>2
<1>2. \A u \in User : Active(u) = {}
  BY DEF Init, Active, NoRental
<1>3. ChargesFit
  BY DEF Init, ChargesFit, NoCall
<1>4. Contract!Init
  BY <1>1, <1>2 DEF Contract!Init, Init
<1> QED
  BY <1>1, <1>3, <1>4, DepositInit DEF ContractInv, DepositsAreFunded

LEMMA ChargesStep ==
    ASSUME TypeInv, ChargesFit, [Next]_vars
    PROVE  ChargesFit'
<1> SUFFICES ASSUME NEW q \in Request, call'[q].op = "return"
             PROVE  call'[q].charge \in ChargeAmount
  BY DEF ChargesFit
<1>1. CASE Arrive(q)
  <2>1. ASSUME NEW u \in User, NEW s \in Slot, BeginStart(q, u, s) PROVE FALSE
    BY <2>1 DEF BeginStart, NoCall, TypeInv, TypeOK
  <2>2. ASSUME NEW u \in User, BeginTopup(q, u) PROVE FALSE
    BY <2>2 DEF BeginTopup, NoCall, TypeInv, TypeOK
  <2>3. ASSUME NEW u \in User, NEW s \in Slot, NEW i \in Rental,
               NEW charge \in ChargeAmount, BeginReturn(q, u, i, s, charge)
        PROVE  call'[q].charge \in ChargeAmount
    BY <2>3 DEF BeginReturn, TypeInv, TypeOK
  <2> QED
    BY <1>1, <2>1, <2>2, <2>3 DEF Arrive
<1>2. CASE Handle(q) \/ TransactionFails(q)
  <2>1. pc[q] = "prepare" => call[q].op # "return"
    BY DEF TypeInv, CallsFit, CallFits
  <2> QED
    BY <1>2, <2>1, CallChanges DEF ChargesFit, NoCall
<1>3. CASE call'[q] = call[q] \/ call'[q] = NoCall
  BY <1>3 DEF ChargesFit, NoCall
<1> QED
  BY <1>1, <1>2, <1>3, RequestChanges

LEMMA ContractStep ==
    ASSUME SettleHypothesis, ContractInv, [Next]_vars
    PROVE  ContractInv' /\ [Contract!Next]_(Contract!vars)
<1>0. TypeInv /\ DepositInv /\ SettleInv
  BY DEF ContractInv, DepositInv, SettleInv, BanksInv, CustodyInv
<1>1. ContractInv'
  BY <1>0, DepositStep, FundedStep, ChargesStep DEF ContractInv
<1>2. ASSUME NEW r \in Request, NEW i \in Rental, Rent(r, i)
      PROVE  Contract!Next
  BY <1>2, ContractRent DEF ContractInv, Contract!Next
<1>3. ASSUME NEW r \in Request, Settle(r)
      PROVE  Contract!Next
  BY <1>0, <1>3, SettlesAnActiveRental, ContractSettle DEF ContractInv, Contract!Next
<1>4. ASSUME NEW r \in Request, TopupWallet(r)
      PROVE  Contract!Next
  BY <1>0, <1>4, ContractTopup DEF Contract!Next
<1> QED
  BY <1>0, <1>1, <1>2, <1>3, <1>4, ContractStutter

\* Renting keeps its promise to the customer under the same hypothesis: a
\* rental begins with the deposit covered and ends with a single charge, and
\* nothing else moves a balance.
THEOREM KeepsTheContract ==
    ASSUME SettleHypothesis
    PROVE  Spec => ImplementsContract
<1>1. ContractInv /\ [Next]_vars => ContractInv' /\ [Contract!Next]_(Contract!vars)
  BY ContractStep
<1> QED
  BY <1>1, ContractInit, PTL DEF Spec, ImplementsContract, Contract!Spec
=============================================================================
