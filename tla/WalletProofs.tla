---------------------------- MODULE WalletProofs ----------------------------
(***************************************************************************)
(* The wallet for any number of callers, scripts and ledger entries: the   *)
(* row lock alone keeps the ledger a chain from the blank row to the       *)
(* committed one, the frozen amount covered, and the balance the signed    *)
(* sum of the ledger.  Nothing is assumed of the Redis lock.               *)
(***************************************************************************)
EXTENDS Wallet, WellFoundedInduction, TLAPS

\* A row that accepts an operation becomes a row, and a covered one remains
\* covered: calculateNewState leaves neither column negative.
LEMMA NewStateIsRow ==
    ASSUME NEW row \in WalletRow, NEW op \in Operation,
           row.frozen <= row.balance, Accepts(row, op)
    PROVE  /\ NewState(row, op) \in WalletRow
           /\ NewState(row, op).frozen <= NewState(row, op).balance
<1>1. op.type \in TransactionType /\ op.amount \in Nat
  BY DEF Operation
<1>2. row.balance \in Nat /\ row.frozen \in Nat
  BY DEF WalletRow
<1>3. CASE op.type = "topup"
  BY <1>1, <1>2, <1>3 DEF NewState, Topup, WalletRow
<1>4. CASE op.type = "freeze"
  <2>1. row.balance - row.frozen >= op.amount
    BY <1>4 DEF Accepts, Covered, Available
  <2>2. NewState(row, op) = [row EXCEPT !.frozen = @ + op.amount]
    BY <1>4 DEF NewState, Freeze
  <2> QED
    BY <1>1, <1>2, <2>1, <2>2 DEF WalletRow
<1>5. CASE op.type = "unfreeze"
  <2>1. NewState(row, op) =
          [row EXCEPT !.frozen = IF @ >= op.amount THEN @ - op.amount ELSE 0]
    BY <1>5 DEF NewState, Unfreeze
  <2> QED
    BY <1>1, <1>2, <2>1 DEF WalletRow
<1>6. CASE op.type = "charge"
  <2>1. row.balance - row.frozen >= op.amount
    BY <1>6 DEF Accepts, Covered, Available
  <2>2. NewState(row, op) = [row EXCEPT !.balance = @ - op.amount]
    BY <1>6 DEF NewState, Charge
  <2> QED
    BY <1>1, <1>2, <2>1, <2>2 DEF WalletRow
<1> QED
  BY <1>1, <1>3, <1>4, <1>5, <1>6 DEF TransactionType

\* Only top-ups and charges move the balance, by the amount they sign.
LEMMA BalanceMoves ==
    ASSUME NEW row \in WalletRow, NEW type \in TransactionType,
           NEW amount \in Nat, NEW op,
           op.type = type, op.amount = amount
    PROVE  /\ SignedAmount(op) \in Int
           /\ NewState(row, op).balance = row.balance + SignedAmount(op)
<1>1. row.balance \in Nat /\ row.frozen \in Nat
  BY DEF WalletRow
<1>2. \A v : [row EXCEPT !.frozen = v].balance = row.balance
  BY DEF WalletRow
<1>3. \A v : [row EXCEPT !.balance = v].balance = v
  BY DEF WalletRow
<1>4. CASE type = "topup"
  <2>1. NewState(row, op) = [row EXCEPT !.balance = @ + amount]
    BY <1>4 DEF NewState, Topup
  <2>2. SignedAmount(op) = amount
    BY <1>4 DEF SignedAmount
  <2> QED
    BY <1>1, <1>3, <2>1, <2>2
<1>5. CASE type = "freeze"
  <2>1. NewState(row, op) = [row EXCEPT !.frozen = @ + amount]
    BY <1>5 DEF NewState, Freeze
  <2>2. SignedAmount(op) = 0
    BY <1>5 DEF SignedAmount
  <2> QED
    BY <1>1, <1>2, <2>1, <2>2
<1>6. CASE type = "unfreeze"
  <2>1. NewState(row, op) =
          [row EXCEPT !.frozen = IF @ >= amount THEN @ - amount ELSE 0]
    BY <1>6 DEF NewState, Unfreeze
  <2>2. SignedAmount(op) = 0
    BY <1>6 DEF SignedAmount
  <2> QED
    BY <1>1, <1>2, <2>1, <2>2
<1>7. CASE type = "charge"
  <2>1. NewState(row, op) = [row EXCEPT !.balance = @ - amount]
    BY <1>7 DEF NewState, Charge
  <2>2. SignedAmount(op) = -amount
    BY <1>7 DEF SignedAmount
  <2> QED
    BY <1>1, <1>3, <2>1, <2>2
<1> QED
  BY <1>4, <1>5, <1>6, <1>7 DEF TransactionType
-----------------------------------------------------------------------------
\* Nothing written leads from a row to itself.
LEMMA ChainsEmpty ==
    ASSUME NEW row
    PROVE  Chains(row, <<>>, row)
BY DEF Chains, Before

\* One more entry, carrying the state it leads to, extends a chain to it.
LEMMA ChainsAppend ==
    ASSUME NEW start, NEW last,
           NEW entries \in Seq(Entry), NEW entry \in Entry,
           Chains(start, entries, last), entry.after = NewState(last, entry)
    PROVE  Chains(start, Append(entries, entry), entry.after)
<1> DEFINE more == Append(entries, entry)
<1>1. /\ Len(entries) \in Nat
      /\ Len(more) = Len(entries) + 1
      /\ \A i \in 1..Len(entries) : more[i] = entries[i]
      /\ more[Len(entries) + 1] = entry
  OBVIOUS
<1> HIDE DEF more
<1>2. \A i \in 1..Len(entries) + 1 :
        Before(start, more, i) = Before(start, entries, i)
  BY <1>1 DEF Before
<1>3. Before(start, more, Len(more) + 1) = entry.after
  BY <1>1 DEF Before
<1>4. last = Before(start, entries, Len(entries) + 1)
  BY DEF Chains
<1>5. ASSUME NEW i \in 1..Len(more)
      PROVE  more[i].after = NewState(Before(start, more, i), more[i])
  <2>1. CASE i = Len(entries) + 1
    <3>1. Before(start, more, i) = last
      BY <1>1, <1>2, <1>4, <2>1
    <3> QED
      BY <1>1, <2>1, <3>1
  <2>2. CASE i # Len(entries) + 1
    <3>1. i \in 1..Len(entries)
      BY <1>1, <2>2
    <3>2. entries[i].after = NewState(Before(start, entries, i), entries[i])
      BY <3>1 DEF Chains
    <3> QED
      BY <1>1, <1>2, <3>1, <3>2
  <2> QED
    BY <2>1, <2>2
<1>6. Chains(start, more, entry.after)
  BY <1>3, <1>5 DEF Chains
<1> QED
  BY <1>6 DEF more

\* A chain that starts where another one ends continues it.
LEMMA ChainsConcat ==
    ASSUME NEW start, NEW middle, NEW last,
           NEW first \in Seq(Entry), NEW second \in Seq(Entry),
           Chains(start, first, middle), Chains(middle, second, last)
    PROVE  Chains(start, first \o second, last)
<1> DEFINE both == first \o second
           m == Len(first)
           n == Len(second)
<1>1. /\ m \in Nat /\ n \in Nat
      /\ Len(both) = m + n
      /\ \A i \in 1..m : both[i] = first[i]
      /\ \A i \in m + 1..m + n : both[i] = second[i - m]
  OBVIOUS
<1> HIDE DEF both, m, n
<1>2. middle = Before(start, first, m + 1)
  BY DEF Chains, m
<1>3. last = Before(middle, second, n + 1)
  BY DEF Chains, n
<1>4. ASSUME NEW i \in 1..m + 1
      PROVE  Before(start, both, i) = Before(start, first, i)
  BY <1>1 DEF Before
<1>5. ASSUME NEW i \in m + 1..m + n + 1
      PROVE  Before(start, both, i) = Before(middle, second, i - m)
  <2>1. CASE i = m + 1
    <3>1. Before(start, both, i) = middle
      BY <1>1, <1>2, <1>4, <2>1
    <3>2. i - m = 1
      BY <1>1, <2>1
    <3> QED
      BY <3>1, <3>2 DEF Before
  <2>2. CASE i # m + 1
    <3>1. i # 1 /\ i - m # 1 /\ i - 1 \in m + 1..m + n
      BY <1>1, <2>2
    <3>2. both[i - 1] = second[(i - m) - 1]
      BY <1>1, <3>1
    <3> QED
      BY <3>1, <3>2 DEF Before
  <2> QED
    BY <2>1, <2>2
<1>6. ASSUME NEW i \in 1..Len(both)
      PROVE  both[i].after = NewState(Before(start, both, i), both[i])
  <2>1. CASE i <= m
    <3>1. first[i].after = NewState(Before(start, first, i), first[i])
      BY <1>1, <2>1 DEF Chains, m
    <3> QED
      BY <1>1, <1>4, <2>1, <3>1
  <2>2. CASE i > m
    <3>1. i - m \in 1..n /\ i \in m + 1..m + n /\ i \in m + 1..m + n + 1
      BY <1>1, <2>2
    <3>2. second[i - m].after =
            NewState(Before(middle, second, i - m), second[i - m])
      BY <3>1 DEF Chains, n
    <3> QED
      BY <1>1, <1>5, <3>1, <3>2
  <2> QED
    BY <1>1, <2>1, <2>2
<1>7. last = Before(start, both, Len(both) + 1)
  <2>1. PICK k \in m + 1..m + n + 1 : k = Len(both) + 1
    BY <1>1
  <2>2. Before(start, both, k) = Before(middle, second, k - m)
    BY <1>5
  <2>3. k - m = n + 1
    BY <1>1, <2>1
  <2> QED
    BY <1>3, <2>1, <2>2, <2>3
<1>8. Chains(start, both, last)
  BY <1>6, <1>7 DEF Chains
<1> QED
  BY <1>8 DEF both
-----------------------------------------------------------------------------
\* The blank row has an empty ledger.
LEMMA WalletInit == Init => WalletInv
<1> SUFFICES ASSUME Init PROVE WalletInv
  OBVIOUS
<1>1. Blank.row \in WalletRow
  BY DEF Blank, WalletRow
<1>2. wallet.frozen = 0 /\ wallet.balance = 0
  BY DEF Init, Blank
<1>3. <<>> \in Seq(Entry) /\ <<>> \in Seq(Operation)
  OBVIOUS
<1>4. Blank \in [row : WalletRow, entries : Seq(Entry)]
  BY <1>1, <1>3 DEF Blank
<1>5. TypeOK
  BY <1>1, <1>3, <1>4 DEF Init, TypeOK
<1>6. LedgerChains
  BY ChainsEmpty DEF Init, LedgerChains
<1> QED
  BY <1>2, <1>5, <1>6 DEF Init, WalletInv, FrozenWithinBalance

\* The end of a transaction, committed or not, when it leaves the wallet a row
\* and the ledger a chain to it: no other caller has a draft.
LEMMA EndTransactionStep ==
    ASSUME WalletInv, NEW c \in Caller, pc[c] = "locked", EndTransaction(c),
           wallet' \in WalletRow, ledger' \in Seq(Entry), UNCHANGED redisLock,
           LedgerChains', FrozenWithinBalance'
    PROVE  WalletInv'
<1>1. TypeOK'
  <2>1. Blank \in [row : WalletRow, entries : Seq(Entry)]
    BY DEF Blank, WalletRow
  <2>2. <<>> \in Seq(Operation)
    OBVIOUS
  <2> QED
    BY <2>1, <2>2 DEF WalletInv, TypeOK, EndTransaction
<1>2. \A d \in Caller : pc'[d] # "locked"
  BY DEF WalletInv, TypeOK, EndTransaction
<1> QED
  BY <1>1, <1>2 DEF WalletInv

\* Every step keeps the inductive invariant.
LEMMA WalletStep == WalletInv /\ [Next]_vars => WalletInv'
<1> SUFFICES ASSUME WalletInv, [Next]_vars PROVE WalletInv'
  OBVIOUS
<1> USE DEF WalletInv
<1>1. CASE UNCHANGED vars
  BY <1>1 DEF vars, TypeOK, LedgerChains, FrozenWithinBalance
<1>2. CASE LockExpires
  BY <1>2 DEF LockExpires, TypeOK, LedgerChains, FrozenWithinBalance
<1>3. ASSUME NEW c \in Caller, NEW s \in Script,
             ApplyTransaction(c, s) \/ ApplyInExistingTx(c, s)
      PROVE  WalletInv'
  <2>1. s \in Seq(Operation)
    BY WalletAssumption
  <2>2. /\ UNCHANGED <<wallet, ledger, rowLock, draft>>
        /\ redisLock' \in {redisLock, c}
        /\ pc' = [pc EXCEPT ![c] = "open"]
        /\ todo' = [todo EXCEPT ![c] = s]
    BY <1>3 DEF ApplyTransaction, ApplyInExistingTx
  <2> QED
    BY <2>1, <2>2 DEF TypeOK, LedgerChains, FrozenWithinBalance
<1>4. ASSUME NEW c \in Caller, LockWalletByUserId(c)
      PROVE  WalletInv'
  <2> USE <1>4 DEF LockWalletByUserId
  <2>1. <<>> \in Seq(Entry)
    OBVIOUS
  <2>2. TypeOK'
    BY <2>1 DEF TypeOK
  <2>3. Chains(wallet, <<>>, wallet)
    BY ChainsEmpty
  <2>4. \A d \in Caller \ {c} : pc'[d] = "locked" => FALSE
    BY WalletAssumption DEF TypeOK, RowIsFree
  <2>5. draft'[c].row = wallet /\ draft'[c].entries = <<>>
    BY DEF TypeOK
  <2> QED
    BY <2>2, <2>3, <2>4, <2>5 DEF LedgerChains, FrozenWithinBalance
<1>5. ASSUME NEW c \in Caller, ApplyInTx(c)
      PROVE  WalletInv'
  <2> DEFINE op == Head(todo[c])
             row == draft[c].row
             entries == draft[c].entries
             entry == LedgerEntry(row, op)
  <2> USE <1>5 DEF ApplyInTx
  <2>1. /\ row \in WalletRow /\ entries \in Seq(Entry)
        /\ row.frozen <= row.balance
        /\ Chains(wallet, entries, row)
    BY DEF TypeOK
  <2>2. op \in Operation /\ Tail(todo[c]) \in Seq(Operation)
    BY DEF TypeOK
  <2>3. Accepts(row, op)
    BY DEF Permitted
  <2>4. /\ NewState(row, op) \in WalletRow
        /\ NewState(row, op).frozen <= NewState(row, op).balance
    BY <2>1, <2>2, <2>3, NewStateIsRow
  <2>5. /\ entry \in Entry
        /\ entry.after = NewState(row, op)
        /\ entry.type = op.type /\ entry.amount = op.amount
    BY <2>2, <2>4 DEF Entry, LedgerEntry, EntryOf, Operation
  <2>6. NewState(row, entry) = NewState(row, op)
    BY <2>5 DEF NewState
  <2>7. draft' = [draft EXCEPT ![c] =
                    [row |-> NewState(row, op),
                     entries |-> Append(entries, entry)]]
    OBVIOUS
  <2> HIDE DEF op, row, entries, entry
  <2>8. Append(entries, entry) \in Seq(Entry)
    BY <2>1, <2>5
  <2>9. Chains(wallet, Append(entries, entry), NewState(row, op))
    BY <2>1, <2>5, <2>6, ChainsAppend
  <2>10. TypeOK'
    BY <2>2, <2>4, <2>7, <2>8 DEF TypeOK, op
  <2>11. /\ draft'[c].row = NewState(row, op)
         /\ draft'[c].entries = Append(entries, entry)
         /\ \A d \in Caller \ {c} : draft'[d] = draft[d]
    BY <2>7 DEF TypeOK
  <2> QED
    BY <2>4, <2>9, <2>10, <2>11 DEF LedgerChains, FrozenWithinBalance
<1>6. ASSUME NEW c \in Caller, Commit(c)
      PROVE  WalletInv'
  <2> USE <1>6 DEF Commit
  <2>1. /\ draft[c].row \in WalletRow /\ draft[c].entries \in Seq(Entry)
        /\ Chains(wallet, draft[c].entries, draft[c].row)
        /\ draft[c].row.frozen <= draft[c].row.balance
    BY DEF TypeOK
  <2>2. ledger \in Seq(Entry) /\ Chains(Blank.row, ledger, wallet)
    BY DEF TypeOK, LedgerChains
  <2>3. Chains(Blank.row, ledger \o draft[c].entries, draft[c].row)
    BY <2>1, <2>2, ChainsConcat
  <2>4. ledger' \in Seq(Entry) /\ wallet' \in WalletRow
    BY <2>1, <2>2
  <2>5. LedgerChains'
    BY <2>3 DEF LedgerChains
  <2>6. FrozenWithinBalance'
    BY <2>1 DEF FrozenWithinBalance, WalletRow
  <2> QED
    BY <2>4, <2>5, <2>6, EndTransactionStep
<1>7. ASSUME NEW c \in Caller, Rollback(c)
      PROVE  WalletInv'
  <2> USE <1>7 DEF Rollback
  <2>1. LedgerChains' /\ FrozenWithinBalance'
    BY DEF LedgerChains, FrozenWithinBalance
  <2>2. ledger' \in Seq(Entry) /\ wallet' \in WalletRow
    BY DEF TypeOK
  <2> QED
    BY <2>1, <2>2, EndTransactionStep
<1>8. ASSUME NEW c \in Caller, GetToken(c) \/ DeleteLock(c)
      PROVE  WalletInv'
  <2>1. /\ UNCHANGED <<wallet, ledger, rowLock, todo, draft>>
        /\ redisLock' \in {redisLock, Unheld}
        /\ \E p \in {"idle", "delete"} : pc' = [pc EXCEPT ![c] = p]
    BY <1>8 DEF GetToken, DeleteLock
  <2> QED
    BY <2>1 DEF TypeOK, LedgerChains, FrozenWithinBalance
<1> QED
  BY <1>1, <1>2, <1>3, <1>4, <1>5, <1>6, <1>7, <1>8 DEF Next

\* The invariant holds of every behaviour.
LEMMA WalletIsInv == Spec => []WalletInv
<1> QED
  BY WalletInit, WalletStep, PTL DEF Spec

\* The committed ledger is a chain of after-images from the blank row to the
\* wallet, however transactions overlap (WalletService.applyInTx under
\* SELECT ... FOR UPDATE).
THEOREM LedgerIsChain == Spec => []LedgerChains
<1>1. WalletInv => LedgerChains
  BY DEF WalletInv
<1> QED
  BY <1>1, WalletIsInv, PTL

\* The frozen amount is never negative and never above the balance: the CHECK
\* constraints of the wallets table reject no commit.
THEOREM FrozenIsCovered == Spec => []FrozenWithinBalance
<1>1. WalletInv => FrozenWithinBalance
  BY DEF WalletInv
<1> QED
  BY <1>1, WalletIsInv, PTL
-----------------------------------------------------------------------------
\* A set of naturals that is not empty has a least element: what the
\* induction below rests on.
LEMMA Least ==
    ASSUME NEW T \in SUBSET Nat, T # {}
    PROVE  \E x \in T : \A y \in T : x <= y
<1>1. PICK x \in T : \A y \in T : ~(<<y, x>> \in OpToRel(<, Nat))
  BY NatLessThanWellFounded, WFMin
<1>2. \A y \in T : <<y, x>> \in OpToRel(<, Nat) <=> y < x
  BY DEF OpToRel
<1>3. \A y \in T : ~(y < x)
  BY <1>1, <1>2, Zenon
<1> QED
  BY <1>3

\* The last balance of a chain from the blank row is the signed sum of its
\* entries: each balance is the partial sum up to it.
LEMMA ChainSums ==
    ASSUME NEW entries \in Seq(Entry), NEW last,
           Chains(Blank.row, entries, last)
    PROVE  last.balance = SignedSum(entries)
<1> DEFINE n == Len(entries)
           sum[i \in 0..n] ==
             IF i = 0 THEN 0 ELSE sum[i - 1] + SignedAmount(entries[i])
           balance == [i \in 0..n |-> Before(Blank.row, entries, i + 1).balance]
<1>1. n \in Nat
  OBVIOUS
<1>2. \A i \in 1..n : entries[i] \in Entry
  OBVIOUS
<1>3. balance[0] = 0
  BY <1>1 DEF Before, Blank
<1>4. \A i \in 1..n :
        /\ Before(Blank.row, entries, i) \in WalletRow
        /\ Before(Blank.row, entries, i + 1) = entries[i].after
  BY <1>2 DEF Before, Blank, WalletRow, Entry
<1>5. ASSUME NEW i \in 1..n
      PROVE  balance[i] = balance[i - 1] + SignedAmount(entries[i])
  <2> DEFINE row == Before(Blank.row, entries, i)
  <2>1. entries[i].type \in TransactionType /\ entries[i].amount \in Nat
    BY <1>2 DEF Entry
  <2>2. row \in WalletRow
    BY <1>4
  <2>3. entries[i].after = NewState(row, entries[i])
    BY DEF Chains
  <2>4. NewState(row, entries[i]).balance =
          row.balance + SignedAmount(entries[i])
    BY <2>1, <2>2, BalanceMoves
  <2>5. i \in 0..n /\ i - 1 \in 0..n /\ (i - 1) + 1 = i
    BY <1>1
  <2>6. balance[i - 1] = row.balance
    BY <2>5
  <2>7. balance[i] = entries[i].after.balance
    BY <1>4, <2>5
  <2> QED
    BY <2>3, <2>4, <2>6, <2>7
<1>6. balance = [i \in 0..n |-> IF i = 0 THEN 0
                                ELSE balance[i - 1] + SignedAmount(entries[i])]
  <2>1. ASSUME NEW i \in 0..n
        PROVE  balance[i] = IF i = 0 THEN 0
                            ELSE balance[i - 1] + SignedAmount(entries[i])
    <3> HIDE DEF balance
    <3>1. CASE i = 0
      BY <1>3, <3>1
    <3>2. CASE i # 0
      <4>1. i \in 1..n
        BY <1>1, <3>2
      <4> HIDE DEF n
      <4> QED
        BY <1>5, <3>2, <4>1
    <3> QED
      BY <3>1, <3>2
  <2> QED
    BY <2>1
<1>7. last.balance = balance[n]
  BY <1>1 DEF Chains
<1>8. sum = [i \in 0..n |-> IF i = 0 THEN 0
                            ELSE sum[i - 1] + SignedAmount(entries[i])]
  <2> HIDE DEF balance
  <2> QED
    BY <1>6
<1> HIDE DEF balance
<1>9. SignedSum(entries) = sum[n]
  BY DEF SignedSum
<1> HIDE DEF sum
<1>10. /\ sum[0] = 0
       /\ \A i \in 1..n : sum[i] = sum[i - 1] + SignedAmount(entries[i])
  BY <1>1, <1>8
<1> DEFINE T == {i \in 0..n : sum[i] # balance[i]}
<1>11. T = {}
  <2> SUFFICES ASSUME T # {} PROVE FALSE
    OBVIOUS
  <2>1. T \in SUBSET Nat
    BY <1>1
  <2>2. PICK i \in T : \A j \in T : i <= j
    BY <2>1, Least
  <2>3. i \in 1..n /\ sum[i] # balance[i]
    BY <1>1, <1>3, <1>10
  <2>4. i - 1 \in 0..n /\ i - 1 \notin T
    BY <1>1, <2>2, <2>3
  <2>5. sum[i - 1] = balance[i - 1]
    BY <2>4
  <2> QED
    BY <1>5, <1>10, <2>3, <2>5
<1>12. sum[n] = balance[n]
  BY <1>1, <1>11
<1> QED
  BY <1>7, <1>9, <1>12

\* The balance is the signed sum of the committed ledger: no committed change
\* is lost, none is applied twice, and none comes without its entry.
THEOREM BalanceIsTheSum == Spec => []BalanceIsSignedLedgerSum
<1>1. WalletInv => BalanceIsSignedLedgerSum
  BY ChainSums
    DEF WalletInv, TypeOK, LedgerChains, BalanceIsSignedLedgerSum
<1> QED
  BY <1>1, WalletIsInv, PTL
=============================================================================
