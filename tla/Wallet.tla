------------------------------- MODULE Wallet -------------------------------
(***************************************************************************)
(* One user's wallet and its ledger (WalletService, WalletRepository).     *)
(* Several callers open database transactions on the wallet at once: the   *)
(* Redis lock wallet:<user> is taken by applyTransaction but may lapse at  *)
(* its TTL or be deleted by an earlier holder, and callers of              *)
(* applyInExistingTx may have lost theirs too, so the row lock of          *)
(* SELECT ... FOR UPDATE is what serialises them.                          *)
(***************************************************************************)
EXTENDS WalletLedger

VARIABLES redisLock,  \* lock:wallet:<user>
          rowLock,    \* holder of the FOR UPDATE lock on the row
          pc,         \* where each call stands
          todo,       \* operations its transaction has still to apply
          draft       \* what its transaction wrote and has not committed

vars == <<wallet, ledger, redisLock, rowLock, pc, todo, draft>>

Entry == [type : TransactionType, amount : Nat, after : WalletRow]

TypeOK ==
    /\ wallet \in WalletRow
    /\ ledger \in Seq(Entry)
    /\ redisLock \in Caller \cup {Unheld}
    /\ rowLock \in Caller \cup {Unheld}
    /\ pc \in [Caller -> {"idle", "open", "locked", "release", "delete"}]
    /\ todo \in [Caller -> Seq(Operation)]
    /\ draft \in [Caller -> [row : WalletRow, entries : Seq(Entry)]]

Init ==
    /\ wallet = Blank.row
    /\ ledger = <<>>
    /\ redisLock = Unheld
    /\ rowLock = Unheld
    /\ pc = [c \in Caller |-> "idle"]
    /\ todo = [c \in Caller |-> <<>>]
    /\ draft = [c \in Caller |-> Blank]

\* applyTransaction: takes the Redis lock, then opens its own transaction.
ApplyTransaction(c, s) ==
    /\ pc[c] = "idle"
    /\ redisLock = Unheld
    /\ Len(s) = 1
    /\ redisLock' = c
    /\ pc' = [pc EXCEPT ![c] = "open"]
    /\ todo' = [todo EXCEPT ![c] = s]
    /\ UNCHANGED <<wallet, ledger, rowLock, draft>>

\* applyInExistingTx: the caller's transaction is already open, and whether
\* the caller still holds the Redis lock is not looked at.
ApplyInExistingTx(c, s) ==
    /\ pc[c] = "idle"
    /\ pc' = [pc EXCEPT ![c] = "open"]
    /\ todo' = [todo EXCEPT ![c] = s]
    /\ UNCHANGED <<wallet, ledger, redisLock, rowLock, draft>>

RowIsFreeNoForUpdate(c) == TRUE

\* The row can be locked when no open transaction has it FOR UPDATE.
RowIsFree(c) == rowLock = Unheld

\* findOrCreateInTx and lockWalletByUserId.
LockWalletByUserId(c) ==
    /\ pc[c] = "open"
    /\ RowIsFree(c)
    /\ rowLock' = c
    /\ draft' = [draft EXCEPT ![c] = [row |-> wallet, entries |-> <<>>]]
    /\ pc' = [pc EXCEPT ![c] = "locked"]
    /\ UNCHANGED <<wallet, ledger, redisLock, todo>>

PermittedWithoutFundsCheck(row, op) == TRUE

\* calculateNewState throws when an operation is not covered.
Permitted(row, op) == Accepts(row, op)

\* applyInTx updates the row and inserts the ledger entry carrying the new
\* balance and the new frozen amount.
EntryOf(row, op) ==
    [type |-> op.type, amount |-> op.amount, after |-> NewState(row, op)]

\* A ledger line that carries the state before the operation.
EntryWithOldState(row, op) ==
    [type |-> op.type, amount |-> op.amount, after |-> row]

LedgerEntry(row, op) == EntryOf(row, op)

\* The next operation of the transaction: calculateNewState and applyInTx.
ApplyInTx(c) ==
    /\ pc[c] = "locked"
    /\ todo[c] # <<>>
    /\ LET op == Head(todo[c])
           row == draft[c].row
       IN /\ Permitted(row, op)
          /\ draft' = [draft EXCEPT ![c] =
                         [row |-> NewState(row, op),
                          entries |-> Append(@.entries, LedgerEntry(row, op))]]
    /\ todo' = [todo EXCEPT ![c] = Tail(@)]
    /\ UNCHANGED <<wallet, ledger, redisLock, rowLock, pc>>

\* The end of a transaction, committed or not, frees the row.
EndTransaction(c) ==
    /\ rowLock' = Unheld
    /\ pc' = [pc EXCEPT ![c] = "release"]
    /\ todo' = [todo EXCEPT ![c] = <<>>]
    /\ draft' = [draft EXCEPT ![c] = Blank]

Commit(c) ==
    /\ pc[c] = "locked"
    /\ todo[c] = <<>>
    /\ Len(ledger) + Len(draft[c].entries) <= MaxLedger
    /\ wallet' = draft[c].row
    /\ ledger' = ledger \o draft[c].entries
    /\ EndTransaction(c)
    /\ UNCHANGED redisLock

\* InsufficientBalanceException, a failed write or the transaction timeout of
\* the client: everything the transaction wrote is rolled back.
Rollback(c) ==
    /\ pc[c] = "locked"
    /\ EndTransaction(c)
    /\ UNCHANGED <<wallet, ledger, redisLock>>

\* finally: the release function asks whether the key still holds our token.
GetToken(c) ==
    /\ pc[c] = "release"
    /\ pc' = [pc EXCEPT ![c] = IF redisLock = c THEN "delete" ELSE "idle"]
    /\ UNCHANGED <<wallet, ledger, redisLock, rowLock, todo, draft>>

\* Then it deletes the key, whosever it is by now.
DeleteLock(c) ==
    /\ pc[c] = "delete"
    /\ redisLock' = Unheld
    /\ pc' = [pc EXCEPT ![c] = "idle"]
    /\ UNCHANGED <<wallet, ledger, rowLock, todo, draft>>

\* The key expires while its owner is still at work.
LockExpires ==
    /\ redisLock # Unheld
    /\ redisLock' = Unheld
    /\ UNCHANGED <<wallet, ledger, rowLock, pc, todo, draft>>

Next ==
    \/ LockExpires
    \/ \E c \in Caller :
         \/ \E s \in Script : ApplyTransaction(c, s) \/ ApplyInExistingTx(c, s)
         \/ LockWalletByUserId(c)
         \/ ApplyInTx(c)
         \/ Commit(c)
         \/ Rollback(c)
         \/ GetToken(c)
         \/ DeleteLock(c)

Spec == Init /\ [][Next]_vars
-----------------------------------------------------------------------------
\* The inductive invariant behind the properties of WalletLedger: whoever has
\* locked the row, and nobody else, has a draft that starts from the committed
\* wallet.
WalletInv ==
    /\ TypeOK
    /\ LedgerChains
    /\ FrozenWithinBalance
    /\ \A c \in Caller :
          pc[c] = "locked" => /\ rowLock = c
                              /\ Chains(wallet, draft[c].entries, draft[c].row)
                              /\ draft[c].row.frozen <= draft[c].row.balance
=============================================================================
