------------------------------ MODULE WalletOps ------------------------------
(***************************************************************************)
(* The arithmetic of WalletService.calculateNewState: what each kind of    *)
(* wallet transaction does to the pair (balance, frozenAmount), and when   *)
(* it throws InsufficientBalanceException.  Amounts are whole tugrik.      *)
(***************************************************************************)
EXTENDS Integers

\* A row of the wallets table, reduced to the two columns that carry money.
WalletRow == [balance : Nat, frozen : Nat]

\* The generated column available_balance.
Available(w) == w.balance - w.frozen

CoveredAlways(w, amount) == TRUE

\* The two kinds that check the available funds before they do anything.
Covered(w, amount) == Available(w) >= amount

Topup(w, amount) == [w EXCEPT !.balance = @ + amount]

Freeze(w, amount) == [w EXCEPT !.frozen = @ + amount]

\* Math.max(0, frozenAmount - amount)
Unfreeze(w, amount) ==
    [w EXCEPT !.frozen = IF @ >= amount THEN @ - amount ELSE 0]

Charge(w, amount) == [w EXCEPT !.balance = @ - amount]

\* Types 'refund' and 'adjustment' share the arithmetic of 'topup'; no code
\* path of the backend issues them.
TransactionType == {"topup", "freeze", "unfreeze", "charge"}

Accepts(w, op) == op.type \in {"freeze", "charge"} => Covered(w, op.amount)

NewState(w, op) ==
    CASE op.type = "topup"    -> Topup(w, op.amount)
      [] op.type = "freeze"   -> Freeze(w, op.amount)
      [] op.type = "unfreeze" -> Unfreeze(w, op.amount)
      [] op.type = "charge"   -> Charge(w, op.amount)

\* The sign the balance sees, which is not the sign the ledger stores.
SignedAmount(op) ==
    CASE op.type = "topup"  -> op.amount
      [] op.type = "charge" -> -op.amount
      [] OTHER              -> 0
=============================================================================
