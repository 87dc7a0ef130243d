---------------------------- MODULE RentalContract ----------------------------
(***************************************************************************)
(* What renting promises, without locks, transactions, commands or faults: *)
(* a rental begins in one step and ends in one step with a single charge,  *)
(* and only these steps and top-ups move a balance.                        *)
(***************************************************************************)
EXTENDS Integers

CONSTANTS User, PowerBank, None, Deposit, ChargeAmount, InitialBalance,
          TopupAmount

VARIABLES out,      \* the bank each user has taken, or None
          used,     \* the banks that have been taken
          balance

vars == <<out, used, balance>>

Init ==
    /\ out = [u \in User |-> None]
    /\ used = {}
    /\ balance \in [User -> InitialBalance]

\* A user without a bank, with funds for the deposit, takes one nobody took.
Begin(u, b) ==
    /\ out[u] = None
    /\ b \notin used
    /\ balance[u] >= Deposit
    /\ out' = [out EXCEPT ![u] = b]
    /\ used' = used \cup {b}
    /\ UNCHANGED balance

\* The user gives the bank back and is charged, once and never into debt.
End(u, charge) ==
    /\ out[u] # None
    /\ balance[u] >= charge
    /\ out' = [out EXCEPT ![u] = None]
    /\ balance' = [balance EXCEPT ![u] = @ - charge]
    /\ UNCHANGED used

AddFunds(u) ==
    /\ balance' = [balance EXCEPT ![u] = @ + TopupAmount]
    /\ UNCHANGED <<out, used>>

Next ==
    \E u \in User :
       \/ \E b \in PowerBank : Begin(u, b)
       \/ \E charge \in ChargeAmount : End(u, charge)
       \/ AddFunds(u)

Spec == Init /\ [][Next]_vars
=============================================================================
