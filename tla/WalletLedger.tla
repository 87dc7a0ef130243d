---------------------------- MODULE WalletLedger ----------------------------
(***************************************************************************)
(* A wallet's row and its ledger, what they owe each other, and who calls  *)
(* the wallet service with what: a transaction runs a sequence of          *)
(* operations.                                                             *)
(***************************************************************************)
EXTENDS WalletOps, Sequences

CONSTANTS Caller,     \* concurrent calls into the service
          Unheld,     \* a lock that nobody holds
          Script,     \* the sequences of operations one transaction runs
          MaxLedger   \* bound: entries written in one run

Operation == [type : TransactionType, amount : Nat]

ASSUME WalletAssumption ==
    /\ Script \subseteq Seq(Operation)
    /\ MaxLedger \in Nat
    /\ Unheld \notin Caller

VARIABLES wallet,  \* the committed wallets row
          ledger   \* the committed wallet_transactions, oldest first

\* Nothing paid in, nothing written.
Blank == [row |-> [balance |-> 0, frozen |-> 0], entries |-> <<>>]
-----------------------------------------------------------------------------
\* What ledger entries add up to, as the balance sees them.
SignedSum(entries) ==
    LET sum[i \in 0..Len(entries)] ==
          IF i = 0 THEN 0 ELSE sum[i - 1] + SignedAmount(entries[i])
    IN sum[Len(entries)]

\* The balance is what the signed ledger adds up to, whatever transactions
\* overlapped: no committed change is lost and none is applied twice.
BalanceIsSignedLedgerSum == wallet.balance = SignedSum(ledger)

\* The state before the i-th of some entries that were written from a state on.
Before(start, entries, i) == IF i = 1 THEN start ELSE entries[i - 1].after

\* Every entry leads from the state the one before it left to its own, and the
\* last one to a given state.
Chains(start, entries, last) ==
    /\ \A i \in 1..Len(entries) :
          entries[i].after = NewState(Before(start, entries, i), entries[i])
    /\ last = Before(start, entries, Len(entries) + 1)

\* The after-images chain: every entry's balanceAfter and frozenAfter follow
\* from those of the entry before it, and the last ones are the wallet.
LedgerChains == Chains(Blank.row, ledger, wallet)

\* The CHECK constraints of the wallets table never have to reject a commit:
\* a charge cannot eat into the deposit another transaction froze.
FrozenWithinBalance == 0 <= wallet.frozen /\ wallet.frozen <= wallet.balance
=============================================================================
