----------------------------- MODULE MCPayments -----------------------------
(***************************************************************************)
(* Webhooks of the payment provider and transactions on a wallet, side by  *)
(* side: service says which of the two runs, the other one keeps its       *)
(* initial state.                                                          *)
(***************************************************************************)
EXTENDS MCBonumWebhooks, WalletLedger

VARIABLES service, redisLock, rowLock, at, todo, draft

Wallet == INSTANCE Wallet WITH pc <- at

walletVars == <<wallet, ledger, redisLock, rowLock, at, todo, draft>>

Op(type, amount) == [type |-> type, amount |-> amount]

\* A direct top-up, the deposit of a start, its compensation, and the
\* settlement of a return: the deposit is unfrozen, then the charge is taken.
RentalScripts ==
    { <<Op("topup", 3)>>, <<Op("freeze", 2)>>, <<Op("unfreeze", 2)>>,
      <<Op("unfreeze", 2), Op("charge", 2)>> }

PaymentsInit == service \in {"webhooks", "wallet"} /\ Init /\ Wallet!Init

PaymentsNext ==
    /\ UNCHANGED service
    /\ \/ service = "webhooks" /\ Next /\ UNCHANGED walletVars
       \/ service = "wallet" /\ Wallet!Next /\ UNCHANGED vars

PaymentsSpec == PaymentsInit /\ [][PaymentsNext]_<<service, vars, walletVars>>

PaymentsSymmetry == HandlerSymmetry \cup Permutations(Caller)
=============================================================================
