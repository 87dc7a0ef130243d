--------------------------- MODULE MCBonumWebhooks ---------------------------
(* Small instances of BonumWebhooks for TLC. *)
EXTENDS BonumWebhooks, TLC

CONSTANTS i1, i2, t1, t2, t3, t4

Hook(i, t, o) == [invoice |-> i, txn |-> t, outcome |-> o]

\* A failed attempt and a payment reported under two transaction ids, and an
\* invoice with one webhook.
TwoInvoices == {Hook(i1, t1, "failed"), Hook(i1, t2, "paid"), Hook(i1, t3, "paid"),
                Hook(i2, t4, "paid")}

OnePayment == {Hook(i1, t1, "paid")}

HandlerSymmetry == Permutations(Handler)
=============================================================================
