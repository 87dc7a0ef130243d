---------------------------- MODULE BonumWebhooks ----------------------------
(***************************************************************************)
(* PaymentsService: the invoices of one user's wallet, and the webhooks    *)
(* with which Bonum reports what became of them.  Bonum delivers a webhook *)
(* again until it is answered 200, and may deliver it again after that, so *)
(* several handlers can work on the same webhook, or on several webhooks   *)
(* of one invoice, in any order.                                           *)
(*                                                                         *)
(* The webhook event is inserted outside the transaction that processes    *)
(* it; that transaction reads the invoice without locking its row.         *)
(***************************************************************************)
EXTENDS Naturals, FiniteSets

CONSTANTS
    Handler,      \* requests processed at the same time
    Invoice, Txn, \* invoices, and the transaction ids webhooks carry
    Webhook,      \* the webhooks Bonum may send
    Free, Other,  \* wallet lock: unheld; held by a rental, a top-up or the dead
    None,
    MaxCrash,     \* bound: backend crashes
    MaxFailure,   \* bound: transactions that fail
    MaxLapse      \* bound: wallet locks that lapse under their handler

\* What normalizeStatus makes of the status and the invoice status.
Outcome == {"paid", "failed", "expired"}

ASSUME BonumAssumption ==
    /\ Webhook \subseteq [invoice : Invoice, txn : Txn, outcome : Outcome]
    /\ {MaxCrash, MaxFailure, MaxLapse} \subseteq Nat
    /\ Free # Other
    /\ Free \notin Handler
    /\ Other \notin Handler
    /\ None \notin Webhook

VARIABLES
    status,     \* bonum_invoices.status
    credits,    \* wallet top-ups that refer to the invoice
    event,      \* bonum_webhook_events by transaction id, and processed_at
    walletLock, \* lock:wallet:<user>
    pc, hook,   \* where each handler stands and its webhook
    reply,      \* what its finally block leads to
    sent,       \* webhooks Bonum has to deliver
    unanswered, \* ... of which it has not seen a 200 yet
    crashes, failures, lapses

tables  == <<status, credits, event>>
process == <<pc, hook, reply>>
bonum   == <<sent, unanswered>>
faults  == <<crashes, failures, lapses>>
vars    == <<tables, walletLock, process, bonum, faults>>

Pc == {"idle", "insert", "markFailed", "lock", "read", "credit", "release"}

Reply == {"none", "ok", "error"}

TypeOK ==
    /\ status \in [Invoice -> Outcome \cup {"none", "pending"}]
    /\ credits \in [Invoice -> Nat]
    /\ event \in [Txn -> {"none", "received", "processed"}]
    /\ walletLock \in Handler \cup {Free, Other}
    /\ pc \in [Handler -> Pc]
    /\ hook \in [Handler -> Webhook \cup {None}]
    /\ reply \in [Handler -> Reply]
    /\ sent \subseteq Webhook /\ unanswered \subseteq sent
    /\ crashes \in Nat /\ failures \in Nat /\ lapses \in Nat

Init ==
    /\ status = [i \in Invoice |-> "none"]
    /\ credits = [i \in Invoice |-> 0]
    /\ event = [t \in Txn |-> "none"]
    /\ walletLock = Free
    /\ pc = [h \in Handler |-> "idle"]
    /\ hook = [h \in Handler |-> None]
    /\ reply = [h \in Handler |-> "none"]
    /\ sent = {} /\ unanswered = {}
    /\ crashes = 0 /\ failures = 0 /\ lapses = 0
-----------------------------------------------------------------------------
\* Bonum.

\* createWalletTopupInvoice stores the row once Bonum has made its invoice.
CreateInvoice(i) ==
    /\ status[i] = "none"
    /\ status' = [status EXCEPT ![i] = "pending"]
    /\ UNCHANGED <<credits, event, walletLock, process, bonum, faults>>

\* An attempt to pay fails, the invoice expires, or it is paid; after that no
\* further attempt is made.  Bonum need not wait for our row to be stored.
Send(w) ==
    /\ w \notin sent
    /\ w.outcome # "paid" =>
          \A v \in sent : v.invoice = w.invoice => v.outcome # "paid"
    /\ sent' = sent \cup {w}
    /\ unanswered' = unanswered \cup {w}
    /\ UNCHANGED <<tables, walletLock, process, faults>>
-----------------------------------------------------------------------------
\* processBonumWebhook.

GoTo(h, label) == pc' = [pc EXCEPT ![h] = label]

\* The response: 200 unless the handler threw.
Answer(h, ok) ==
    /\ GoTo(h, "idle")
    /\ hook' = [hook EXCEPT ![h] = None]
    /\ reply' = [reply EXCEPT ![h] = "none"]
    /\ unanswered' = IF ok THEN unanswered \ {hook[h]} ELSE unanswered

\* findInvoiceForWebhook, by invoice id or by transaction id; the webhook of an
\* invoice without a row is answered 404 and nothing is written.
FindInvoice(i) == status[i] # "none"

\* Signature, parsing and findInvoiceForWebhook come before any write.
Deliver(h, w) ==
    /\ pc[h] = "idle"
    /\ w \in sent
    /\ FindInvoice(w.invoice)
    /\ hook' = [hook EXCEPT ![h] = w]
    /\ GoTo(h, "insert")
    /\ UNCHANGED <<tables, walletLock, reply, bonum, faults>>

NoEventKey(t) == TRUE

\* The unique key on bonum_webhook_events.transaction_id.
EventKeyFree(t) == event[t] = "none"

InsertEvent(h) ==
    LET w == hook[h]
    IN /\ pc[h] = "insert"
       /\ EventKeyFree(w.txn)
       /\ event' = [event EXCEPT ![w.txn] = "received"]
       /\ GoTo(h, IF w.outcome = "paid" THEN "lock" ELSE "markFailed")
       /\ UNCHANGED <<status, credits, walletLock, hook, reply, bonum, faults>>

\* P2002 is caught and answered 200, duplicate, whatever became of the event.
Duplicate(h) ==
    /\ pc[h] = "insert"
    /\ ~EventKeyFree(hook[h].txn)
    /\ Answer(h, TRUE)
    /\ UNCHANGED <<tables, walletLock, sent, faults>>

\* FAILED: the invoice's status is overwritten whatever it was.
MarkFailed(h) ==
    LET w == hook[h]
    IN /\ pc[h] = "markFailed"
       /\ status' = [status EXCEPT ![w.invoice] = w.outcome]
       /\ event' = [event EXCEPT ![w.txn] = "processed"]
       /\ Answer(h, TRUE)
       /\ UNCHANGED <<credits, walletLock, sent, faults>>

AcquireLock(h) ==
    /\ pc[h] = "lock"
    /\ walletLock = Free
    /\ walletLock' = h
    /\ GoTo(h, "read")
    /\ UNCHANGED <<tables, hook, reply, bonum, faults>>

\* acquireLock gives up; the event stays behind, received.
LockBusy(h) ==
    /\ pc[h] = "lock"
    /\ walletLock # Free
    /\ Answer(h, FALSE)
    /\ UNCHANGED <<tables, walletLock, sent, faults>>

CreditableUnlessPaid(i) == status[i] # "paid"

CreditableInverted(i) == status[i] # "pending"

\* Only a pending invoice is credited.
Creditable(i) == status[i] = "pending"

Finish(h, result) ==
    /\ GoTo(h, "release")
    /\ reply' = [reply EXCEPT ![h] = result]

\* The transaction reads the invoice; one that is not pending is left as it
\* is and the event is marked processed.
ReadInvoice(h) ==
    LET w == hook[h]
    IN /\ pc[h] = "read"
       /\ IF Creditable(w.invoice)
            THEN GoTo(h, "credit") /\ UNCHANGED <<event, reply>>
            ELSE event' = [event EXCEPT ![w.txn] = "processed"] /\ Finish(h, "ok")
       /\ UNCHANGED <<status, credits, walletLock, hook, bonum, faults>>

\* The rest of the transaction: paid, topped up, processed.
Credit(h) ==
    LET w == hook[h]
    IN /\ pc[h] = "credit"
       /\ status' = [status EXCEPT ![w.invoice] = "paid"]
       /\ credits' = [credits EXCEPT ![w.invoice] = @ + 1]
       /\ event' = [event EXCEPT ![w.txn] = "processed"]
       /\ Finish(h, "ok")
       /\ UNCHANGED <<walletLock, hook, bonum, faults>>

\* The finally block deletes the key only while it holds its own token.
ReleaseLock(h) == walletLock' = IF walletLock = h THEN Free ELSE walletLock

Release(h) ==
    /\ pc[h] = "release"
    /\ ReleaseLock(h)
    /\ Answer(h, reply[h] = "ok")
    /\ UNCHANGED <<tables, sent, faults>>
-----------------------------------------------------------------------------
\* Other users of the wallet lock, and faults.

OtherTakesLock ==
    /\ walletLock = Free
    /\ walletLock' = Other
    /\ UNCHANGED <<tables, process, bonum, faults>>

OtherLetsGo ==
    /\ walletLock = Other
    /\ walletLock' = Free
    /\ UNCHANGED <<tables, process, bonum, faults>>

\* The TTL passes while the handler's transaction still runs.
LockLapses ==
    /\ walletLock \in Handler
    /\ lapses < MaxLapse
    /\ lapses' = lapses + 1
    /\ walletLock' = Free
    /\ UNCHANGED <<tables, process, bonum, crashes, failures>>

\* A transaction rolls back; the event it was to process stays received.  A
\* P2002 of its own, on the payment's or the wallet's unique key, is caught
\* with that of the event and answered 200, duplicate.
TransactionFails(h) ==
    /\ failures < MaxFailure
    /\ failures' = failures + 1
    /\ \/ /\ pc[h] = "markFailed"
          /\ Answer(h, FALSE)
       \/ /\ pc[h] \in {"read", "credit"}
          /\ Finish(h, "error")
          /\ UNCHANGED <<hook, unanswered>>
       \/ /\ pc[h] = "credit"
          /\ Finish(h, "ok")
          /\ UNCHANGED <<hook, unanswered>>
    /\ UNCHANGED <<tables, walletLock, sent, crashes, lapses>>

Crash ==
    /\ crashes < MaxCrash
    /\ \E h \in Handler : pc[h] # "idle"
    /\ crashes' = crashes + 1
    /\ pc' = [h \in Handler |-> "idle"]
    /\ hook' = [h \in Handler |-> None]
    /\ reply' = [h \in Handler |-> "none"]
    /\ walletLock' = IF walletLock \in Handler THEN Other ELSE walletLock
    /\ UNCHANGED <<tables, bonum, failures, lapses>>
-----------------------------------------------------------------------------
Handle(h) ==
    \/ InsertEvent(h) \/ Duplicate(h)
    \/ MarkFailed(h)
    \/ AcquireLock(h) \/ LockBusy(h)
    \/ ReadInvoice(h) \/ Credit(h)
    \/ Release(h)

Next ==
    \/ \E i \in Invoice : CreateInvoice(i)
    \/ \E w \in Webhook : Send(w) \/ \E h \in Handler : Deliver(h, w)
    \/ \E h \in Handler : Handle(h) \/ TransactionFails(h)
    \/ OtherTakesLock \/ OtherLetsGo \/ LockLapses
    \/ Crash

Spec == Init /\ [][Next]_vars

\* Rows are stored, handlers run on, other owners let the lock go, and Bonum
\* delivers again until it is answered 200 (PAYMENT.md, section 6.4).  Strong
\* fairness, since only the model bounds how many handlers there are: a
\* redelivery waits for an idle one.
Redeliver(w) == w \in unanswered /\ \E h \in Handler : Deliver(h, w)

Fairness ==
    /\ \A i \in Invoice : WF_vars(CreateInvoice(i))
    /\ \A h \in Handler : WF_vars(Handle(h))
    /\ \A w \in Webhook : SF_vars(Redeliver(w))
    /\ WF_vars(OtherLetsGo)

FairSpec == Spec /\ Fairness
-----------------------------------------------------------------------------
\* Properties.

\* However often and in whatever order the webhooks of an invoice arrive, its
\* amount is credited at most once, as long as no handler's wallet lock
\* lapses inside its transaction.
CreditedAtMostOnce == lapses = 0 => \A i \in Invoice : credits[i] <= 1

\* When every webhook of an invoice carries the same transaction id, the
\* event's unique key alone keeps the credit single, lapsed locks or not.
OneTxn(i) == \A v, w \in Webhook : v.invoice = i /\ w.invoice = i => v.txn = w.txn

KeyCreditsOnce == \A i \in Invoice : OneTxn(i) => credits[i] <= 1

\* A paid invoice has been credited, a credited one never counts as pending
\* again, and no event of a payment is marked processed with the invoice
\* still pending.
LedgerAgrees ==
    /\ \A i \in Invoice : /\ status[i] = "paid" => credits[i] >= 1
                          /\ credits[i] >= 1 => status[i] \notin {"none", "pending"}
    /\ \A w \in sent : event[w.txn] = "processed" => status[w.invoice] # "pending"

\* PAYMENT.md:278: when processing fails Bonum retries, so that a payment is
\* credited in the end.
PaymentIsCredited ==
    \A w \in Webhook :
       w.outcome = "paid" => (w \in sent ~> credits[w.invoice] >= 1)
-----------------------------------------------------------------------------
\* The inductive invariants behind the two theorems on credits.

InTransaction(h) == pc[h] \in {"read", "credit", "release"}

\* A handler in its transaction holds the wallet lock, and what it is about to
\* credit nobody has credited.
LockInv ==
    /\ TypeOK
    /\ \A h \in Handler : pc[h] # "idle" => hook[h] \in Webhook
    /\ \A i \in Invoice : credits[i] >= 1 => status[i] \notin {"none", "pending"}
    /\ lapses = 0 =>
          /\ \A h \in Handler : InTransaction(h) => walletLock = h
          /\ \A h \in Handler : pc[h] = "credit" => credits[hook[h].invoice] = 0
          /\ \A i \in Invoice : credits[i] <= 1

Working(h) == pc[h] \in {"markFailed", "lock", "read", "credit"}

\* A handler past the insert works alone on an event that is not processed,
\* and a credited invoice has a processed event.
KeyInv ==
    /\ TypeOK
    /\ \A h \in Handler : pc[h] # "idle" => hook[h] \in Webhook
    /\ \A h \in Handler : Working(h) => event[hook[h].txn] = "received"
    /\ \A g, h \in Handler :
          Working(g) /\ Working(h) /\ hook[g].txn = hook[h].txn => g = h
    /\ \A i \in Invoice :
          credits[i] >= 1 =>
             \E w \in Webhook : w.invoice = i /\ event[w.txn] = "processed"
    /\ KeyCreditsOnce

\* A handler works on an invoice that has a row, only failures are marked as
\* such, and a processed event or a credit belongs to an invoice that is settled.
LedgerInv ==
    /\ TypeOK
    /\ \A h \in Handler : pc[h] # "idle" => /\ hook[h] \in Webhook
                                           /\ status[hook[h].invoice] # "none"
    /\ \A h \in Handler : pc[h] = "markFailed" => hook[h].outcome # "paid"
    /\ \A i \in Invoice : /\ status[i] = "paid" => credits[i] >= 1
                          /\ credits[i] >= 1 => status[i] \notin {"none", "pending"}
    /\ \A w \in Webhook :
          event[w.txn] = "processed" => status[w.invoice] \notin {"none", "pending"}

\* A transaction id is of one invoice.
TxnNamesInvoice == \A v, w \in Webhook : v.txn = w.txn => v.invoice = w.invoice

\* Both, as one invariant of the run: no handler credits on a stale reading
\* under the lock, none works on an event another works on or has finished.
CreditInv == LockInv /\ KeyInv
=============================================================================
