----------------------------- MODULE BonumProofs -----------------------------
(***************************************************************************)
(* Theorems about BonumWebhooks, for every set of handlers, invoices and   *)
(* webhooks and any number of faults.                                      *)
(***************************************************************************)
EXTENDS BonumWebhooks, TLAPS

\* Without invoices, events or requests the state is well typed.
LEMMA BonumTypeInit == Init => TypeOK
BY BonumAssumption DEF Init, TypeOK, Pc, Reply, Outcome

\* Whoever is not idle has a webhook.
HooksFit == \A h \in Handler : pc[h] # "idle" => hook[h] \in Webhook

\* Every step keeps the types and a busy handler keeps a webhook.
LEMMA BonumTypeStep ==
    ASSUME TypeOK, HooksFit, [Next]_vars
    PROVE  TypeOK' /\ HooksFit'
<1> USE BonumAssumption DEF TypeOK, HooksFit, tables, process, bonum, faults, Pc, Reply,
        Outcome
<1>1. ASSUME NEW i \in Invoice, CreateInvoice(i)
      PROVE  TypeOK' /\ HooksFit'
  BY <1>1 DEF CreateInvoice
<1>2. ASSUME NEW w \in Webhook, Send(w)
      PROVE  TypeOK' /\ HooksFit'
  BY <1>2 DEF Send
<1>3. ASSUME NEW w \in Webhook, NEW h \in Handler, Deliver(h, w)
      PROVE  TypeOK' /\ HooksFit'
  BY <1>3 DEF Deliver, GoTo
<1>4. ASSUME NEW h \in Handler, Handle(h)
      PROVE  TypeOK' /\ HooksFit'
  <2> USE DEF GoTo, Answer, Finish
  <2>1. CASE InsertEvent(h)
    BY <2>1 DEF InsertEvent
  <2>2. CASE Duplicate(h)
    BY <2>2 DEF Duplicate
  <2>3. CASE MarkFailed(h)
    BY <2>3 DEF MarkFailed
  <2>4. CASE AcquireLock(h) \/ LockBusy(h)
    BY <2>4 DEF AcquireLock, LockBusy
  <2>5. CASE ReadInvoice(h)
    BY <2>5 DEF ReadInvoice
  <2>6. CASE Credit(h)
    BY <2>6 DEF Credit
  <2>7. CASE Release(h)
    BY <2>7 DEF Release, ReleaseLock
  <2> QED
    BY <1>4, <2>1, <2>2, <2>3, <2>4, <2>5, <2>6, <2>7 DEF Handle
<1>5. ASSUME NEW h \in Handler, TransactionFails(h)
      PROVE  TypeOK' /\ HooksFit'
  BY <1>5 DEF TransactionFails, GoTo, Answer, Finish
<1>6. ASSUME OtherTakesLock \/ OtherLetsGo \/ LockLapses \/ Crash
      PROVE  TypeOK' /\ HooksFit'
  BY <1>6 DEF OtherTakesLock, OtherLetsGo, LockLapses, Crash
<1>7. CASE UNCHANGED vars
  BY <1>7 DEF vars
<1> QED
  BY <1>1, <1>2, <1>3, <1>4, <1>5, <1>6, <1>7 DEF Next
-----------------------------------------------------------------------------
\* Under the wallet lock.

\* Initially nothing is credited and no handler is in a transaction.
LEMMA LockInit == Init => LockInv
BY BonumTypeInit DEF Init, LockInv, InTransaction

\* A handler credits only an invoice that it saw pending and that nobody else
\* could credit since, while it holds the wallet lock.
LEMMA LockHandle ==
    ASSUME LockInv, TypeOK', HooksFit', NEW h \in Handler, Handle(h)
    PROVE  LockInv'
<1> USE DEF LockInv, TypeOK, HooksFit, InTransaction, tables, process, bonum, faults, GoTo,
        Answer, Finish
<1>1. CASE InsertEvent(h)
  BY <1>1 DEF InsertEvent
<1>2. CASE Duplicate(h)
  BY <1>2 DEF Duplicate
<1>3. CASE MarkFailed(h)
  <2>1. /\ status' = [status EXCEPT ![hook[h].invoice] = hook[h].outcome]
        /\ hook[h] \in Webhook /\ hook[h].outcome \in Outcome
    BY <1>3, BonumAssumption DEF MarkFailed
  <2>2. \A i \in Invoice : credits[i] >= 1 => status'[i] \notin {"none", "pending"}
    BY <2>1 DEF Outcome
  <2> QED
    BY <1>3, <2>2 DEF MarkFailed
<1>4. CASE AcquireLock(h)
  BY <1>4, BonumAssumption DEF AcquireLock
<1>5. CASE LockBusy(h)
  BY <1>5 DEF LockBusy
<1>6. CASE ReadInvoice(h)
  <2>1. hook[h] \in Webhook /\ hook[h].invoice \in Invoice
    BY <1>6, BonumAssumption DEF ReadInvoice
  <2>2. pc'[h] = "credit" => credits[hook[h].invoice] = 0
    BY <1>6, <2>1 DEF ReadInvoice, Creditable
  <2> QED
    BY <1>6, <2>1, <2>2 DEF ReadInvoice
<1>7. CASE Credit(h)
  <2> DEFINE i == hook[h].invoice
  <2>1. i \in Invoice
    BY <1>7, BonumAssumption DEF Credit
  <2>2. /\ credits' = [credits EXCEPT ![i] = credits[i] + 1]
        /\ status' = [status EXCEPT ![i] = "paid"]
        /\ pc' = [pc EXCEPT ![h] = "release"] /\ pc[h] = "credit"
        /\ UNCHANGED <<walletLock, hook, faults>>
    BY <1>7 DEF Credit
  <2> HIDE DEF i
  <2>3. \A j \in Invoice : credits'[j] >= 1 => status'[j] \notin {"none", "pending"}
    BY <2>1, <2>2
  <2>4. lapses = 0 => credits[i] = 0 /\ walletLock = h
    BY <2>2 DEF i
  <2>5. lapses = 0 => \A j \in Invoice : credits'[j] <= 1
    BY <2>1, <2>2, <2>4
  <2>6. lapses = 0 => \A g \in Handler : pc'[g] # "credit"
    BY <2>2, <2>4
  <2> QED
    BY <2>2, <2>3, <2>4, <2>5, <2>6
<1>8. CASE Release(h)
  BY <1>8 DEF Release, ReleaseLock
<1> QED
  BY <1>1, <1>2, <1>3, <1>4, <1>5, <1>6, <1>7, <1>8 DEF Handle

\* Nor does any other step: other owners of the lock, failures and crashes
\* credit nothing.
LEMMA LockStep ==
    ASSUME LockInv, [Next]_vars
    PROVE  LockInv'
<1> USE DEF LockInv, TypeOK, HooksFit, InTransaction, tables, process, bonum, faults, GoTo
<1>1. TypeOK' /\ HooksFit'
  BY BonumTypeStep DEF LockInv, HooksFit
<1>2. ASSUME NEW i \in Invoice, CreateInvoice(i)
      PROVE  LockInv'
  <2>1. credits[i] = 0
    BY <1>2 DEF CreateInvoice
  <2> QED
    BY <1>1, <1>2, <2>1 DEF CreateInvoice
<1>3. ASSUME NEW w \in Webhook, Send(w)
      PROVE  LockInv'
  BY <1>1, <1>3 DEF Send
<1>4. ASSUME NEW w \in Webhook, NEW h \in Handler, Deliver(h, w)
      PROVE  LockInv'
  BY <1>1, <1>4 DEF Deliver
<1>5. ASSUME NEW h \in Handler, TransactionFails(h)
      PROVE  LockInv'
  BY <1>1, <1>5 DEF TransactionFails, Answer, Finish
<1>6. ASSUME OtherTakesLock \/ OtherLetsGo
      PROVE  LockInv'
  BY <1>1, <1>6, BonumAssumption DEF OtherTakesLock, OtherLetsGo
<1>7. ASSUME LockLapses
      PROVE  LockInv'
  BY <1>1, <1>7 DEF LockLapses
<1>8. ASSUME Crash
      PROVE  LockInv'
  BY <1>1, <1>8 DEF Crash
<1>9. CASE UNCHANGED vars
  BY <1>9 DEF vars
<1> QED
  BY <1>1, <1>2, <1>3, <1>4, <1>5, <1>6, <1>7, <1>8, <1>9, LockHandle DEF Next

\* While no wallet lock lapses inside a transaction, no invoice is credited
\* twice, in whatever order and however often its webhooks are delivered.
THEOREM SingleCredit == Spec => []CreditedAtMostOnce
<1>1. LockInv => CreditedAtMostOnce
  BY DEF LockInv, CreditedAtMostOnce
<1> QED
  BY <1>1, LockInit, LockStep, PTL DEF Spec
-----------------------------------------------------------------------------
\* Under the event's unique key.

\* Initially nothing is credited and no handler works on an event.
LEMMA KeyInit == Init => KeyInv
BY BonumTypeInit DEF Init, KeyInv, Working, KeyCreditsOnce

\* The handler whose insert succeeded is the only one to work on the event,
\* and marks it processed in the step that credits.
LEMMA KeyHandle ==
    ASSUME KeyInv, TypeOK', HooksFit', NEW h \in Handler, Handle(h)
    PROVE  KeyInv'
<1> USE DEF KeyInv, TypeOK, HooksFit, Working, KeyCreditsOnce, OneTxn, tables, process,
        bonum, faults, GoTo, Answer, Finish
<1>1. hook[h] \in Webhook /\ hook[h].invoice \in Invoice /\ hook[h].txn \in Txn
  BY BonumAssumption DEF Handle, InsertEvent, Duplicate, MarkFailed, AcquireLock, LockBusy,
     ReadInvoice, Credit, Release
<1>2. \A w \in Webhook : w.invoice \in Invoice /\ w.txn \in Txn
  BY BonumAssumption
<1>3. CASE InsertEvent(h)
  <2>1. event[hook[h].txn] = "none"
    BY <1>3 DEF InsertEvent, EventKeyFree
  <2> QED
    BY <1>1, <1>2, <1>3, <2>1 DEF InsertEvent
<1>4. CASE Duplicate(h)
  BY <1>1, <1>4 DEF Duplicate
<1>5. CASE MarkFailed(h)
  BY <1>1, <1>2, <1>5 DEF MarkFailed
<1>6. CASE AcquireLock(h) \/ LockBusy(h)
  BY <1>1, <1>6 DEF AcquireLock, LockBusy
<1>7. CASE ReadInvoice(h)
  BY <1>1, <1>2, <1>7 DEF ReadInvoice
<1>8. CASE Credit(h)
  <2> DEFINE i == hook[h].invoice
             t == hook[h].txn
  <2>1. /\ credits' = [credits EXCEPT ![i] = credits[i] + 1]
        /\ event' = [event EXCEPT ![t] = "processed"]
        /\ pc' = [pc EXCEPT ![h] = "release"] /\ pc[h] = "credit"
        /\ hook' = hook
    BY <1>8 DEF Credit
  <2>2. event[t] = "received"
    BY <2>1
  <2>3. \A j \in Invoice :
           credits'[j] >= 1 => \E w \in Webhook : w.invoice = j /\ event'[w.txn] = "processed"
    BY <1>1, <1>2, <2>1
  <2>4. ASSUME NEW j \in Invoice, OneTxn(j) PROVE credits'[j] <= 1
    <3>1. CASE j = i
      <4>1. ~(credits[i] >= 1)
        BY <1>1, <2>2, <2>4, <3>1
      <4> QED
        BY <1>1, <2>1, <3>1, <4>1
    <3>2. CASE j # i
      BY <1>1, <2>1, <2>4, <3>2
    <3> QED
      BY <3>1, <3>2
  <2>5. \A g \in Handler : Working(g)' => g # h /\ Working(g) /\ hook[g].txn # t
    BY <2>1
  <2>6. \A g \in Handler : Working(g)' => event'[hook'[g].txn] = "received"
    BY <1>2, <2>1, <2>5
  <2> QED
    BY <2>1, <2>3, <2>4, <2>5, <2>6
<1>9. CASE Release(h)
  BY <1>1, <1>9 DEF Release
<1> QED
  BY <1>3, <1>4, <1>5, <1>6, <1>7, <1>8, <1>9 DEF Handle

\* A crash leaves its event received for good, so nobody works on it again.
LEMMA KeyStep ==
    ASSUME KeyInv, [Next]_vars
    PROVE  KeyInv'
<1> USE DEF KeyInv, TypeOK, HooksFit, Working, KeyCreditsOnce, OneTxn, tables, process, bonum,
        faults, GoTo
<1>1. TypeOK' /\ HooksFit'
  BY BonumTypeStep DEF KeyInv, HooksFit
<1>2. ASSUME NEW i \in Invoice, CreateInvoice(i)
      PROVE  KeyInv'
  BY <1>1, <1>2 DEF CreateInvoice
<1>3. ASSUME NEW w \in Webhook, Send(w)
      PROVE  KeyInv'
  BY <1>1, <1>3 DEF Send
<1>4. ASSUME NEW w \in Webhook, NEW h \in Handler, Deliver(h, w)
      PROVE  KeyInv'
  BY <1>1, <1>4 DEF Deliver
<1>5. ASSUME NEW h \in Handler, TransactionFails(h)
      PROVE  KeyInv'
  BY <1>1, <1>5 DEF TransactionFails, Answer, Finish
<1>6. ASSUME OtherTakesLock \/ OtherLetsGo \/ LockLapses
      PROVE  KeyInv'
  BY <1>1, <1>6 DEF OtherTakesLock, OtherLetsGo, LockLapses
<1>7. ASSUME Crash
      PROVE  KeyInv'
  BY <1>1, <1>7 DEF Crash
<1>8. CASE UNCHANGED vars
  BY <1>8 DEF vars
<1> QED
  BY <1>1, <1>2, <1>3, <1>4, <1>5, <1>6, <1>7, <1>8, KeyHandle DEF Next

\* Where all webhooks of an invoice carry one transaction id, the unique key of
\* the events keeps the credit single even when wallet locks lapse.
THEOREM KeyedCredit == Spec => []KeyCreditsOnce
<1>1. KeyInv => KeyCreditsOnce
  BY DEF KeyInv, KeyCreditsOnce
<1> QED
  BY <1>1, KeyInit, KeyStep, PTL DEF Spec

\* The two inductive invariants hold together in every reachable state, the
\* types of all tables and handlers with them.
THEOREM CreditInvariant == Spec => []CreditInv
<1>1. Init => CreditInv
  BY LockInit, KeyInit DEF CreditInv
<1>2. CreditInv /\ [Next]_vars => CreditInv'
  BY LockStep, KeyStep DEF CreditInv
<1> QED
  BY <1>1, <1>2, PTL DEF Spec
-----------------------------------------------------------------------------
\* What the tables say of each other.

\* Initially there is no invoice and no event.
LEMMA LedgerInit == Init => LedgerInv
BY BonumTypeInit, BonumAssumption DEF Init, LedgerInv

\* A handler marks an event processed in the transaction that settles its
\* invoice, or on finding the invoice settled.
LEMMA LedgerHandle ==
    ASSUME TxnNamesInvoice, LedgerInv, TypeOK', HooksFit', NEW h \in Handler, Handle(h)
    PROVE  LedgerInv'
<1> USE DEF LedgerInv, TypeOK, HooksFit, tables, process, bonum, faults, GoTo, Answer, Finish
<1>1. hook[h] \in Webhook /\ hook[h].invoice \in Invoice /\ hook[h].txn \in Txn
  BY BonumAssumption DEF Handle, InsertEvent, Duplicate, MarkFailed, AcquireLock, LockBusy,
     ReadInvoice, Credit, Release
<1>2. \A w \in Webhook : w.invoice \in Invoice /\ w.txn \in Txn /\ w.outcome \in Outcome
  BY BonumAssumption
<1>3. CASE InsertEvent(h)
  BY <1>1, <1>2, <1>3 DEF InsertEvent
<1>4. CASE Duplicate(h) \/ AcquireLock(h) \/ LockBusy(h) \/ Release(h)
  BY <1>1, <1>4 DEF Duplicate, AcquireLock, LockBusy, Release
<1>5. CASE MarkFailed(h)
  <2>1. /\ status' = [status EXCEPT ![hook[h].invoice] = hook[h].outcome]
        /\ event' = [event EXCEPT ![hook[h].txn] = "processed"]
        /\ hook[h].outcome \notin {"none", "pending", "paid"}
    BY <1>1, <1>2, <1>5 DEF MarkFailed, Outcome
  <2>2. \A w \in Webhook :
           event'[w.txn] = "processed" => status'[w.invoice] \notin {"none", "pending"}
    BY <1>1, <1>2, <2>1 DEF TxnNamesInvoice
  <2> QED
    BY <1>1, <1>2, <1>5, <2>1, <2>2 DEF MarkFailed
<1>6. CASE ReadInvoice(h)
  <2>1. ~Creditable(hook[h].invoice) => status[hook[h].invoice] \notin {"none", "pending"}
    BY <1>6 DEF ReadInvoice, Creditable
  <2>2. \A w \in Webhook :
           event'[w.txn] = "processed" => status[w.invoice] \notin {"none", "pending"}
    BY <1>1, <1>2, <1>6, <2>1 DEF ReadInvoice, TxnNamesInvoice
  <2> QED
    BY <1>1, <1>6, <2>2 DEF ReadInvoice
<1>7. CASE Credit(h)
  <2>1. /\ status' = [status EXCEPT ![hook[h].invoice] = "paid"]
        /\ credits' = [credits EXCEPT ![hook[h].invoice] = credits[hook[h].invoice] + 1]
        /\ event' = [event EXCEPT ![hook[h].txn] = "processed"]
        /\ hook' = hook
        /\ pc' = [pc EXCEPT ![h] = "release"] /\ pc[h] = "credit"
    BY <1>7 DEF Credit
  <2>2. \A w \in Webhook :
           event'[w.txn] = "processed" => status'[w.invoice] \notin {"none", "pending"}
    BY <1>1, <1>2, <2>1 DEF TxnNamesInvoice
  <2>3. \A i \in Invoice : /\ status'[i] = "paid" => credits'[i] >= 1
                           /\ credits'[i] >= 1 => status'[i] \notin {"none", "pending"}
    BY <1>1, <2>1
  <2> QED
    BY <1>1, <1>2, <2>1, <2>2, <2>3
<1> QED
  BY <1>3, <1>4, <1>5, <1>6, <1>7 DEF Handle

\* No other step settles an invoice or marks an event.
LEMMA LedgerStep ==
    ASSUME TxnNamesInvoice, LedgerInv, [Next]_vars
    PROVE  LedgerInv'
<1> USE DEF LedgerInv, TypeOK, HooksFit, tables, process, bonum, faults, GoTo
<1>1. TypeOK' /\ HooksFit'
  BY BonumTypeStep DEF LedgerInv, HooksFit
<1>2. ASSUME NEW i \in Invoice, CreateInvoice(i)
      PROVE  LedgerInv'
  BY <1>1, <1>2, BonumAssumption DEF CreateInvoice
<1>3. ASSUME NEW w \in Webhook, Send(w)
      PROVE  LedgerInv'
  BY <1>1, <1>3 DEF Send
<1>4. ASSUME NEW w \in Webhook, NEW h \in Handler, Deliver(h, w)
      PROVE  LedgerInv'
  BY <1>1, <1>4 DEF Deliver, FindInvoice
<1>5. ASSUME NEW h \in Handler, TransactionFails(h)
      PROVE  LedgerInv'
  BY <1>1, <1>5 DEF TransactionFails, Answer, Finish
<1>6. ASSUME OtherTakesLock \/ OtherLetsGo \/ LockLapses
      PROVE  LedgerInv'
  BY <1>1, <1>6 DEF OtherTakesLock, OtherLetsGo, LockLapses
<1>7. ASSUME Crash
      PROVE  LedgerInv'
  BY <1>1, <1>7 DEF Crash
<1>8. CASE UNCHANGED vars
  BY <1>8 DEF vars
<1> QED
  BY <1>1, <1>2, <1>3, <1>4, <1>5, <1>6, <1>7, <1>8, LedgerHandle DEF Next

\* However webhooks, lapsed locks, failures and crashes interleave, no invoice
\* counts as paid without a credit or stays open after one, and no event is
\* marked processed while its invoice is pending, provided that a transaction
\* id is of one invoice.
THEOREM LedgerAgreement ==
    ASSUME TxnNamesInvoice
    PROVE  Spec => []LedgerAgrees
<1>1. LedgerInv => LedgerAgrees
  BY DEF LedgerInv, LedgerAgrees, TypeOK
<1>2. LedgerInv /\ [Next]_vars => LedgerInv'
  BY LedgerStep
<1> QED
  BY <1>1, <1>2, LedgerInit, PTL DEF Spec
=============================================================================
