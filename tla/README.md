# Power bank rental: specifications, model checks and proofs

This directory specifies the power bank rental system (`backend/`, NestJS over
PostgreSQL, Redis and MQTT; `customer_web/` and `admin_web/`, Next.js) in
TLA+. TLC checks the specifications on small instances; TLAPS proves their
safety properties for every instance. `PROJECT.json` maps each definition to
the lines it stands for.

To repeat a check, here: `tlc -workers 2 -config MCRentals.cfg MCRentals`
(any pair of the table below) and `tlapm RentalsProofs.tla`.

## 1. The system

A customer pays money into a wallet, starts a rental (a deposit is frozen and
a cabinet dispenses a power bank) and returns the bank to any empty slot (the
deposit is released and the charge taken). One backend process serves all
requests; it owns no state that survives a crash.

| Part | State | Operations | Talks to |
|---|---|---|---|
| Rentals (`modules/rentals`) | `rentals`, and the columns it writes in `power_banks`, `slots` | start, return, their auto-select variants, previews | Wallet (inside its transactions), Redis locks, Cabinet commands |
| Wallet (`modules/wallet`) | `wallets`, `wallet_transactions` | applyTransaction, applyInExistingTx, direct top-up | PostgreSQL row lock, Redis lock |
| Redis locks (`common/redis`) | keys with a token and a TTL | acquireLock and the release it returns | - |
| Cabinet commands (`modules/iot`) | `pendingAcks`, timers, `lastHeartbeat` in memory | releaseSlot, lockSlot, acknowledgements, connection events | MQTT broker, cabinets |
| Slot and heartbeat sync (`modules/iot`) | `slots.status`, `stations.last_heartbeat_at` | heartbeat, status and slot messages | PostgreSQL |
| Cabinet (hardware; `test/mocks/cabinet-simulator.mjs`) | what is in each slot | release, lock, snapshots | broker |
| Payments (`modules/payments`) | `bonum_invoices`, `bonum_webhook_events` | create invoice, process webhook | Wallet, Redis lock, Bonum |
| Bonum provider (`modules/payments/bonum`) | cached token pair | invoice request, checksum | Bonum (HTTP) |
| Auth (`modules/auth`) | `otp:`, `google:state:`, `dan:state:`, `oauth:code:` keys, `refresh_tokens`, `dan_verifications` | OTP, Google sign-in, one-time codes, refresh, logout, DAN verification | Redis, PostgreSQL, Google, DAN |
| Users (`modules/users`) | `users`, `auth_identities` | create, link identity, mark verified | PostgreSQL |
| Stations (`modules/stations`) | `stations`, `slots` | create, update, soft delete; nearby list, detail | PostgreSQL |
| App scan, App home, Admin | - | resolve a code; home screen; lists, overview, details | PostgreSQL |
| Throttler (`common/throttler`) | hit counters | increment (never called) | Redis |
| Customer web app | session in memory and localStorage, query cache, form and page state, camera | sign-in, refresh, logout, scan, start, return | the backend, browser APIs |
| Admin web app | the same session code, query cache, station form | station editor, lists, dashboard | the backend |

What is hard about it:

* **Interleaving.** Every `await` lets other requests in. The two operations
  on rentals hold up to three Redis locks, run two database transactions and
  wait for hardware in between.
* **Timeouts against TTLs.** `start()` may wait 60 s for an acknowledgement
  (`MQTT_ACK_TIMEOUT_MS`), under a rental lock of 10 s, a wallet lock of 5 s
  and a slot lock of 65 s. Two of the three lapse under their owner.
* **Partial failure.** The hardware moves between two transactions; the second
  can fail, and so can its compensation.
* **Lost, late and repeated messages.** Acknowledgements come late or never,
  slot snapshots are stored in any order, Bonum delivers a webhook until it is
  answered 200, and sometimes after that.
* **Crashes.** Locks stay until their TTL, frozen deposits and half-processed
  webhook events stay for good.
* **Look, then write.** Codes, consents, accounts, verifications, tokens and
  stations are read, judged and written in separate statements; only unique
  keys and GETDEL order the handlers that overlap.
* **Answers that come late.** A page acts on an answer when it is no longer
  the page that asked: another code is shown, another station selected,
  another customer signed in, the camera gone.

What makes each part correct:

* Rentals: a bank is rented exactly while one active rental names it; a
  deposit is frozen exactly as long as a start or a rental needs it; one
  charge per rental; a slot gets one command at a time; every request ends.
* Wallet: balance = signed sum of the ledger, after-images chain, frozen
  never exceeds the balance.
* Cabinet commands: a handler hears ok only for its own executed command, and
  hears something.
* Payments: a paid invoice is credited, once; a 401 is answered with a new
  token.
* Slot and heartbeat sync: a silent cabinet goes offline; once its messages are
  handled a slot is as its cabinet told last.
* Auth, Users: guesses are bounded, a consent yields one session, an identity
  never moves, a national id has one user.
* Session: one refresh serves all requests, logout is final, requests end.
* Stations, offers: what is reported as created is whole; what is offered is
  accepted unless a row has changed.
* Pages: what is shown, charged, saved or printed belongs to the code, rental,
  station or customer it names; figures drift by no more than what is written
  while they are read.

## 2. Modules

| Module | Models | Kind |
|---|---|---|
| `WalletOps` | `calculateNewState`: the arithmetic on (balance, frozen) | operators |
| `Wallet` (extends `WalletLedger`) | concurrent transactions on one wallet, row lock and Redis lock | component |
| `Rentals` (extends `WalletOps`) | start, return and top-up over tables, locks, cabinet and broker | composition of Rentals, Wallet, locks, commands, snapshots |
| `RentalContract` | what renting promises: begin, end with one charge, add funds | abstract specification |
| `RentalsInvariants` | the named parts of the inductive invariants of `Rentals`, and the conditions on constants its theorems take | invariants |
| `RentalsProofs` | types, slot lock, custody, funded deposits | proofs |
| `RentalsFieldProofs` | what holds once locks outlast the wait: wallet lock, starts, slots and cabinet, banks | proofs |
| `RentalsContractProofs` | frozen deposits, refinement of `RentalContract` | proofs |
| `WalletLedger` | the wallet row and its ledger, what callers ask of them, and the properties that tie them | state and properties |
| `WalletProofs` | theorems on `Wallet` | proofs |
| `CabinetCommands` | `sendCommand`, promises, timers, acknowledgements, reconnects | component |
| `CabinetProofs` | theorems on it | proofs |
| `BonumWebhooks` | invoices and `processBonumWebhook`, several handlers | component |
| `BonumProofs` | theorems on it | proofs |
| `BonumTokens` | the provider's token cache, 401 and retry | component |
| `Otp` | one phone's code: request, guesses, attempts, TTL | component |
| `OAuthCodes` | Google consent, callback, one-time code, exchange | component |
| `Accounts` | users, identities and DAN verifications under the unique keys | component |
| `WebSession` | a signed-in page against the token endpoints: refresh, retry, logout, reload | composition of `http.ts`, `auth-store.ts`, `auth-provider.tsx` and AuthService |
| `Heartbeats` | messages of cabinets, the map, the column and their readers | component |
| `SlotReports` | slot messages, their normalisation and the stored status | component |
| `Offers` | the queries behind every offer against the checks of start and return | composition of Stations, App scan, Rentals (reads) |
| `PartsProofs` | theorems on the fifteen components of `MCParts` | proofs |
| `RentalCost` | `calculateCost`, floating point included, with its theorems | operators and proofs |
| `ScanPage`, `QrScanner` | the scan page: resolve, preview, start; camera and detector | component |
| `ReturnPage` | active rental, return and receipt pages | component |
| `SignIn` | login and OTP pages, the shell's banner, the query cache | component |
| `StationEditor` | the admin's station screen over the station endpoints | composition |
| `AdminLists` | a paginated list: page, filters, cache, the two queries behind it | composition |
| `Overview` | the dashboard and the queries of its snapshot | composition |
| `MC*` | small instances for TLC | model checking |

`MCParts` puts fifteen of these components side by side. They share no state,
so a behaviour runs one of them (`part`) and the others keep one initial value:
the state spaces add up instead of multiplying, and one run checks them all.
`MCLiveness` does the same with the three components that have liveness under a
fairness of their own (`Rentals`, `CabinetCommands`, `WebSession`), and
`MCPayments` with `BonumWebhooks` and `Wallet`. `MCRentalsTwice` runs `Rentals`
under a schedule that says who moves at each step; what the mover does is left
to `Rentals`.

### How state and actions correspond to the code

**Rentals.** Variables are the columns (`wallet`, `bankStatus`, `slotStatus`,
`slotBank`, `rental`), the Redis keys (`rentalLock`, `walletLock`,
`slotLock`), the handlers (`pc` is the await a handler stands at, `call` its
locals) and the world outside (`cabinet`, `wire`, `ack`, `reports`). An action
is what the code does between two awaits that other requests can notice:

* A transaction is one action. The return transaction is two, `CheckBank` and
  `Settle`: it reads the bank without a row lock (READ COMMITTED) and meets
  the first row lock at the wallet, so another return may commit in between.
  The transactions of `start()` need no such split: the slot lock, which
  outlives the wait (65 s against 60 s), excludes every other request from
  that slot, and the rental of a user is decided by a unique key.
* `OnFailedCommand` and `OnAck` are the two continuations of the wait.
  `NoAnswer` is the timeout, the failed publish and `rejectAllPending`.
* A lock lapses under its owner only during the wait, and only when its TTL
  is below the acknowledgement timeout (`Lapses`): every other step is short
  beside any TTL. An orphaned lock, of a dead process or of a `return()` that
  could not get the wallet lock, lapses some time later.
* The finally blocks are the one action `Unlock`; each lock is deleted if its
  key still holds the request's token. The release is GET and then DEL in
  `Wallet`, one step here: between the two the key can lapse and be taken
  anew, and the wallet then has two holders, which `Wallet` shows the row lock
  to make good.
* A request that is refused before it has written or locked anything leaves no
  trace and is no action.
* A request may name any slot, which covers the auto-select variants. The
  charge is any member of `ChargeAmount`, which stands for the cost formula.
* Initially banks are idle, each in at most one slot of one cabinet. Nothing in
  the code ever makes a returned bank idle again.

**Wallet.** `ApplyTransaction` takes the Redis lock, `ApplyInExistingTx` does
not; both then wait for the row lock. The Redis lock may lapse at any time
here, so the module also covers callers that have lost it. `draft` is what the
open transaction has written.

**CabinetCommands.** `promise`, `pending` and `timer` are `ackPromise`,
`pendingAcks` and the armed timeouts. `Reject` decides whether a rejection
finds a handler: until the publish callback has run nobody awaits the promise,
and an unhandled rejection ends the process (`main.ts` installs no listener).
The MQTT client and broker are external: QoS 1 publishes are repeated after a
reconnect, confirmations and messages come in any order.

**BonumWebhooks.** `InsertEvent` is the insert outside the transaction,
`Duplicate` the caught unique violation, `ReadInvoice` and `Credit` the
transaction, which does not lock the invoice row. Bonum is external: it sends
any webhook of `Webhook`, also before our row of the invoice is stored (404),
again and again, and never reports a failure of an invoice for the first time
after it has reported its payment. A unique violation inside the transaction is
caught and answered 200 (`TransactionFails`).

**BonumTokens.** An invoice request is where it stands (`ask`) and the token it
used; `tokens` is the cache that all share. Token pairs are numbered; Bonum may
end one before its time, which is the 401.

**Otp, OAuthCodes, Accounts.** Each handler is a program counter with what it
has read; a Redis key is a variable, its TTL an action that removes it. `Otp`
reads the entry, judges it and writes it back as a whole (`SET ... KEEPTTL`);
`overtaken` remembers the wrong codes that were compared while another one was
being counted.
`OAuthCodes` takes state and code with GETDEL. In `Accounts` the unique keys
are guards of the inserts (`Taken`, `NationalIdIsFree`); a handler may die
between any two statements.

**WebSession.** A token pair is numbered and stands for both tokens. `call` has
the bearer each request carries and whether it is a retry; `refreshing` is
`refreshPromise` and the place of the server's handler in it: find, revoke,
issue. `Reload` forgets the page's requests, not the server's.

**Heartbeats, SlotReports.** A message carries its cabinet, its time or none,
and for a slot the fields the normalisation tells apart. A handler awaits the
station's row before the slot's, and nobody awaits the handler. The broker
delays, reorders, repeats and loses.

**Offers.** One station with its slots; `offer` is what a page shows, `verdict`
what the service answers. Rows change in between (`changed`). Offers come from
the lists, the scan, the previews and the station's detail, which offers a
return on `slot.status` alone (`ShowDetail`).

**ScanPage, ReturnPage, SignIn, StationEditor.** A mutation is a record that
outlives the page or the code it was started for; `attached`, `shownPage` and
the like say whether its page still listens. In `ScanPage` the text field
(`qrData`) is apart from the code that was resolved: `Type` edits only the
field, and `retyped` remembers that. React Query renews the callbacks
of a pending mutation with every render and keeps those of the last one, so
the receipt and the OTP page see what the page shows by then. In
`StationEditor` the address bar (`route`) selects the station, a cached list
supplies it and an effect resets the form; after a mutation the form is empty
and stays on the screen, enabled, until the navigation lands (`landing`).

**QrScanner.** The refs of the hook are variables, and so is whether React has
rendered the `<video>` element. The browser grants, refuses or delays the
camera; a stream is `live` until its tracks are stopped.

**AdminLists, Overview.** A request is the set of its queries that have been
answered; the system writes in between. Lists are ordered by time alone, so
`FindMany` returns any page that some order of the rows of one time gives.

## 3. Runs

All runs use two workers. The default timeouts are those of the code
(10 s, 5 s, 65 s, 60 s); only their order matters.

| Run | Instance | Checks | Shows |
|---|---|---|---|
| `MCRentals` | 2 requests of 1 user, 2 slots, 2 banks, 2 rentals, default timeouts, 1 fault of any kind | `DepositsAreFunded`, `Custody`, `OneCommandPerSlot` | every freeze and charge is covered, banks are where one row says, a slot has one command, although two of the three locks lapse during the wait |
| `MCRentalsShortAck` | the same with an acknowledgement timeout of 4 s, top-ups, 1 reconnect | `TypeOK`, `DepositsAreFrozen`, `StartsExclude`, `WalletLockIsHeld`, `DispensedIsRecorded`, `NoBankIsLost`, refinement `ImplementsContract` | what the locks are for does hold once every TTL exceeds the wait, the money of a rental included |
| `MCPayments` | 2 handlers, 2 invoices, 4 webhooks, 1 crash, 1 failed transaction, 1 lapsed lock; beside them 2 callers of a wallet, 4 ledger entries | `CreditedAtMostOnce`, `LedgerAgrees`, `KeyCreditsOnce`; `BalanceIsSignedLedgerSum`, `LedgerChains`, `FrozenWithinBalance` | no invoice is credited twice, in any order of deliveries; the row lock alone keeps wallet and ledger consistent, with Redis locks lapsing at will, also between GET and DEL of a release |
| `MCLiveness` | 2 requests for rentals, 1 slot, 1 silence; 2 commands, 2 outages; 2 requests of a page, 3 token pairs; fairness of all three | `EveryRequestIsAnswered`, `OkMeansExecuted`, `CommandsEnd`, `CallsSettle` | requests, commands and the requests of a page end; acknowledgements are matched to their commands |
| `MCParts` | fifteen components, see below | nineteen properties, see below | each keeps what it promises beside overlapping requests, lost answers, restarts and stale caches |
| `MCRentalsTwoStarts` | default timeouts | `StartsExclude` violated | PAYMENT.md:506 does not hold: two starts of one user dispense at once |
| `MCRentalsTwice` | 2 requests of 2 users, 2 slots, 2 banks, default timeouts, 1 silence, along one schedule of movers | `SettledOnce` violated | rentals.service.ts:235 (H-8): a second return of a rental passes the check of the bank and settles the rental again |
| `MCRentalsDocked` | a charge above the balance | `DockedRentalIsCompleted` violated | PAYMENT.md:508: nothing reconciles a rental whose bank is docked |
| `MCBonumLostPayment` | 1 webhook, 1 handler, no fault | `PaymentIsCredited` violated | PAYMENT.md:278: a retry after a busy wallet lock is answered as a duplicate and the payment is lost |
| `MCCabinetTold` | 1 command, no outage | `HandlersAreTold` violated | BACKEND.md:252: an unconfirmed publish ends the process instead of telling the handler |
| `MCOtp` | 2 handlers, 1 code, 5 attempts | `GuessLimit` violated | BACKEND.md:283: two wrong codes that overlap are counted once, so a sixth is compared |
| `MCScanBlind` | 1 start of the camera, fairness | `ActiveScannerDetects` violated | scan/page.tsx:213: the scanner that the first start leaves active has no picture and detects nothing |

The last seven runs state what a document, a comment or the page itself says
and show that the code does something else; the entries under "findings" in `PROJECT.json`
quote the lines.

The parts of `MCParts`:

| Part | Instance | Checks | Not promised |
|---|---|---|---|
| `WebSession` | 2 requests, 3 token pairs | `SessionIsLive`, `LogoutIsFinal` | a refresh that outlives a logout can bring a session back or wipe a newer one; a reload can cut off a request that revokes |
| `Otp` | 2 handlers, 2 codes, 2 attempts | `GuessBudget` | wrong guesses that overlap are not all counted (`MCOtp`): what exceeds the limit is what overtook one being counted |
| `Accounts` | 2 handlers, 2 users, 1 phone, 2 Google accounts of one mail address, 1 national id | `VerifiedHasIdentity`, `IdentitiesAreStable` | |
| `OAuthCodes` | 2 consents, 2 callbacks | `OneSessionPerConsent` | tokens issued before a crash are handed to nobody |
| `BonumTokens` | 2 invoices, 3 token pairs: both calls may meet a 401 and renew at once | `RetriesWithNewToken` | |
| `Heartbeats` | 2 cabinets, 1 tick, timeout 0, 2 messages and 2 handlers at a time | `NoFalseOnline` | a cabinet may count as offline although it speaks: a late message with an older time wins; a replaced device's heartbeat stays with the station |
| `SlotReports` | 2 handlers, 3 messages on their way | `SettledSlotIsReported` | handlers that overlap finish in either order |
| `Offers` | 2 slots | `OffersAreHonoured` | offers of a station that is offline or has gone, those whose rows have changed, and a return the detail page offers for a slot whose status and bank contradict each other |
| `ScanPage` | 2 codes (a slot's, a station's), 2 start requests | `PreviewIsForTheCodeShown` | a text field edited after the resolve shows another code than the preview and the start button; a start whose code was replaced still starts a rental |
| `QrScanner` | 3 starts | `CameraIsReleased` | two openings that overlap leak a stream |
| `ReturnPage` | 2 rentals, 2 stations, 1 press at a time | `ReceiptNamesTheReturn` | a selection that changes while the return is pending |
| `StationEditor` | 2 stations, 2 versions each | `SavesTheStationShown`, `CreatedIsWhole` | a form emptied by a mutation can be filled and saved before the navigation lands; a station whose slots failed stays, unreported; the last write wins between administrators |
| `AdminLists` | 3 rows, two of one time, pages of 1, 2 answers kept | `BrowsingMissesNothing` | rows that share their time, which may be repeated or skipped; rows that leave a filter while it is read; the date boxes, which keep the page number |
| `SignIn` | 2 customers, 1 request of each kind | `PagesNameTheirCustomer` | a phone edited while its code is requested; keys without the user's id |
| `Overview` | 2 stations, 2 writes | `FiguresDriftByWrites` | |

`TypeOK` is the conjunction of the type invariants of all parts. The column
"not promised" is what the code really does: each property names these
exceptions itself, through a history variable (`overlap`, `meddled`, `spoilt`,
...), so that the rest is checked without them.

**Bounds.** Two requests are enough for every race of this code that was found
or feared: each is between two holders of one lock, one row, one key or one
page. A user's two starts need two slots and two banks; two returns of one
rental need one bank and two slots; a rotated token needs a third pair, a
renewal beside a forced retry a third provider pair, a reordering a second
message, a tie two rows of one time with another one between them, and a
skipped row a third page. Nothing promised by `MCRentals` depends on a rental
being settled once, which takes a second user to go wrong and is left to
`MCRentalsTwice`: the schedule is far too deep for a breadth-first search, and
the schedule only chooses movers, so the run explores whatever they may do. `MaxFaultsInAll` = 1
lets any single fault strike at any point. `MaxLedger`, `MaxBalance`,
`MaxOutage`, `MaxCrash`, `MaxFailure`, `MaxLapse`, `MaxPairs`, `MaxCodes`,
`MaxTokens`, `MaxTime`, `MaxMessages`, `MaxVersion`, `MaxRows`, `MaxKept`,
`MaxWrites` and `MaxQueued` bound counters only. Requests, slots, banks,
rentals, handlers and callers are interchangeable, so the safety runs of the
core use symmetry; `MCParts` and the runs with liveness do not.
`MCPayments` has its handlers and callers interchangeable. `MCRentals`
has no top-ups (`MaxBalance` is below the balances); `MCRentalsShortAck` and
`MCLiveness` have them. Deadlock is checked except where the system really
stops: `CabinetCommands` ends when all commands have ended or the process is
gone, the parts end when their visits, codes, pairs or rows are used up.

**Fairness.** `Rentals`: Node runs a handler whose await has settled (weak
fairness of each handler), Redis expires keys, and a command that was sent is
carried out, refused or lost. A silence is a counted fault there, so the
fairness of the cabinet stands for the acknowledgement timer; that the timer
does end every wait is what `CommandsEnd` shows in `CabinetCommands`, where
timers fire, the MQTT client reconnects by itself, a connected broker confirms,
and nothing is assumed of cabinets. Nothing makes customers arrive or faults
happen. `BonumWebhooks`: rows of invoices are stored, handlers run on, other
owners of the wallet lock let go, and Bonum delivers again until it is answered
200 (PAYMENT.md, section 6.4); this is strong fairness because only the model
bounds the number of handlers. `WebSession`: `fetch` answers or rejects, which
is weak fairness of each request and of the refresh; a reload is never
required. `QrScanner`: React commits what it has been told to render, frames
come, a detection that was started ends, permission is answered.

**Mutants.** Next to a guard or helper stands a mutated form (`NoBankKey`,
`ReleasedWithoutToken`, `OnlyTheFirstWaiter`, ...): the plausible bug that a
property is there to catch. `PROJECT.json` says which mutant breaks which
property.

## 4. Theorems

Every safety invariant and action property that a passing run checks, and the
refinement, is also proved, for all values of the constants. What the runs add
to that is that the states in question are reached (and that each mutant
breaks its property).

**The core.**

| Theorem | States | Hypothesis | Inductive invariant |
|---|---|---|---|
| `RentalsProofs!TypeCorrect` | `[]TypeOK` | | `TypeInv`: types, what a handler knows at each point (`CallsFit`), what a row holds in each status (`RowsFit`) |
| `RentalsProofs!SlotExclusion` | `[]OneCommandPerSlot` | | `SlotInv`: from taking the slot lock to the finally block a request holds it |
| `RentalsProofs!CustodyHolds` | `[]Custody` | | `CustodyInv`: a return keeps working on the row it read, a bank's status says how far its only rental has come, a stored bank is in one slot and not out |
| `RentalsProofs!DepositsFunded` | `[]DepositsAreFunded` | | itself, on top of the types |
| `RentalsFieldProofs!WalletLockHeld` | `[]WalletLockIsHeld` | `Outlasts(WalletLockTtl)` | `WalletLockInv`: from taking the wallet lock to letting it go a request holds it |
| `RentalsFieldProofs!StartsExcluded` | `[]StartsExclude` | `Outlasts(RentalLockTtl)` or `Outlasts(WalletLockTtl)` | `StartLockInv`, or the one above |
| `RentalsFieldProofs!DispensedRecorded` | `[]DispensedIsRecorded` | `NothingFails`, `Outlasts(RentalLockTtl)` | `FieldInv`: no orphaned command, slots and rows agree but for the request at work on them (`SlotsAgree`), a start that saw no rental is the user's only one (`StartsAreFirst`) |
| `RentalsFieldProofs!BanksAreKept` | `NoBankIsLost` (of steps) | the same | the same |
| `RentalsContractProofs!DepositsFrozen` | `[]DepositsAreFrozen` | `SettleHypothesis` | `DepositInv`: a return that is about to settle finds its rental active (`SettlesOnce`); the count of starts and rentals moves by one with the wallet |
| `RentalsContractProofs!KeepsTheContract` | `Spec => RentalContract!Spec` under the mapping of `Rentals` | `SettleHypothesis` | `ContractInv`: custody and `DepositInv`; one lemma per abstract step, and one for the steps that stutter |
| `WalletProofs!LedgerIsChain` | `[]LedgerChains` | | `WalletInv`: a transaction in progress holds the row and extends the chain it read |
| `WalletProofs!FrozenIsCovered` | `[]FrozenWithinBalance` | | the same |
| `WalletProofs!BalanceIsTheSum` | `[]BalanceIsSignedLedgerSum` | | the chain: the first prefix whose sum is not its after-image would follow one whose sum is |
| `BonumProofs!SingleCredit` | `[]CreditedAtMostOnce` | no lock lapses inside a transaction | `LockInv`: a handler in its transaction holds the wallet lock and what it is about to credit nobody has credited |
| `BonumProofs!KeyedCredit` | `[]KeyCreditsOnce` | | `KeyInv`: the handler past the insert works alone on an unprocessed event, and a credited invoice has a processed one |
| `BonumProofs!CreditInvariant` | `[]CreditInv` | | `LockInv` and `KeyInv` |
| `BonumProofs!LedgerAgreement` | `[]LedgerAgrees` | `TxnNamesInvoice` | `LedgerInv`: `KeyInv` and what each point of the handler has written |
| `CabinetProofs!AcksAreTruthful` | `[]OkMeansExecuted` | | `CommandInv`: an ok on its way, or a promise it resolved, stands for an executed command |
| `CabinetProofs!NoEndlessWait` | `[]WaitsAreBounded` | | the same |
| `RentalCost!ChargeIsCapped` | every charge lies in `0..dailyMax`, and below the cap covers its time | | arithmetic, with one lemma on the ceiling and one on products |
| `RentalCost!ChargeIsMonotone` | a longer rental costs at most one unit less | | the same |

They hold for every number of requests, users, slots, banks, handlers and
commands, for all amounts, and, where no hypothesis says otherwise, without
bounds on faults. The assumptions are the named ones of the modules. One
carries weight: `AckTimeout < CabinetSlotLockTtl`. The acknowledgement timeout
is read from the environment (`MQTT_ACK_TIMEOUT_MS`, 60 000 by default) and the
slot lock is the constant 65 000 ms; with a longer timeout `SlotExclusion` would
fail. `CustodyHolds` does not use it: custody rests on the two unique keys of
the schema (`rentals_user_id_active_key`, `slots.power_bank_id`) and on the
second look of `start()` at its slot. Notably the H-8 check of `return()`, that
the bank is still rented, does not exclude a double return by itself, because
it does not lock the bank's row; the unique key on the slot does.

The hypotheses are what the code does not guarantee, and each is needed.

* `Outlasts(ttl)` is `AckTimeout <= ttl`. The defaults do not have it (60 s
  against 10 s and 5 s): `MCRentalsTwoStarts` shows `StartsExclude` violated
  under them, and the run with short timeouts is the configuration in which
  the comments on the locks are true.
* `NothingFails`: no silence, crash or failing transaction. After a silence the
  cabinet may still carry the command out, and a crash or a failed
  transaction after the acknowledgement leaves the tables behind the field.
* `SettleHypothesis`: `Outlasts(WalletLockTtl)`, or nothing abandoned (no
  silence and no crash, so no command outlives its request). Without it a
  rental can be settled twice, and `DepositsAreFrozen` and `ImplementsContract`
  fail with it; the attempt to prove them brought this out. `MCRentalsTwice`
  shows it under the default timeouts with one silence: a release command that
  timed out stays behind; two returns of one rental both pass `CheckBank` after
  the wallet lock has lapsed; one of them settles; the command left behind
  empties that slot, and another user's return is stored over its row, so that
  the unique key no longer stops the second return, which settles and charges
  again and gives a second deposit back. `return()` reads the rental before it
  waits and `completeRental()` updates it without looking at its status
  (`rentals.repository.ts:212`), so that only the H-8 check and the unique key
  on the slot stand between, and the check locks nothing. Both properties are
  therefore checked in `MCRentalsShortAck`, where the hypothesis holds, and the
  double settlement is a finding.
* "No lock lapses inside a transaction" is part of `CreditedAtMostOnce`;
  `KeyCreditsOnce` does without it. `TxnNamesInvoice`, that two webhooks with
  one transaction id are of one invoice, is Bonum's business: with a shared id
  the second invoice's event is taken for a duplicate and nothing is credited.

**The parts** (`PartsProofs`). For each component: its initial states and its
steps keep its inductive invariant (stated as named parts at the end of its
module), a step of `MCParts` is a step of it or leaves it alone, and the
invariant implies the property.

| Theorem | States | Inductive invariant, beyond types |
|---|---|---|
| `SessionsAreLive`, `LogoutsAreFinal` | `SessionIsLive`, `LogoutIsFinal` | what the page holds was issued, a refresh carries the page's own token |
| `GuessesAreBounded` | `GuessBudget` | `GuessesFit`: what was compared one at a time is in the stored count, or about to be written by every handler that is counting |
| `TierTwoIsVerified`, `IdentitiesStay` | `VerifiedHasIdentity`, `IdentitiesAreStable` (of steps) | what a handler has found out is still so when it writes (`FindingsStand`), because nothing of it is ever taken back |
| `ConsentSignsInOnce` | `OneSessionPerConsent` | what is on its way comes from a consent that is spent |
| `RetriesAreFresh` | `RetriesWithNewToken` | a token on its way to a call was issued after the call's 401, whoever asked for it |
| `OnlineMeansAlive` | `NoFalseOnline` | every time stored or on its way was spoken at (`TimesAreHeard`) |
| `SettledSlotsAreReported` | `SettledSlotIsReported` | the report is stored, in the hands of the one handler, or the last readable message queued (`ReportIsKept`) |
| `OffersHold` | `OffersAreHonoured` | an unchanged offer still stands, and so does what was counted for it |
| `PreviewsMatch` | `PreviewIsForTheCodeShown` | none: it is inductive with the types |
| `CameraGoesOff` | `CameraIsReleased` | a live stream is the scanner's own |
| `ReceiptsNameTheReturn` | `ReceiptNamesTheReturn` | the callback of an unmeddled press sees what it sent |
| `PagesAreOfTheirCustomer` | `PagesNameTheirCustomer` | answers are kept under the key they were asked with |
| `EditsReachTheirStation`, `CreatedStationsAreWhole` | `SavesTheStationShown`, `CreatedIsWhole` | the form is of the route, or empty while the screen is leaving; the list is not ahead of the rows |
| `ListsAreBrowsedWhole` | `BrowsingMissesNothing` | a row not seen yet, of a time of its own, is behind the current page or on it, and the total answered promises its page |
| `FiguresDriftLittle` | `FiguresDriftByWrites` | each figure gathered is off by at most the writes since it was read |
| `PartsKeepTheirTypes` | `TypeOK` of all parts | all of the above |

They hold for any number of requests, rows, pages, messages and users. Bounds
that remain in a statement are part of the property or stand in
`PartsAssumption`: `None` and the page names are no ids, counters are natural
numbers, the slots and stations of an instance are finite sets. All the Google accounts of the run share one mail
address; `PartsProofs` leaves `Mail` open.

**How the proofs go.** One lemma or step per action; `Handle` is split on the
disjuncts of the handler, and a conjunct an action does not touch is framed
away first. Records that are updated are picked out (`PICK r \in RowType`) and
their fields restated, because the solver does not follow nested `EXCEPT`.
Sums over a sequence have no induction here; the proof takes the least prefix
that would be wrong. Counts go through lemmas on `Cardinality` from
`FiniteSetTheorems`. `PTL` closes the temporal step.

**Only model-checked.** Liveness: `EveryRequestIsAnswered`, `CommandsEnd`,
`CallsSettle`, since fairness and `ENABLED` are beyond the prover. The
properties of the seven runs that end in a violation are false.
**Only proved**, and so in no run: `WaitsAreBounded`, `CreditInv`, the charge,
and the inductive invariants, which were model-checked on the instances of the
runs before they were proved.

## 5. What is not modelled

* The throttler. `ThrottlerModule` is configured (`app.module.ts:42`) but no
  guard is registered, so `@Throttle` has no effect and `increment` is never
  called, although BACKEND.md:283 and INIT.md:100 name the limits. A model
  would describe code that does not run.
* Several stations and cabinets under one rental: rows of different cabinets
  share no lock and no key but the unique ones, which the slots of one cabinet
  already share.
* The components of `MCParts` together: they meet in the database, where each
  module has the writes of the others as actions (`RowsChange`, `OtherAdmin`,
  `ChangeStatus`, ...).
* Detail pages, history, profile, the wallet page, the admin's sign-in: one
  query shown, or the code of a page that is modelled.
* Guards, filters, interceptors, PII, SMS, health, configuration, formatting,
  layout.

Read in the code on the way, and outside the properties: a logout with an
expired access token sends the old refresh token again after the refresh has
rotated it, so the new one stays valid (`http.ts:127`, `auth-provider.tsx:59`);
a late writer of a wrong guess re-creates a deleted code without a TTL
(`auth.service.ts:152`); `dan_verifications.birthdate` is `VarChar(10)` and gets
a ciphertext (`schema.prisma:155`); the editor cannot take a device off a
station (`COALESCE`, `stations.repository.ts:305`), and a creation that is
repeated after a lost answer meets the device's unique key; automatic selection
takes the first idle bank whatever its slot's status
(`rentals.repository.ts:108`); wallet and profile pages show the former
customer's data in the same tab until they are read again, since the query
cache is not cleared at logout (`wallet/page.tsx:17`).

## 6. Plan

Done, in this order, the most important behaviour first: `WalletOps`,
`Wallet`, `Rentals` with `RentalContract`, their invariants and proofs,
`BonumWebhooks`, `CabinetCommands`; then the session and sign-in (`WebSession`,
`Otp`, `Accounts`, `OAuthCodes`, `SignIn`), what cabinets report (`Heartbeats`,
`SlotReports`), offers and pages (`Offers`, `ScanPage`, `QrScanner`,
`ReturnPage`), administration (`StationEditor`, `AdminLists`, `Overview`),
`BonumTokens`, and `RentalCost` with its proofs.

The theorems came in the order of section 4: `Rentals` up to custody, the
credits, `CabinetCommands`; then the ledger of `Wallet`, the short-timeout
properties, `DepositsAreFrozen` and the refinement, `LedgerAgrees`, and the
parts.

What is left: an abstract specification of a paid top-up that `BonumWebhooks`
implements, as `RentalContract` is for renting; and the invariants under which
the liveness properties would follow from their fairness, should a prover for
`ENABLED` become available.
