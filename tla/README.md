# Chirola in TLA+

Chirola issues Argentine electronic invoices: a NestJS API (`services/api`) talks to ARCA, the tax
authority, on behalf of the users of a mobile app (`apps/mobile`) and of service clients. An
authorised invoice carries a CAE, the authorisation number ARCA gives; numbers run without gaps per
taxpayer, sales point and type. What can go badly wrong is therefore not a wrong screen but a CAE
spent twice, a CAE nobody recorded, an invoice that waits for ever, or an invoice issued with
somebody else's credentials. Around that core are the amounts and books a tax payer answers for,
the parts that notify, cache and guard, and the screen an invoice is issued from. This directory
models all of them, checks the models with TLC and proves with TLAPS, for every value of the
constants, every safety invariant the runs check, of the core, of the books and of the parts around
them; section 6 names the conditions of each.

Contents: [inventory](#1-inventory), [modules](#2-modules-and-the-code-they-stand-for),
[runs](#3-runs-what-each-one-asks), [disagreements found](#4-where-the-code-and-its-docs-disagree),
[fairness](#5-fairness), [proofs](#6-proofs), [what is left out](#7-what-is-not-modelled),
[plan](#8-plan), [how to run](#9-how-to-run-it).

## 1. Inventory

Paths are under `services/api/src` unless they start with `apps/` or `packages/`.

| Component | State it keeps | Operations | Hard behaviour | Correct when |
|---|---|---|---|---|
| Voucher emission (`vouchers/voucher-emission`, `cae-request`, `issued-voucher-recorder`) | `Voucher`, `IdempotencyRecord` rows | `issueAuthorized`: replay the key, take the lock, replay again, read the last number, ask for the CAE, record | lost requests and replies, the duplicate rejection 10016, failures between the writes, the same key posted concurrently | a number is never spent twice, every CAE is recorded or known to somebody, one CAE per key |
| Retry queue (`pending-voucher-queue`, `pending-voucher-retry`, `voucher-retry.scheduler`, `pending-vouchers.service`) | `PendingVoucher` rows | `enqueue`, `findDue`, the cycle, `bump`, `fail`, `complete`, the user's `retry` and `discard` | snapshots read before the lock, users acting during a cycle, one row's exception ending the cycle, crashes | a queued invoice leaves as a voucher or through its user, and is settled in the end |
| Issuer lock (`issuer-lock.service`) | a map of promises | `runExclusive` | chains of awaits, tasks that throw, deleting the map entry | exclusive, first come first served, forgets idle issuers |
| WSFE gateway (`arca/wsfe`, `arca-soap.util`) | none | `getLastAuthorized`, `requestCae`, `queryVoucher` | errors read as absence, replies lost after ARCA acted | its outcomes are those the emission handles |
| Issuer set-up (`certs`, `issuers`, `issuer-arca`) | `Certificate`, `Issuer.onboardingStatus`, `representativeCuit` | `generateCsr`, `matchCertificate`, `saveCertificate`, `updateRepresentative`, `track`, `diagnose` | every handler reads, awaits and writes without a lock | key, certificate and declared holder fit; the status never outruns the evidence |
| ARCA access tickets (`arca/wsaa`, `issuer-auth.service`) | `AccessTicketCache` | `buildAuth`, `getAccessTicket`, `backfillHolderCuit` | concurrent logins, the holder column filled late | a call reaches ARCA with its issuer's holder's ticket |
| Sessions (`auth`, `apps/mobile/src/lib/api.ts`, `auth-context.tsx`) | `RefreshToken` rows; the app's memory, secure store and screen | sign-in, refresh, logout, a call and its 401, `setSession`, `clearSession`, `loadSession` | several calls answered 401 at once, answers after a logout, the app killed between two writes | a token ends in one way; memory, store and screen agree |
| Fiscal documents (`packages/shared`, `arca/wsfe/iva-calculator`, `fiscal`, `vouchers/credit-note-draft`, `voucher-pdf-sections`) | `Voucher` rows | schema, amounts, request, row, credit note draft, sales book and CSV, IVA position, page | cents, rates, exchange rates, signs of credit notes, rows older than the columns they are read from | parts add up to totals, a credit note can be issued and undoes its invoice, the reports agree |
| Export emission (`vouchers/export-vouchers`, `arca/wsfex`) | `Voucher`, `SalesPoint` rows | `issue` | lost replies, no key, queue or recovery; two counters; two issuer rows of one CUIT | rows are what WSFEX authorised, losses were answered as errors |
| Reconciliation (`vouchers/reconciliation`) | none | `checkNumbering` | reads the two sides at different times | reports what is missing above the last row |
| Purchase book (`purchase-invoices`) | `PurchaseInvoice` rows | `create`, `update`, `remove`, `list`, `preview`, `import` | duplicates decided before the writes, no transaction, no unique key | totals add up, an import is not repeated |
| Webhooks and push (`webhooks`, `notifications`, `apps/mobile/src/lib/push-notifications.ts`) | endpoints, push tokens | `dispatch`, register and remove a token | retries in memory, answers lost across a logout | each endpoint gets its attempts, pushes follow the session |
| Certificate monitor (`certs/cert-monitor`) | none | the daily walk | a clock read anew after every webhook | each announced day is told once |
| Fiscal calendar and alerts (`fiscal/vencimiento-calendar`, `fiscal-alerts`) | none | due dates, alerts | month and year ends, periods cut at both ends | no due date lost or listed twice |
| Caches (`issuers/arca-param-cache`, `arca-health`, `taxpayers`) | cache rows, one map | find, call, store | stale fallback, errors inside good replies | nothing older than promised, nothing mixed |
| Rate limiting (`common/fixed-window-limiter`) | a map of windows | `consume`, pruning | the bound on tracked keys, restarts | never more than the limit in a window |
| API clients and issuers (`service-auth`, `issuers`) | API clients, grants, issuers, audit rows | the guards, creation of issuers, the audit | checks and writes are separate queries | a caller reaches its own issuers, and the audit tells |
| Clients, sales points, shadow comparisons, call log | rows | CRUD, synchronisation with ARCA, comparison, paging and purge | requests overlap at their queries | unique documents, no point lost, summaries that count |
| The app's issue screen (`apps/mobile/src/components/voucher-form`) | the form, sheets, lookups under way | typing, lookups, review, emission, retry | answers that arrive late, replies that are lost, the user's retry | what is sent is what was reviewed, one invoice per form |
| The app's other screens, key rotation | - | - | - | see section 7 |

Who talks to whom. A request (or the scheduler, every few seconds) enters the *emission*; the
emission runs under the *issuer lock*, gets a ticket through *access tickets*, which reads what
*issuer set-up* wrote, calls *WSFE*, tells the *onboarding* what ARCA answered, and writes its rows
or a *queue* row. The app reaches all of it through its *session*. Everything is one Node process
and one PostgreSQL database: code between two awaits is atomic, and every await (a query, a call to
ARCA, a write to the phone's secure store) is a point where everything else may move. The models
follow that rule: one action per stretch between awaits.

The hazards this leads to are listed one by one, at their lines, in `PROJECT.json`.

## 2. Modules and the code they stand for

| Module | What it is |
|---|---|
| `VoucherEmission` | the emission, the queue, the scheduler and the user's actions on queued invoices |
| `VoucherEmissionProperties` | what it must satisfy, and the inductive strengthenings |
| `MCVoucherEmission` | its instances for TLC |
| `VoucherEmission_proofs` | theorems about it |
| `CaeOnce_proofs` | no CAE lost, no document with two: when, and why |
| `Issuing` | the abstract specification of issuing an invoice; the proof that `VoucherEmission` implements it is in `VoucherEmission_proofs` |
| `ExclusiveSection` | the abstract specification of the lock: of the tasks that share a key, one at a time runs |
| `IssuerLock` | `runExclusive` as a chain of promises, with the refinement mapping |
| `MCIssuerLock`, `IssuerLock_proofs` | instance and theorems |
| `IssuerAccess`, `IssuerAccessProperties` | set-up of an issuer, tickets and onboarding status |
| `MCIssuerAccess`, `IssuerAccess_proofs` | instance and theorems |
| `Sessions`, `SessionsProperties` | refresh tokens at the API and the app's session |
| `MCSessions`, `Sessions_proofs` | instance and theorems |
| `VoucherTypes`, `VoucherSchema` | the shared tables of voucher types, and the checks of `issueVoucherSchema` |
| `Amounts` | the amounts sent to ARCA and the tax breakdown of the books, as operators on exact fractions |
| `FiscalDocuments`, `FiscalProperties`, `MCFiscal` | request, row, credit note, books, position and page over a few months of sales |
| `FiscalDocuments_proofs` | theorems about amounts, notes, books and pages |
| `ExportVouchers`, `Reconciliation`, `PurchaseBook`, `PushTokens`, `Webhooks`, `ExpiryWatch`, `FiscalCalendar`, `ArcaCaches`, `RateLimits`, `ServiceAccess`, `Catalog` | the parts around the core, one module each, with its properties |
| `VoucherForm` | the app's issue screen |
| `MCParts` | these twelve as one specification: a behaviour picks a part and runs it |
| `Records_proofs` | theorems about exports, reconciliation and purchases, and the lemmas about naturals and sums that all parts use |
| `Services_proofs` | theorems about the other parts and the form, and about the twelve together |

Specifications keep the names of the source wherever TLA+ allows it. An operator `Mutant_x` is not
part of the model: it is a plausible slip in `x`, written beside it, and shows that a property
notices the slip.

### VoucherEmission

Processes are the HTTP requests and the one scheduler. `pc` is the await a process is at, `number`
the number it computed or tried (0 is the code's null), `holder` who is inside `runExclusive`;
`vouchers`, `idem` and `row` are the tables `Voucher`, `IdempotencyRecord` and `PendingVoucher`;
`arca` is ARCA's own register, in number order, so an authorisation's position is its number.

| Actions | Code |
|---|---|
| `Post`, `Acquire`, `ReplayInside` | `issueAuthorized`: replay, lock, replay again |
| `RecoverAlreadyAuthorized` | `cae-request`: `FECompConsultar` of the attempted number and `matchesPendingVoucher` |
| `GetLastAuthorized`, `CaeGranted`, `CaeReplyLost`, `CaeRequestLost`, `CaeRequestLate`, `CaeRejected`, `DuplicateNumber`, `QueryDuplicate` | `requestCaeAttempt` and every way it can end, the second attempt after a 10016 included |
| `ConfirmOnboarding`, `DiagnosisFails` | the onboarding calls that may fail around it |
| `CreateVoucher`, `CreateIdempotencyRecord` | `IssuedVoucherRecorder.record`, one action per insert |
| `Enqueue`, `Bump`, `FailRow`, `Complete` | the queue's writes |
| `Tick`, `NextRow`, `BackoffElapsed` | the scheduler, its snapshot, the wait until a row is due |
| `UserRetry`, `UserDiscard` | `pending-vouchers.service`, each one conditional update |
| `Crash`, `LateArrival` | the process dies with all its memory; ARCA processes a request the API gave up on |

A document is the invoice its author wants once, so an Idempotency-Key *is* the document and
several requests may carry it. Amounts and recipients are reduced to `LooksOf`, the pair that
`matchesPendingVoucher` compares: two documents may look alike. Faults are injected by kind
(`Faults`) and counted (`MaxFaults`): network before and after ARCA acted, late processing, a
rejection, the date rejection, an error answer of `FECompConsultar` that the code reads as absence,
a failed write at each table, a crash.

Abstractions: ARCA's processing and the arrival of its reply are one step unless the reply is lost;
failed reads are left out, failed writes are not; there is one numbering series per CUIT;
`nextRetryAt` is reduced to whether the row is due (a FAILED row's `due` means nothing); the
scheduler reads its row where the code uses its snapshot, which `SnapshotStaysPending` shows to be
the same; the branch of `processPending` for an issuer that no longer exists cannot be reached,
since nothing deletes issuers. The order in which the lock admits waiters is left open here, and
settled in `IssuerLock`.

`Issuing` is what all this amounts to for the author of an invoice: a document is unissued, queued,
failed or issued, and a request is answered once. It knows no ARCA, lock, number or scheduler. Under
the mapping `Fate` of `VoucherEmissionProperties` a document with a `Voucher` row is issued, whatever
row of the queue outlived it, and otherwise its `PendingVoucher` row decides.

### IssuerLock

`tails` is the map, `previous[t]` the promise a task found in it and awaits; a task is outside,
waiting, inside or has left, and `settled` holds the tails that have settled. `ticket` and
`arrivals` are history. `Register`, `Start`, `Finish` and `Settle` are the stretches of `runExclusive`
between its awaits; `Finish` is the `finally`, with the release and the deletion of the map entry.
`ExclusiveSection` states what callers rely on, and the `INSTANCE` in `IssuerLock` maps the chain
onto it.

### IssuerAccess

A call is any HTTP request that touches an issuer's set-up: it is at a label (the await it waits
at) with what it has read so far. `declared`, `status`, `cert` and `ticket` are the rows. None of
these handlers takes a lock, so any two calls interleave at every await, and `Abort` ends one
anywhere (a failed write, an error, a crash).

Abstractions: keys are numbers, 0 for a key the user brought with `saveCertificate` (which the code
does not compare with its certificate, so `PairMatches` speaks of generated keys); a certificate is
the key it certifies and its holder, and always names one; a ticket is reduced to the holder whose
certificate obtained it; a ticket inside the expiry margin counts as expired; one environment and
one ARCA service stand for all; which kind of call reaches ARCA is decided when ARCA answers, which
is the first place the code looks at it. A row from before the `holderCuit` column carries its
issuer's own certificate. `furthest`, `overlapped` and `misfiled` are history variables.

### Sessions

Pairs (a JWT and a refresh token) are numbered in the order the API creates them. `row` is the
`RefreshToken` table, `handler[c]` the query the API is at for call `c`, `task[c]` the await the app
is at; `mem`, `store` and `user` are the three places the app keeps its session. `setSession` and
`clearSession` change memory at once and the store key by key, so each write is an action and
everything else may happen in between. A call's answer may be lost while its handler goes on; a
request may never arrive; `HandlerFails` is a 429, a 500 or a crash; `Restart` kills the app and
runs `loadSession`.

Abstractions: one user and one installation; a JWT expires in the order of issue and before the
refresh token of its pair (an hour against thirty days); `loadSession`'s three reads are one step,
since no screen is up that could call the API; the last deletion and the `setUser` after it are one
step; a 401 is decided when its answer arrives, which is sound because an expired JWT stays
expired; one sign-in at a time, as the login screen allows. `parent`, `left`, `contested` and
`crossed` are history variables. `MaxPairs` makes the create fail once it is reached, which the
code's `create` may do anyway.

### Fiscal documents

`Amounts` has no state: `calculateAmounts` and `breakDownVoucherTaxes` on whole cents, thousandths
of a unit and tenths of a percent, rounded half up where the code calls `Math.round` and exact
elsewhere. `FiscalDocuments` posts drafts through the schema, lets ARCA authorise, observe or reject
them, stores rows, drafts and posts credit notes, registers the payment account and purchases, and lets months pass; the sales
book, its CSV, the IVA position and the page are operators over the rows, evaluated in every state.

Abstractions: floating-point error is left out (the code's own rounding is not); one issuer and one
sales point; an item takes one line of the page; the number, letter and dates are kept, the texts
are not. `Legacy` holds one row from before the recipient columns existed, whose recipient only its
QR knows.

### The parts around the core

These parts share no state with each other, and with the core only rows and calls that the core
does not read back, so `MCParts` lets a behaviour choose one of them: the states of the parts add up
instead of multiplying. `CHECK_DEADLOCK FALSE`, because each part stops when its bounded inputs are used
up. Every database call, call to ARCA or answer is a step, and requests interleave at them.

| Module | Steps, and what is abstracted |
|---|---|
| `ExportVouchers` | `issue` from the lock to the row; WSFEX numbers, has ids and gives an equal request its CAE again; reads in either order, replies lost, writes that fail |
| `Reconciliation` | `checkNumbering` group by group while vouchers are authorised and stored |
| `PurchaseBook` | the six handlers; a CSV is a list of rows whose cells are readable, empty or misread; supplier names, dates and delimiters are left out |
| `PushTokens` | one phone: sign-in, registration, logout, restarts, answers lost or late; the row of its token |
| `Webhooks` | one dispatch of an event: grants and endpoints read, deliveries with their own retries, restarts |
| `ExpiryWatch` | the walk of each morning, whose clock advances while it waits; renewals in between |
| `FiscalCalendar` | the due dates and alerts of every day from `FirstDay` to `LastDay` (26 November 2024 to 1 March 2025 in the run), and any period from `DaysBack` to `DaysAhead` of it |
| `ArcaCaches` | find, call, store and fall back, for the three caches and the quote; an ARCA answer is its version |
| `RateLimits` | `consume` with pruning when full, and the restart that empties the map |
| `ServiceAccess` | guards in order, ownership and grants, creation of issuers, audit |
| `Catalog` | clients, sales points, shadow comparisons and the call log |
| `VoucherForm` | the fields and what they hide, sheets, quotes, the registry, the enabled types, review, plan, emission and what the screen does with each answer |

In `VoucherForm` a plan is dropped with its sheet, since only the review that opens the sheet again
shows one, its own; leaving unmounts the screen and forgets it; descriptions are typed without
counting as edits, as an item without one cannot be sent. `strayed`, `told`, `reached`, `arrivals`,
`history` and the `by` and `during` of requests are history variables.

## 3. Runs: what each one asks

State counts are distinct states.

| Run | Question | Bounds |
|---|---|---|
| `emission` | Is a number ever spent twice, a CAE orphaned, a key charged twice, a voucher given another's CAE? Does everything get settled? | a key posted twice and one plain invoice, a network that loses requests and replies, 3 faults, 3 retries (21 377 states) |
| `emission_faults` | Do the lock, the snapshot, the counters and the recorded rows stay consistent when anything fails anywhere, and is what the authors see `Issuing`? | all twelve fault kinds, two issuers that share a CUIT, 3 faults, 2 retries, batches of one; the two posts of the key are symmetric (1 487 820 states) |
| `issuer_lock` | Is the chain of promises an exclusive, fair, leak-free section, and does it implement `ExclusiveSection`? | three callers of one issuer and two of another (15 249 states) |
| `issuer_access` | Which of the set-up's consistency rules survive calls that overlap, and which need a named exception? | one issuer, its own CUIT and a representative, two calls repeated without end, two generated keys (2 675 579 states) |
| `sessions` | Does a refresh token end in one way, and does the app settle on one story? | two calls repeated without end, three pairs, at most two JWTs expired, only the first token contested (1 637 441 states) |
| `fiscal` | Do the amounts tie, can each voucher be cancelled and does its note cancel it, do book, CSV and position agree, is the page whole? | one old row, a sale of any of 98 valid drafts (and every invalid one refused), notes up to three vouchers, a payment account, one purchase, two months (74 362 states) |
| `parts` | Are exports stored as authorised, missing vouchers reported, purchases and totals kept, the right people told, callers served what is theirs, and is what is issued what the user saw? | below (1 146 887 states) |
| `retry_reply_lost`, `key_after_failure`, `lookalike_starves`, `cents_do_not_tie`, `failed_screen_lies` | one documented promise each, refuted; section 4 | the smallest instance that shows it |

What the properties say, and where each could fail:

* `ChosenNumberIsNext`: when a process is about to ask for a CAE, the number it read several awaits
  ago is still ARCA's next one. Without the lock two requests break it in four steps.
* `RecordedAsAuthorized`: a voucher row matches what ARCA holds under its number; adoption after a
  lost reply never staples one invoice's CAE on another that looks different.
* `NoCaeOrphaned`: every authorisation is recorded, or a process or a queue row still knows its
  number, or its user discarded the row that did.
* `OneCaePerKey`, `IssuedIsRecorded`: a key costs one CAE; who was told "issued" has a row.
* `QueuedNeverDropped`, `SnapshotStaysPending`: the scheduler's stale snapshot never lets it write
  over a user's decision, and a row leaves the queue only as a voucher or through its user.
* `ImplementsIssuing`: seen by its author, an issued document stays issued, a queued one becomes
  issued or failed and nothing else, only a failed one is discarded, and a request is answered once
  with what was true of its document at that moment. An error promises nothing: a document may well
  have been issued to a request that was told 500.
* `RequestsAnswered`, `QueueSettles`: liveness of the whole path, the lock included.
* `EmissionInv`: the lock is held exactly where the code thinks it is, and `bump` never counts past
  the policy.
* `PromiseChainIsQueue`, `MutualExclusion`, `ArrivalOrder`, `EveryoneServed`,
  `ImplementsExclusiveSection`: the lock, from its representation to its contract; that its map
  forgets idle issuers (`MapForgets`) is part of the first.
* `StatusHasEvidence`: the onboarding status never claims more than ARCA accepted, under any
  overlap. `ForgetsOnlyByOverlap`: it may claim less only after an overlap.
* `TicketsBelongToTheirHolder`: ARCA is reached with the declared holder's ticket unless a backfill
  met another holder's certificate. `LoadedMatchesDeclared`, `PairMatches`, `ReadsStayTrue`: what a
  handler checked still holds when it writes, unless two calls on that issuer overlapped.
* `EndsOneWay`: a refresh token is exchanged for one pair, or logged out and exchanged for none,
  unless two handlers had found it good before either revoked it.
* `SignedOutForAReason`: a refusal of the token the app still holds means that session is over.
* `SettledDevice`: once every call has ended, memory, store and screen hold one pair and its user,
  or nothing, unless two writers of the session overlapped or one was killed.

* `RequestTies`: ARCA's identity between the total and its parts is exact for whole units and off
  by at most half a cent per rounded group, the total included, otherwise (`Tolerable`). `NoteDraftIsAccepted`: the drafted credit
  note of any stored row passes the API's own schema. `NoteCancels`, `BooksAgree`: a note that repeats
  its voucher's items, at its rate and without tributes, leaves nothing in the book but the tributes
  of the voucher; the position, the book and the CSV compute one IVA in three places, and an entry
  adds up to its total within `Allowance`, the roundings that its rates, its currency and fractions
  of a unit make. `PageIsWhole`: the printed lines add up and end above the CAE, for pages of at most
  `ItemsPerPage` items and `ExtrasPerPage` tributes and associated vouchers.
* `ExportsHold`: a row is what WSFEX authorised, one CAE is stored twice only by two rows of one
  CUIT that raced, an export without a row was answered with an error, and a rejection for the number needs
  such a race. `MissingIsReported`: a report accounts for every voucher above the last row, although
  numbers move while it asks.
* `PurchasesHold`: totals add up under overlapping updates; an import keeps the file's totals,
  repeats no invoice (without a file that repeats it or a request at the same time) and stores what it says.
* `NoticesHold`: push tokens follow the session, an endpoint gets all its attempts, the countdown of
  a certificate is even, no due date is lost at a month's end. Each part of it is stated in its
  module, with the exceptions the code has. `ServicesHold` is the same for caches, rate limits, access and tables.
* `FormHolds`: one form leaves at most one voucher at the API unless an answer was lost; what is
  sent is what was reviewed, but for answers that arrived under the open sheet, which never change
  goods, document, currency or dates; the rate is that of the currency unless a quote failed or crossed a change.

Where the code does not hold a promise always, the project states it in two forms: the unconditional
one, which a run refutes, and the one that names the only way to break it, which a run checks and a
theorem proves.

**Why the bounds are enough to be interesting.** `emission` has one retry policy of three attempts,
so a reply lost on the first attempt, recovery on the second and another failure in between all
happen; its faults are too few for a row to reach FAILED there, which `emission_faults` (two
retries) and `key_after_failure` cover. `emission_faults` runs late requests, the 10016 path,
crashes and every failed write with two issuers sharing ARCA's numbering, which the lock (one per
issuer) does not serialise. Two calls at a time are enough for every two-party race of
`IssuerAccess` and `Sessions`, and the calls start again without end, so long sequences are
covered; three pairs let a token be exchanged, its successor exchanged, and a third pair signed in.
`MaxNumber` makes ARCA stop answering once it has authorised that many; `MaxKeys` bounds generated
keys; the proofs do not depend on the values of these bounds.

`FewSpent` is a state constraint of `sessions`: TLC does not go on from a state where a third JWT
has expired or a token other than the first was in use by two handlers at once. `fiscal`
has an old row, a sale and a note of either in the same month or the next, and a purchase: `MaxSales` 2
allows a sale while fewer than two vouchers are stored, `MaxVouchers` 3 a note while fewer than three. `parts` has: two exports of two issuer rows with one CUIT; a domestic
and an export group up to number 2; three purchase requests, three files and three rows; two users and three push calls;
two API clients with three endpoints and one event, three attempts; two certificates, days of four
ticks, three mornings; CUITs ending in 0 and 9; two lookups in two environments on days 0, 7 and 30;
two keys, two requests a window, a map of one; one owner, one client, two CUITs and issuers, two
requests; three tasks, two documents, two points, pages of one, windows and retention of two; a form
blank or drafted as a credit note in dollars, two edits, two emissions and no edit after the
second. Two of each is what a race needs; the third request, mornings and endpoints let something
overlap an overlap. MaxEdits and MaxEmissions of two let a currency be changed and changed back and an emission be
retried.

Deadlock is checked in every run but `parts`: the emission and the lock stutter explicitly once they are done
(`Quiescent`), and the other systems never stop. `SYMMETRY` is used over the calls of `IssuerAccess` and
`Sessions`, which only sets and functions over `Calls` mention, in runs without liveness properties.

## 4. Where the code and its docs disagree

Each is a run that TLC must find violated; `PROJECT.json` quotes the line.

* **`retry_reply_lost`** — a CAE granted to a *retry* whose reply is lost is orphaned: `bump` does
  not store the number just tried, so recovery queries the older one. The docs promise recovery.
* **`key_after_failure`** — a FAILED row is invisible to the replay: the key can be posted again and
  issued, and the user's retry of the row then spends a second CAE.
* **`lookalike_starves`** — `retryPendingVouchers` has no `try` around a row: one that always throws
  ends every cycle before the rows behind it.
* **`cents_do_not_tie`** — `calculateAmounts` rounds the total and each rate's gross apart: two
  fractional items at two rates give parts a cent short of the total. The docs ask for equality.
* **`failed_screen_lies`** — the failure screen says that nothing was issued, also after a reply
  that was lost and after a 500 that followed the CAE; it then offers a retry, and the app sends no idempotency key.

Seen while modelling and left as exceptions named in a property, since no document promises otherwise: an
emission that conflicts with its key's FAILED row is answered "queued"; the backfill of `holderCuit`
may label a newer certificate with the old holder; an upload that overlaps a confirmed invoice takes
the issuer's status back; one refresh token sent twice at once gives two pairs; a table of
parameters that came with an error is cached empty for its seven days; a quote answered after the
currency changed sets the wrong rate, for pesos too, and the registry's answer for one document
stays with another.

## 5. Fairness

Only `emission` and `issuer_lock` check liveness (`lookalike_starves` refutes it).

* `WF(RequestStep(r))`, `WF(SchedulerStep)`: Node runs every continuation whose promise settled, and
  every call of the code has a timeout that turns silence into a failure, so a process that can move
  does. The scheduler's interval ticks for ever.
* `WF(BackoffElapsed(d))`: time passes.
* `SF(Acquire(p))`: the lock becomes free again and again while a process waits; that the process
  gets it is not an assumption about Node but a consequence of the lock's first-come first-served
  order, which `IssuerLock` models and `FirstComeFirstServed` proves, so no waiter is passed by.
* `WF(Start(t))`, `WF(Finish(t))`, `WF(Settle(t))` in `IssuerLock`: a promise's continuation runs,
  and the task inside, whose every call has a timeout, ends.
* Faults, crashes and users are never fair: they may happen, never have to.

## 6. Proofs

All theorems hold for any number of requests, documents, issuers, CUITs, calls, holders, pairs, rows
and amounts, under the named assumptions on the constants (`ConstantsOK`, `AccessConstantsOK`,
`SessionConstantsOK`, the lock's, `DocumentConstants`, `PageConstants` and one per part, such as
`PurchaseConstants`), which TLC evaluates in the runs. Liveness stays with TLC: the
prover has no rules for `ENABLED`.

**VoucherEmission.** `EmissionInvariant` is inductive as stated: types, "whoever is past
`runExclusive` holds its issuer's lock", "the scheduler has a row in hand exactly while it waits for
or holds the lock", "PENDING rows have retries left" and "snapshot rows are PENDING" need each
other. `SnapshotIsCurrent` and `TypeCorrect` are parts of it. `IssuedHasItsVoucher` adds that
between the two inserts of `record`, and until the row is deleted, the process has its own
document's voucher behind it (`RecordInv`); `QueueKeepsItsRows` follows as an action property.
`NumberIsStillNext` and `VouchersMatchArca` rest on `SeriesInv` and on two assumptions stated in the
theorem: a numbering series has one issuer, and no abandoned request is processed late. Both are
needed: the lock is per issuer while numbers are per CUIT, and a late request takes a number
between the read and the request; the 10016 path then adopts the CAE under that number without
comparing invoices.

**CaeOnce.** `NoCaeIsLost` and `KeySpendsOneCae` state `NoCaeOrphaned` and `OneCaePerKey`, for keys
posted any number of times, under `Conditions`: a numbering series has one issuer and nothing fails
but the network, ARCA's answers to requests, and vouchers ARCA rejects (`Tolerated`); and along
behaviours where no key is looked up again once its row FAILED or was discarded
(`[]NotAfterFailure`). No condition is for the prover's convenience. A reply lost to the *scheduler*
orphans a CAE (`retry_reply_lost`), a key posted again after its row FAILED costs a second one
(`key_after_failure`), and a database failure between ARCA's answer and the row leaves nobody who
knows the number. The faults are unlimited in number and kind within `Tolerated`, and so are retries,
posts of a key that is queued, issued or in work, and what users do to failed rows.

The argument is `OnceInv`: who asks ARCA for a CAE works on a document ARCA knows nothing of
(`Ungranted`); who carries an authorisation carries the only one its document has (`OnlyGrant`),
with the place of its voucher still empty; a document that is in the queue has no voucher, except
between the scheduler's two inserts and its dequeue; a key's voucher has its idempotency record, or
is about to (`RecordedHasKey`). No two processes own the same document (`OwnDocuments`): a key is
owned from the lookup under the lock on (`Owns`), and the lock admits one. So each step has to
account for its own document only. Two cases are delicate. In the scheduler's `recover`, that the row's
attempted number is the only number ARCA can have used (`RowKnowsGrant`) makes it safe to ask anew
when ARCA does not know that number. In the lookup, a key that has neither record nor row was granted
nothing (`UnknownKey`): a grant would be recorded, hence have its record; queued, hence have its row;
or in the hands of a process inside the lock, which is this one. That is why `replayOrQueued` is
called a second time inside `runExclusive`.

**Issuing.** `IssuingRefinement` (in `VoucherEmission_proofs`) needs no assumption on faults, issuers or keys. It rests on
`EmissionInv` (the scheduler's row is PENDING when it is written), `RecordInv` (who says "issued" or
deletes a row has the voucher behind it) and `Unanswered`: a request that is not done was told
nothing. Each step is one of four kinds: silent, an answer true of its document, one row written, or
the voucher created. Only `Enqueue` is two at once, and in `Issuing` it is one step, too.

**IssuerLock.** `ChainIsQueue` is the heart: at any time the unsettled calls of an issuer are linked
by `previous` in arrival order and the map holds the last. From it follow `Exclusion`,
`FirstComeFirstServed`, `NoEntryLeaks`, and `LockRefinement`: every step of the chain is a step or a
stutter of `ExclusiveSection`.

**IssuerAccess.** `AccessInvariant` proves `IssuerAccessInv`: rows are consistent and each call
carries only what it had the right to read (a certificate whose key and holder it checked, evidence
of what ARCA accepted, the ticket of its holder). What a call carries has to be part of the
invariant because it is written many steps after it was read. The six properties and
`IssuingForgottenOnlyByOverlap` follow.

**Sessions.** `SessionsCorrect` proves types, that no token is used before it was issued, what each
handler and call holds at each step, and that a handler about to create a pair in exchange for a
token has already revoked it. `TokensEndOneWay` strengthens `EndsOneWay` to `TokensInv`: a token
anything came of is revoked, and an uncontested token is in the hands of one handler at a time, with
nothing come of it yet. `DeviceSettles` rests on `DeviceInv`: as long as writers have not
overlapped there is one at a time, how far it got determines memory and store (`Midway`), with no
writer all three places agree, and no refresh is under way while the session is being cleared.
`SignOutsHaveAReason` is an action property of the first invariant: a refused token was not live
when it was looked up, and a token that is not live never is again.

**FiscalDocuments.** `DocumentsHold` proves the inductive `DocumentsInv`: a row is what an accepted
invoice leaves (`RowsInv`; `RowFits` ties each part of it to its items), purchases are whole cents,
and what was sent is an accepted invoice. `DocumentConstants` asks that the drafts offered are typed
and that old rows fit too: rows from before the recipient columns satisfy it with the recipient in
their QR. Everything else is arithmetic about one row, for any number of items, quantities, prices
and rates:

* `RequestsTie`: every item is in one group of the request (`TaxedRates`, exempt, untaxed), sums are
  linear, and rounding is off by at most half and exact for what is whole. So each group and the
  total add half a cent at most, and nothing when all quantities are whole.
* `NoteDraftsAreAccepted`, `NotesCancelTheirVouchers`: the note is for the same letter and recipients
  and has the voucher's items, so the checks pass again and each column is the same function of the
  same items (`SameBook`), with the other sign; only `Math.round` of a negative half may differ, by a
  cent of the total.
* `BooksAlwaysAgree`: the IVA of position, book and CSV are one sum over rates taken in two orders;
  for an entry, the drift between columns and total grows by half a cent for each rounding the code
  makes, one rate after the other; the IVA of whole cents is rounded from a fraction with an odd
  denominator, so it is off by *less* than half.
* `PagesAreWhole`: the printed lines are the request's groups again, and the height of the page is
  linear in its lines; `PageConstants` is the inequality the layout satisfies (the run's page, 15
  items and 6 more lines, takes 324 of the 327 points).
* `DocumentsAreTyped`: rows, book and position have the types of the code's interfaces.

**Records.** `ExportsAreFaithful` rests on `ExportsInv`: posts of one issuer work one at a time and,
unless another row of the CUIT raced, what a post has read of WSFEX is still so when it sends; ids
are given in order and each once, so a CAE determines its request. `ReportsCountWhatIsMissing`: what
is stored was authorised and both only grow, so the two answers a report compares bound what was
missing when it began. `PurchasesAddUp`: a row's total is the sum of its parts through every
overlapping update, since each update writes all the amounts it read or was given; an import repeats
only what it or a request beside it stored (`TodoIsFresh`, with `WorkersOverlap` naming who that is),
and counts what it stored (`StoredCounts`); `SumsAddUp` makes a sum of sums the sum of its parts.

**Services.** One invariant per part, each with what its steps carry from one await to the next:

* `FormInv`: under an open review the plan is of the form as it is (`PlanIsOfTheForm`), a call under
  way covers the form, what is at the API ended it, and only the quote of the chosen currency is
  awaited unless the user went astray.
* `PushInv`: at most one awaited removal, and the row follows the session, the logout or what strayed.
  `WebhooksInv`: how far each delivery is, how long it waited and how often it can have arrived.
* `WatchInv`: a walk reaches a certificate once, within `MaxDelay` of the morning, so two clocks a day
  apart give numbers of days that fall by one.
* `CalendarInv`: the hard facts are that months do not overlap and leave no day out (`FirstOf` is a
  running sum), and that sorting a finite set of obligations by date loses none: places and
  obligations are as many, and no place has two.
* `CachesInv`: which answers a row is made of and what a lookup carries. `AccessInv`: what the check of
  a request has established; grants and rows only grow, so it is still so when the request acts.
* `CatalogInv`: unique documents, points read, comparisons and the log. `SummaryWindow` is assumed
  below 20000 (200 in the code), as one mismatch among 20000 would round to 100 %.
* `RateInv`: of each key, how many arrivals there were since its window began, and in any span as long
  as a window; a span meets at most two windows. The map exceeds its bound only by keys that are open.

`PartsInit`, `PartsStep` and `PartsSpec` show that a behaviour of `MCParts` is one of every part, so
`NoticesArrive`, `ServicesAreSound` and `RecordsAreFaithful` state the parts' theorems of the whole.
`PartsAreTyped` adds what those invariants leave out, each part's types beside its invariant: the
form, for instance, always has an item, a voucher type that exists, and room for the edit an open
sheet makes.

TLC checked every inductive invariant on the instances of section 3 before it was proved, and
`OnceInv`, in the steps `NotAfterFailure` allows, on a key posted twice and a plain invoice, with one
or two retries and up to four faults, so that rows do get to FAILED. The library's induction theorems take a predicate as parameter
and cannot be used; `LeastElement` (from the well-foundedness of `<`) and `EveryNatural` state
induction about sets instead, and `SumsExist` derives from them that the recursive functions of
the model are defined by their recursion.

**Only model-checked**: `RequestsAnswered`, `QueueSettles`, `EveryoneServed` (liveness). Run `emission`
checks `NoCaeOrphaned` and `OneCaePerKey` without assuming `NotAfterFailure`: with three faults and
three retries a row whose reply was lost does not get to FAILED, so the re-POST finds it queued or
issued.

## 7. What is not modelled

* Bodies of SOAP messages, signatures, the redaction of logged XML, fonts, wording and the horizontal
  layout of pages.
* Formats of texts in the schemas (dates, CUITs, emails): they reject malformed input before the
  code modelled here runs.
* The app's other screens: they show what the API answers. The session they run under is in
  `Sessions`, their push token in `PushTokens`.
* Key rotation: run by hand, API stopped, in one transaction.
* More than one API process: the lock and the limiter live in memory, and the deployment is one
  process.
* ARCA, WSAA, WSFEX, the network and the phone's store are external, modelled from how the code uses
  them: they may refuse, lose, delay, or answer late; ARCA authorises only the next number of a series.

## 8. Plan

Done, in order of importance: emission and queue, and the abstract issuing they implement; the lock and its refinement; issuer set-up and
tickets; sessions; fiscal documents; the parts around the core; the issue screen.

Every safety invariant and every action property the passing runs check is proved, for any values of
the constants, under the assumptions section 6 gives with each theorem. Next: the faults of
`Tolerated` one by one, for the weakest condition under which each of the two theorems of CaeOnce
still holds (a crash before ARCA answered, a database failure before the lookup).

## 9. How to run it

```
tlc -workers 2 -config MCVoucherEmission.cfg MCVoucherEmission.tla
tlc -workers 2 -config MCSessions.cfg MCSessions.tla
tlc -workers 2 -config MCParts.cfg MCParts.tla
tlapm VoucherEmission_proofs.tla
tlapm CaeOnce_proofs.tla
tlapm FiscalDocuments_proofs.tla
tlapm Records_proofs.tla
tlapm Services_proofs.tla
```

`PROJECT.json` lists every run with its module and configuration, the mutant that each property
catches, the lines each definition stands for, the hazards and the theorems.
