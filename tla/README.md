# TLA+ models of the TPOIL back end

This directory holds TLA+ specifications of the repository's back end (NestJS, Prisma,
PostgreSQL, BullMQ on Redis), the TLC configurations that check them on small instances,
and proofs checked by TLAPS. Paths are relative to the repository root; `M/` stands for
`src/modules/`.

    tlc -workers 2 -config settlement_concurrent.cfg MCSettlementAllocation.tla
    tlapm StockPosting_proofs.tla

## 1. The system

Three runtimes share one PostgreSQL database and one Redis (ONBOARDING.md): the **web**
process serves HTTP requests, the **worker** consumes BullMQ queues, the **scheduler**
fires cron jobs. All business state is in the database; processes keep none across
requests. So the hard behaviours are those of concurrent transactions at PostgreSQL's
default READ COMMITTED, of checks made before the transaction they guard, of jobs that
are retried, and of processes that die between two writes.

### Inventory

| component | state | operations | correct when | status |
|---|---|---|---|---|
| Supplier settlements (`M/settlements`) | `SupplierSettlement`, `PaymentAllocation` | create, allocate, void | settled amounts are the allocations; nobody is overpaid; void carries nothing | modelled |
| Bank transactions (`M/banking/banking.service.ts`) | `BankTransaction` | confirmTransaction, remove, deleteMultiple, match suggestions | a transaction pays at most its amount; matched ones are never deleted; what is suggested for an outgoing, unconfirmed one can be taken | modelled |
| Bank statement imports (`banking.service.ts`, `bank-imports`) | `BankStatementImport`, the rows it inserts | importStatement, processSync | a statement called DONE lost no row the parser can read | modelled but for the parsers |
| TERM payment batches (`term-payment-batches.service.ts`) | batches, items, payment requests | createBatch, markSent, matchItem, refreshBatchStatus | a request is in one live batch and paid once | modelled |
| Inventory (`M/inventory`) | `InventoryBalance`, `InventoryLedger` | ensureBalance, applyDeltaAndAppendLedger | balance is the stock card; never negative; physical = pending + posted | modelled |
| Goods receipts (`M/purchases/goods-receipts`, `purchase-term-receipts.service.ts`) | `GoodsReceipt`, `PurchaseOrderLine.withdrawnQty` | createAutoConfirm; TERM create, update, confirm, void | stock and withdrawn quantities are what confirmed receipts brought | partly |
| Supplier invoices (`M/purchases/supplier-invoices`) | `SupplierInvoice` and lines, its settlement | create (posts), void, PDF import | one invoice in force per order; void ones unpaid; a reused file exists | partly |
| Purchase orders (`M/purchases/purchase-orders`) | `PurchaseOrder`, print runs | create, approve, cancel, bulk forms, list, tabs, detail, print | a cancelled order has no stock; the views of an order agree; what the detail offers is accepted | modelled |
| TERM orders (`purchase-term-orders.service.ts`) | `PurchaseOrder`, lines | create, update, approve, cancel, complete | completed with a final price; approved with an estimate where only their own approve is called | modelled |
| TERM pricing and cost layers (`purchase-term-pricing`, `-cost-layer`) | `PurchasePricingRun`, stages, `InventoryCostLayer` | createEstimate … createBossSheet, previewConsume, commitConsume | stages in order; one layer per final price; layers never over-consumed and used oldest first; a sheet adds up | modelled |
| TERM documents, payment requests, instructions, adjustments, next action and workflow (`M/purchases/purchase-term`) | one table each | generate, printBatch, createPaymentRequest, create/matchBankInstruction, createSettlementAdjustment, getNextAction | one request per order; the next action is the step the workflow shows, and can be taken by an approved, estimated order; the order form makes its total | modelled |
| TERM shipments and logistics costs (`M/purchases/purchase-term`) | `TermShipment`, `TermLogisticsCost` | create, update, confirm, void, remove | a cost's total is its lines; a cost keeps its shipment until a form says otherwise | modelled |
| Contracts (`M/contracts`) | `Contract`, renewal links, attachments | assign, unassign, create, update, remove, Excel import, expiry lists | no overlap; a renewed contract is not reported; a renewal follows its origin | partly |
| Daily expiry report (`M/contracts/cron`, `M/cron`) | `CronJobRun`, the `cron` queue | handleDaily, beginRun, dispatch, handle, markSuccess, markFailed | a run is called successful only if mailed; no run mailed twice; no job hangs | modelled |
| Price bulletins (`M/price-bulletins`) | `PriceBulletin`, items, preview runs | create, update, publish, void, quotePrice, listPriceItems, PDF preview, correction and import | one price at any moment; corrections that no other overlapped are kept | partly (what is read from a PDF is left out) |
| Background jobs and queues (`M/background-jobs`, `M/job-artifacts`, `src/infra/queue`) | `BackgroundJobRun`, `JobArtifact`, BullMQ jobs | createRun, enqueueRun, mark…, upsertArtifact, retries | a run ends as what its job did; every queued job ends | modelled |
| Departments and employees (`M/departments`, `M/employees`) | `Department`, `Employee`, memberships | create, move, retype, remove; hire, edit, delete | the tree shows every live department | modelled |
| Accounts, roles, sessions (`M/users`, `M/rbac`, `M/auth`) | `User`, roles, bindings, sessions | CRUD, setGlobalRoles, updateRolePermissions, login, logout | nobody works with rights a role has lost | modelled; session expiry, passwords and cookies are not |
| Lookups with a code (`bank-purposes`, `contract-types`, `customer-groups`, `bank-import-templates`, `bank-accounts`) | one table each, rows that refer to it | create, update, remove | an entry in use stays | modelled |
| Customers, supplier locations (`M/customers`, `M/supplier-locations`) | `Customer`, roles, locations | CRUD, generated codes | a generated code is free while codes sort as their numbers do | modelled |
| Values over time (`customer-addresses`, `environment-taxes`, `vcb-fx-rates`, `commodity-price-quotes`) | one table each | create, move, remove, lookup, fetch | a day has one value | modelled |
| Products and other registers | one table each | CRUD | the unique keys of the schema | not modelled: no protocol between operations |
| Uploads, Google Drive, mail, PDF and Excel rendering | – | – | – | not modelled: input and output |

### How they interact

* Posting a supplier invoice moves pending stock to posted stock and inserts a settlement;
  paying the settlement (allocate, confirmTransaction) blocks the void of the invoice.
* Receipts increment the balance and the order line; a confirmed receipt blocks the
  cancellation of its order, a live invoice too (ordinary orders only).
* Statement imports create the bank transactions payments are made of.
* A TERM order is filed under a valid contract of its supplier; its estimate, final price and
  director's sheet read quotes, rates and confirmed logistics costs as they are at that moment.
* Changing a role's permissions deletes the sessions of those who have the role.
* Schedulers and web requests put jobs on Redis queues; the worker writes their outcome
  into run rows of the database. Nothing makes the two writes one.

### Hazards

`PROJECT.json` lists the hazards at their lines, with the properties that catch them. They
fall into six groups: a check on a row read before the transaction (confirm, void, remove,
cancel, publish, setGlobalRoles); a sum or a balance read without a lock and overwritten (allocate,
applyDeltaAndAppendLedger, decreasePendingInventory, updatePreviewLine); several rows that must
move together (confirmTransaction, invoice posting, rebuildTimeline); jobs that are lost,
repeated or swallowed; the same fact computed by two pieces of code (list and detail of an order,
next action and workflow, price list and quote); numbers and dates at their edges. The `note` of a
hazard says where its property stops. Many of these calls check and write in two steps and promise
nothing to calls that overlap: there the property is stated of calls served one at a time, and the
hazard, which no run then meets, names no property. The interleavings are in the models all the
same; the end of section 4 lists what they reach.

## 2. How transactions are modelled

Every HTTP request is a process of `request`. A statement sees what has committed; an
UPDATE waits for another transaction's row lock, then works on the row left behind. So
a handler is **cut where it reads**: each read is one action, and the writes that follow
the last read take effect together at the commit, which is one action. What a handler
computes from a read is kept in its `request` record, so a value stale at commit is
written stale. Where a transaction reads again *after* it has written, the rows it has
updated are kept (`written`, or the pc) as the row locks it holds; `SettlementLocked`,
`BalanceLocked`, `ReceiptLocked`, `OrderLineLocked`, `InvoiceLocked` and `TxnReferenced`
are those locks. `{ increment: … }` is applied to the row as it is at the commit; an
absolute value overwrites it. `Abort` ends a request anywhere before its commit without effect:
a failing check, a unique or foreign key, a deadlock victim, Prisma's 5 s timeout, the
death of the process. `ensureBalance` upserts with an empty `update`: on a row that
exists it is a plain read.

## 3. Modules

Before a definition some modules have the same operator after a plausible slip
(`…Ignoring`, `…Always`, `…Stale`); no action uses them. Each is the mutant that shows a
property can fail.

### SettlementAllocation, SettlementLedger

`settlement`, `bankTxn` and `allocated` are the three tables (rows of status `ABSENT` do
not exist yet; `DELETED` ones are gone). `CreateSettlement` is `create` (and what posting an invoice inserts),
`ImportTxn` a row inserted by `importStatement`.

| code | actions |
|---|---|
| `allocate` (one transaction: read the settlement, read the transaction and its allocations, write) | `AllocateReadSettlement`, `AllocateReadTxn`, `AllocateWrite` |
| `confirmTransaction` (read outside; per item check, increment, insert; commit) | `ConfirmRead`, `ConfirmCheckItem`, `ConfirmApplyItem`, `ConfirmCommit` |
| `void` | `VoidRead`, `VoidWrite` |
| `remove`, `deleteMultiple` (check, then a cascading DELETE) | `RemoveRead`, `RemoveDelete` |
| `matchItem` of a payment batch, as far as it touches the bank transaction | `MatchItemRead`, `MatchItemWrite` |

`matchItem` sets a transaction MANUAL_MATCHED and confirmed with no allocation and no look at its
amount, so `FullMatchIsFunded` cannot be said of those it has taken: `paidByBatch` is a history
variable that remembers them. `Suggested` is `getMatchSuggestions`, which looks neither at the
direction of a transaction nor at whether it is confirmed; `SuggestionIsAccepted` is about those
`confirmTransaction` does not refuse for that.

`SettlementLedger` is what the books promise: a payment takes one bank transaction, pays
each settlement it names once, and settled totals move by exactly what is paid.
`LedgerSpec` says the tables implement it under the mapping `paid <- allocated`,
`settled <- amountSettled`.

### StockPosting

`order`, `receipt`, `invoice`, `balance` are tables; `ledger` is the sum of the deltas of
the stock card per place (a place is a supplier location and product, the key of a
balance). An order has one line, an invoice at most one line per place.

| code | actions |
|---|---|
| `createAutoConfirm` | `AutoReceiptRead`, `AutoReceiptCommit` |
| TERM `create`, `update` (of place and quantity) | `TermReceiptCreate`, `UpdateReceiptRead`, `UpdateReceiptWrite` |
| TERM `confirm` with `increasePendingInventory` | `ConfirmReceiptRead`, `ConfirmReceiptReadOrder`, `ConfirmReceiptCommit` |
| TERM `void` with `decreasePendingInventory` | `VoidReceiptRead`, `VoidReceiptReadBalance`, `VoidReceiptCommit` |
| invoice `create` and `void` with `applyDeltaAndAppendLedger` per line | `InvoiceCheck` / `VoidInvoiceCheck`, `VoidInvoiceMark`, then `LineRead`, `LineWrite` per line, `InvoiceCommit` |
| a payment of the invoice's settlement | `PayInvoice` |
| `cancel`, ordinary and TERM | `CancelRead`, `CancelWrite` |

An order begins as a DRAFT, or APPROVED in a run without `approve`; `ApproveRead` and `ApproveWrite` are `approve`.

Left out: `post` of a DRAFT invoice (nothing inserts one), the refusal to void a receipt
used in posted pricing, shipping and temperature fields. The number of a voided
invoice cannot be entered again (unique key), so an id is used once.

### PurchaseOrders

Extends StockPosting with `settled`, what has been paid of each invoice, and with what the service
tells about an order: the row of the list and its tab (`ListPayment`, `BusinessStatus`, `Listed`),
the counters (`CountedIn`), the detail (`DetailPayment`, `CanReceive`, `CanCancel`). They are
separate pieces of code over the same rows. `ViewsAgree` and `OfferedIsAccepted` compare them with
each other and with the guards of the handlers.

### CronRun

`run` is `CronJobRun`, `job` the BullMQ queue (one job per run id, its id derived from
the run), `sched` and `worker` the processes, `mails` what has gone out. `BeginRun`,
`CreateRun`, `Enqueue` are `handleDaily`; `Register` and `Listen` the two bootstrap
hooks; `Take` is `dispatch`; `SendMail`, `MarkSuccess`, `MarkFailed` and the failing
forms are `handle`; `Retried` is the queue's retry with the configured attempts, `Stalled` what
it does with the job of a dead worker. `faults`,
chosen at the start, says what may fail in a behaviour: mail server, database, scheduler,
worker. A job whose worker died is taken back once, then failed (BullMQ's default).

### BackgroundRuns

`bgRun` is `BackgroundJobRun`, `input` and `output` its artifacts, `bgJob` the queue's job,
`request` how far the HTTP request has come, `editor` a user between reading and writing a preview;
several may be, for `updatePreviewLine` does not keep them apart. `saved` and `markLost` are history
variables: the corrections that were answered with success while no other was under way, and the
runs of whose last attempt the database refused a mark.

| code | actions |
|---|---|
| `importPdf` (small file at once, large one queued), `startImportPreview`, `createPrintBatch` | `ImportFast`, `FallBack`, `StartRun`, `CreateBgRun`, `StoreInput`, `EnqueueRun` |
| the workers | `TakeRun`, `ReadInput`, `WriteOutput`, `MarkRunSuccess`, `HandlerThrows`, `MarkRunFailed`, `TakeRunUnmarked` (`markProcessing` throws, outside of the try), `MarkFailedThrows` (`markFailed` throws, in the catch), `CloseThrows`, `JobReturns`, `JobThrows`, `JobWorkerDies` |
| `updatePreviewLine` | `ReadPreview`, `WritePreview` |

`Requeued` counts attempts and stalls by the profile of the queue; `Swallows` is the invoice
worker, which does not throw its error again, so that its job completes.

### PriceTimeline, PriceSchedule

`bulletin` is the table, `request` what each request has read. `Create`, `UpdateRead` /
`UpdateWrite`, `PublishRead` / `PublishWrite` and `VoidRead` / `VoidWrite` are the calls of
those names; the import's transaction is `ImportReadSame`, `ImportVoidSame`,
`ImportReadNext`, `ImportReadPrev`, `ImportCommit`. `InForce(t)` is where `quotePrice`
looks at the moment `t`, `Quoted(t, item)` what it answers, `Listed(day)` the rows of the
price list, whose end is inclusive and whose unit is the day (`MomentsADay`). `PriceSchedule` is what a price list promises, with no rows,
statuses or ends: an import at `t` gives the moments from `t` to the next start a new
bulletin and changes nothing before, except that it fills a gap back to the bulletin
before it; a void takes one away. `KeepsSchedule` says imports and voids do that.

What the code does not promise is not claimed: bulletins entered by `create` and
published by hand are not fitted into the timeline, so `OnePriceAtATime` says three things: whatever clients do, the bulletin quoted at a moment is in the
list of its day; while they only import and void, a bulletin in force ends after it starts; and
where imports and voids come one at a time, a moment has one price.

### ContractRenewal

`contract` is the table; a removed id stays `REMOVED`. `CreateRead`, `ImportRead`,
`InsertCommit` are `create` and a row of `importFromExcel` (whose rows are inserted one
after another; a row that fails rolls all back, an `Abort` of each); `Update…` is `update`
(origin, then other renewals of the old origin, then the write); `Remove…` is `remove`, whose
DELETE sets the renewals' link to null; `AssignRead`, `AssignReadOverlaps`, `UnassignRead` and
`SetCustomer` are the assignment screens. `Expiring` and `Expired` are the counts in the mail of
a day, `ReportRows` the rows of its sheet, computed by other code, and `ValidContracts` the
contracts a TERM order of the day may be filed under.

Here and in the TERM modules `scenario`, chosen at the start, is the kind of use of a behaviour:
which calls clients make, which fields they edit, and how many requests are served at a
time. One state space then holds several small instances, and a property says in its
premise under which use it is promised.

### TermPricing

`order`, `receipt`, `run` (each row with its stages), `layer` are the tables; `latest` is the
run `getOrCreateRun` finds. One order has one line, so a stage is its quantity; its
arithmetic is left out. `layer` is in the order of `costDate`, which is the moment of the
FINAL that writes it. `taken` is what the answers of `commitConsume` add up to.

| code | actions |
|---|---|
| `create`; `approve`, `cancel`, `complete` (check, then write) | `CreateOrder`; `CheckOrder`, `SetOrder` |
| `approve` and `approveMany` of the ordinary purchase orders | `ApproveAny`, `SetOrder` |
| receipts `create`, `confirm`, `void` | `CreateReceipt`; `ConfirmRead`, `ConfirmReadOrder`, `ConfirmCommit`; `VoidRead`, `VoidWrite` |
| `createStage` of the four kinds | `CheckStage` (outside the transaction), `ReadRun`, for FINAL `SeeLayers` and `DeleteLayers` (a DELETE that chooses its rows, then waits for locks), `ReadStage`, `CommitStage` |
| `commitConsume` | `ConsumePreview` (outside), `ConsumeRead`, `ConsumeWrite` per layer, the last of which commits |

The ordinary `approve` and `approveMany` look at nothing but the status, so they take a TERM order
with no estimate; they are calls of the scenario (`"approveAny"`), and where they are, `StagesInOrder`
says nothing of the estimate of an approved order. The ordinary `cancel`, `cancelMany` and
`createAutoConfirm` lead to no rows the TERM calls do not lead to.

`UsedInPostedPricing` is false throughout: nothing in `src/` inserts the rows it looks for,
so a receipt of a posted pricing can be voided. What a receipt does to stock is in
StockPosting.

### TermFlow

Extends TermPricing with `flow` (kind of flow, prices on lines, active document, adjustment),
`payment`, `instruction`, `batch`, `item`. The calls of `purchase-term-flow-documents`,
`-order-documents` and `term-payment-batches` are one step each, taken when no other request
is being served: the run asks what a long sequence of calls can do, not what an overlap can.
`Update` with new lines unlinks drafted receipts (the foreign key is set to null), which
then cannot be confirmed. `Needs` is `getNextAction` as a list of what is missing, in the
order the code asks; `NextAction` is the first of them, and `Accepted` the guard of the handler
behind each answer. `StepAction`, `StepOf`, `StepDone` and `Begun` are `toWorkflow`: the action a
step offers (the bank step MATCH_BANK_TRANSACTION once there is an instruction or a live item of a
batch), the step an answer makes the current one, and the steps that are done or current. What
`matchItem` does to the bank transaction is in SettlementAllocation.

### TermPapers

What is added up for one TERM order. `CreateCost`, `UpdateCostRead` / `UpdateCostDelete` /
`UpdateCostWrite` and `DecideCost` / `WriteCost` are logistics costs, whose lines are kept apart by
the call that inserted them (in one of `MaxInsertions` slots, since a deletion takes the lines its
statement sees and not those of a call that overlaps); `SetShipment` and `RemoveShipment…` the shipments. `CreateSheet` prices
the first or the last stage: `PriceDays` and `Average` choose the quotes, `Recalculated` is
`recalculateStage`, `SheetRows` is `buildSheetRows`, and the director's sheet takes in the
confirmed, capitalized costs (`LogisticsCosts`). `GenerateForm` and `PrintForm` write the order
form from the estimate or from the prices of the order. Amounts are whole: a quotient is rounded
down, and the last line of a sheet or a form takes what the others leave.

### Requests, and the registers built on it

`Requests` is the frame of the modules for registers: `Goes` and `Ends` move a request, `AtOnce`
is a handler of one statement. Each module adds its tables and its calls and has a specification of
its own, which the theorems are about: `OrgSpec`, `AccessSpec`, `CatalogueSpec`, `TimelineSpec`,
`PriceSpec`, `StatementSpec`, `PaperSpec`. The rows of a statement are known by their place in it.

| module | code | what is cut |
|---|---|---|
| Organization | `departments`, `employees` | `move` and `remove` of departments: check, write |
| Access (extends it) | `users`, `rbac-admin`, `rbac`, `auth.controller` | `setGlobalRoles`, `setEmployee`, `deleteRole`; `updateRolePermissions`, whose deletion of sessions is a later statement; a login, which stores the session before its rights |
| Catalogue | purposes, contract types, groups, templates, bank accounts; customers, supplier locations | the look for uses before a removal; the look for the greatest code before a customer. A code of the month ends in a number, or in a tail typed by hand (`HandTails`) that stands after some number (`After`) and reads as one, or as none (`Parsed`) |
| Timelines | addresses, taxes, exchange rates, quotes | every look at the rows before a write; a fetch from the bank |
| BankStatements | `importStatement`, `processSync` | lookup, creation, look for duplicates, each batch, end. `Readable` are the rows the parser can read; it passes over the others and counts them nowhere (`ReadableRows`) |

## 4. Runs

| run | bounds | shows |
|---|---|---|
| `settlement_concurrent` | 2 settlements, 2 transactions, 2 requests, amounts 1..2 | `TypeOK`, `StatusAgrees`, `FullMatchIsFunded` under every interleaving of `allocate`, `confirmTransaction`, `void`, `remove` and `matchItem` |
| `settlement_serial` | the same, 1 request | `NeverOverSettled`, `SuggestionIsAccepted`, `SettledIsAllocated`, `ConfirmedIsFinal`; payments implement the ledger (`LedgerSpec`) |
| `settlement_overdraw` | the same, 2 requests, only allocate | **violated**: `TxnNotOverAllocated` |
| `stock_serial` | 2 orders (1 TERM), 2 places, 2 receipts, 2 invoices, 1 request | balances, stock card, documents and order lines tell one story (`BalanceIsLedger`, `PhysicalIsSplit`, `StockIsDocuments`); `InvoicesInForce`; `CancelledHasNoStock`; `ViewsAgree`, `OfferedIsAccepted` |
| `stock_concurrent` | 1 TERM order, 1 place, 2 receipts, 2 invoices, 2 requests | `NeverNegative` under every interleaving |
| `stock_cancel_term` | 1 request | **violated**: `TermCancelledHasNoStock` |
| `queues` | report: 2 schedulers, 1 worker, 2 runs, 2 days, 2 attempts; background runs: 2 runs, 2 workers, 1 file, 2 lines, 2 editors | `SuccessMeansMailed`, `MailedOnce`, `RunsAreMarked`, `CorrectionsSurvive`; `JobsLeaveTheQueues` under fairness |
| `invoice_file` | 2 runs of invoice imports | **violated**: `ReusedFileExists` |
| `contract_renewal` | 3 contracts, 1 customer, 2 days; 4 scenarios, one of them with 2 requests | `RenewalFollows` under interleaved renewals and removals; `RenewedIsNotReported`, `NoOverlap` one request at a time |
| `term_flow` | scenarios: 2 billed orders, 3 layers, 1 user; 1 order, 2 users, all calls but consumption; 1 billed order, 2 users, 3 layers; 1 order, 2 receipts, from creation to completion, the ordinary approve included; 2 orders under way, 2 payment requests, 2 batches | `StagesInOrder` and the bounds of `OldestFirst` under every interleaving; `LayersAreFinal` and the order of use one user at a time; `NextActionIsAccepted`, `PaymentsAgree` |
| `term_direct` | 1 order, without pricing calls and the ordinary approve | **violated**: `DirectOrderGoesOn` |
| `registers` | 21 uses, each on tables of 1 to 3 rows, by 1 or 2 requests | `TreeShowsAll`, `SessionsFollowRoles`, `UsedEntryStays`, `GeneratedCodeIsFree`, `OneValueADay`, `OnePriceAtATime`, `DoneIsStored`, `CostsHold`, `PapersAddUp`; imports and voids of prices implement `PriceSchedule` (`KeepsSchedule`) |

`queues` and `registers` each put several parts into one state space. The parts share no state: a
behaviour is of one of them (`part`, or the calls of its scenario), the tables of the others stay
as they begin. In `registers` the same names serve as departments, customers, addresses, taxes and
bulletins, since the table of one kind at most is in use.

**Why the bounds are enough.** A race needs two requests; a lost update needs two writers
of one row; a partial confirmation needs two items; over-allocation needs two settlements
sharing a transaction. Amounts 1..2 tell paid, partly paid and overpaid apart. Two places
give an invoice of several lines; two receipts and two invoices give a document voided
beside one in force. Two attempts tell the first failure from the last; two days let a run
of yesterday meet today's. Three bulletins put one between two, with a gap or without; three
contracts give one two renewals, or a chain; two days tell a renewal that follows from one
that overlaps. Three layers let a consumption cross from one to the next while FINAL is priced
again; amounts 1..2 let a final price differ from what was paid. In `term_flow` an order
has one layer: FINAL is priced again with no quantity. In `registers` numbers have base three and
are padded to one digit, so that the end of the padding is reached with three customers, and the
hand-typed tails are nothing, "1x" and "abc"; one row of a statement cannot be read; a day has
two moments, so that a bulletin may start within one; a batch of a statement is two rows, so that
a statement of three takes two; a cost of `MaxLines` lines or more is not updated any more, which
lets two updates overlap and keeps the table finite, and `MaxInsertions` = 5 is more than the
insertions that two overlapping updates leave and have seen; prices and charges of sheets are even and
a tank takes two liters at most, so that prices per liter are whole, which is where `PapersAddUp`
compares the amount with the bill (the theorem is for any forms). `LedgerSpec` in `settlement_serial` includes removals only of
unpaid transactions, which stutter.

**Deadlock** is not checked: tables fill up to the bounds and the system may stop there.
A database deadlock is not a stop: PostgreSQL rolls one transaction back (`Abort`).

**Fairness** is assumed only in `queues`: weak fairness of each scheduler's and each
worker's own steps, that is, their event loops keep running; not of requests, which may stop
anywhere, nor of deaths, failures or the passing of days. A worker that dies starts again (the
process manager restarts it), which its first action, `Register`, stands for.
`JobsLeaveTheQueues` needs the attempts counter and the single stall: without either a job could
come back for ever.

**Symmetry** is used over ids no property tells apart, never with a liveness property
(`KeepsSchedule` speaks of steps, and of all bulletins alike).

### Disagreements with the repository's own words

* `settlement_overdraw`: `allocate` says it guarantees "sum allocations <= txn.amount";
  two concurrent calls on one transaction both pass the sum and both insert.
* `stock_cancel_term`: a TERM order with a drafted receipt is cancelled, then the receipt
  is confirmed: `confirm` does not look at the order, and the cancelled order has stock.
* `term_direct`: the workflow shown for a DIRECT_ORDER order says the flow skips the
  temporary price sheet and goes straight on, and the next action of such an order, documented
  and paid, is its receipt; but `approve` refuses any order without an estimate, and a
  receipt needs an approved order. The user gets on only by computing the estimate, or by another
  way out that the TERM screens do not offer: the `approve` of ordinary purchase orders, which takes
  a TERM order too and asks for no estimate.

* `invoice_file`: the worker of a large invoice import looks for a stored file by checksum and
  finds the artifact of its own run, which has the bytes and no file: the upload is never reached,
  and the preview says "File đã tồn tại, dùng lại file cũ".

Smaller ones seen while modelling, which the models reach or keep and no run states:

* *TERM.* `getNextAction` never answers APPROVE_ORDER, and since FINAL and BOSS_SHEET already post
  the run it answers COMPLETE_ORDER (mapper: "chờ hoàn tất hồ sơ") only where an earlier stage has
  been computed again afterwards. The step of the adjustment is shown DONE while a difference is
  open, if an earlier need comes first. `withdrawnQty || orderedQty` never falls back to the
  ordered quantity, a Decimal zero being truthy. The fees of inspection, transport and storage are
  in BILL_TOTAL, which the sheet calls "Tiền hàng + chi phí", and have no row. A confirmed logistics
  cost can be edited, and nothing computes the director's sheet again. The order form stays when
  lines or estimate change. The average of quotes takes whatever products were quoted on a day.
  `createStage` answers with `getStageDetail` on a connection outside of its transaction, which does
  not see the stage yet and waits for a second connection of the pool.
  An order the ordinary `approve` let through without an estimate can be told to make its form or
  to price its bill, which are refused. While a payment waits in a batch that was not sent, the next
  action is CREATE_BANK_INSTRUCTION and the step it makes current offers MATCH_BANK_TRANSACTION. An
  empty contractNo clears the contract of the order. `markSent` sets a request that is paid back to
  SENT_TO_BANK. An update of a logistics cost with shipmentId null clears its shipment.
* *Purchase orders.* The list filters by business state after it has paged; the counters count TERM
  orders that no tab lists; the detail forgives a cent that the list does not; a receipt is offered
  on a DRAFT and refused; approving races with cancelling and may revive the order.
* *Payments.* Even one request at a time, a transaction that `allocate` has spent can be confirmed for its
  whole amount again: `confirmTransaction` loads its allocations (banking.service.ts:497-513) and
  does not count them. `matchItem` confirms a transaction as fully matched without any allocation,
  whatever its amount, and leaves the one an item was matched with before confirmed. Suggestions are
  offered for incoming and for confirmed transactions, which `confirmTransaction` refuses (505).
* *Statements.* A FAILED statement is refused as already imported, for ever; `importedCount` counts
  rows that `skipDuplicates` skipped; a row without a date, an amount or a description that can be
  read is dropped and counted nowhere (an amount written "1,000,000" parses to NaN), so a statement
  called DONE can have lost it.
* *Customers.* A code of the month typed by hand whose tail is no number ("C202501ABC") sorts last,
  and the next generated code starts again at 1, which is taken; so does one whose tail begins with a
  small number.
* *Departments.* A parent that has been deleted is accepted, and the department vanishes from the
  tree; `TreeShowsAll` is stated of clients that pick the parent from the list.
* *Background runs.* The run of an invoice imported at once stays PENDING; so does one whose request
  dies before it queues the job; one whose worker died twice stays PROCESSING; so does one whose
  handler and `markFailed` both threw, and one whose `markProcessing` threw at every attempt stays
  PENDING, after its job has left the queue; a run that failed
  once and then succeeded keeps its error text; `updatePreviewLine` drops the checksum of the
  artifact, and of editors who overlap only the last to write keeps the correction. The
  print worker renders all orders or throws, so its branch for no success is never taken.
* *Contracts.* A contract that is renewed before it ends is Terminated at once, so until the renewal
  starts its supplier has no valid contract and TERM orders are refused; CONTRACT_EXPIRED cannot be
  answered.
* *Accounts.* The comment of `users.update` says that an employee of null is unassigned; null leaves
  the link as it is.

Other interleavings the models reach and that the serial properties exclude: two payments of one
settlement where one update is lost; a transaction confirmed between the check and the DELETE of
`remove`; a receipt confirmed twice by a double click; two invoices created for one order at once;
an invoice paid while it is being voided; two schedulers that fire together and give a day two
runs, although `beginRun` calls itself idempotent; two imports of one moment; a bulletin published
while an import voids it; two overlapping assignments to one customer; two overlapping FINAL
pricings that write the layer of a run twice; two consumptions of one layer of which one is
forgotten; two moves of departments that close a circle; two assignments of roles whose union
stays; two addresses or taxes of one day; an entry removed while a row is given it.

## 5. Proofs

The theorems hold for every number of rows, requests and processes and every bound. What they
assume of the constants are the named ASSUMEs: bounds are naturals, "none" values are not ids, the
sets of rows that are added up or searched to an end are finite. TLC evaluates each of them in the
run of its module. `PROJECT.json` lists every theorem with the property it states; what follows is
how each is argued. Of the 40 properties that passing runs check, 39 are theorems; the one that is
not is named at the end.

Two kinds of argument return everywhere.

*What was read is only a value.* Where a property holds under every interleaving, a request's record
may be stale. The invariant then says what the record is worth all the same: a quantity that was
checked on an old balance is a non-negative quantity, an origin that was checked is held by a lock,
a status is written beside the very amount it was computed from.

*Served alone, what was read still holds.* Where the code promises something only to calls that come
one after another, the invariant says `Busy` (only clients of the scenario are under way) and, if
there is one client, a fact about each request at each pc (`…Knows`, `…Reads`) that ties its record
to the tables. A step of that request carries the fact to the next pc (`GoesTo`), and its last step
leaves every request idle (`EndsIdle`).

*SumTheorems.* Sums over finite sets (`SumFunctionOnSet`): of nothing, of one more member, of a
function changed at one place, of a smaller function, of two disjoint sets. TLAPS has no induction
over data here, so each is proved by a smallest counterexample: among the subsets of a finite set for
which it fails one is minimal (`MinimalSubset`, from the well-foundedness of the strict subset order),
and it does not fail for that one. `Smallest` and `Greatest` give the ends of a set of numbers the
same way. `SumScale` says that a sum of multiples is the multiple of the sum. The recursive function inside the fold is handled as an equation with one solution
(`SumEq`, `SumEqUnique`).

*SettlementAllocation_proofs.* `IInv` = `TypeOK`, `RequestOK` (a request works on
existing rows with positive amounts, and holds locks only in an open confirmation),
`LocksOK` (no settlement is updated by two open confirmations), `AbsentUnpaid`,
`StatusAgrees`, `AllocatedTxnIsMatched` (what pays something never looks unmatched). `StatusAgrees`
alone is not inductive: a status written from a stale amount agrees only because that same
amount is written beside it, and an increment works on the row as committed. From `IInv`:
`TypeCorrect`, `StatusCorrect`, `MatchCorrect`, `LockingCorrect`. `FullMatchCorrect` adds that a
confirmation has something to pay and keeps its bank transaction from being deleted
(`ConfirmReferences`), and that what `allocate` has found to be spent with its amount is still so
when it writes that, unless the transaction is gone (`MatchReadFunded`), and leaves out what `matchItem` has taken. `LedgerCorrect`: where
clients only confirm and void, every interleaving implements `SettlementLedger`; the
commit is the payment, and `LocksOK` gives its guard, that no payment is there yet.
For one request at a time, with `ReadsCurrent` (what was read still holds):
`SerialNeverOverSettled`, `SerialSettledIsAllocated`, `SerialSuggestionIsAccepted`, the action
property `SerialConfirmedIsFinal`, and `SerialLedgerCorrect`, the refinement for all calls.
`SerialTxnNotOverAllocated` says where the guarantee that `settlement_overdraw` sees broken does
hold: one request at a time, and paying by `allocate` only or by `confirmTransaction` only
(`OneWayToPay`). With `FundsCurrent` a transaction has paid nothing until it is confirmed, or has
left what `allocate` found. Drop either premise and TLC overdraws a transaction.

*StockPosting_proofs* is also about PurchaseOrders, which extends it. `IInv` = `TypeOK`,
`RequestOK`, `ReceiptsPlaced`, `WritesNonNegative`, `NeverNegative`. The point is
`WritesNonNegative`: a value that was checked on a stale balance is non-negative *as a value*, so
overwriting with it cannot go below zero, while receipts only add. `NonNegativeCorrect` follows for
any interleaving. `SplitCorrect`: without voids of receipts, physical = pending + posted,
lost updates included, because every value written is split (`WritesSplit`); all reduce to the four
actions that write a balance (`BalanceSteps`). `ViewsCorrect` and `OffersCorrect` compare what the
list, its tabs, the counters and the detail say; they need no history but the types and that what is
settled of an invoice is an amount (`SettledOK`). For one request at a time, with `ReadsCurrent` and
`DocumentsCurrent` (balances and documents are still as they were read): `SerialBalanceIsLedger`, `SerialStockIsDocuments` (an
invoice under way has posted exactly the lines it is past), `SerialInvoicesInForce`,
`SerialCancelledHasNoStock`, `SerialSplitCorrect` (with voids).

*CronRun_proofs.* The argument is who holds a job: `WorkersHoldJobs` (a busy worker holds an
active job that no other holds, and only registered workers listen), `JobsHaveAttempts` (a job
that is not over has an attempt left and was lost at most once), `WorkersHaveDone` (a worker that
is to mark SUCCESS has mailed, one that is to return has marked), `RunsAreNumbered` (the runs of
a day have a newest, which `beginRun` looks for). Neither `TypeOK` nor `SuccessMeansMailed` is
inductive without them. From this: `TypeCorrect`, `SuccessCorrect`, whatever fails or dies;
and `MailedOnceCorrect`, by `Unmailed`: while only the mail server and the scheduler fail, a job
that may be attempted has no mail behind it.

*BackgroundRuns_proofs.* The same for background runs, with `QueuedIsRequested` (a job is on the queue
only after its request is done with the run, so nobody else writes its row): `TypeCorrect`,
`RunsAreMarkedCorrect`, which counts a run whose marks were refused in its last attempt with those
that lost two workers. `CorrectionsSurviveCorrect` adds `FirstWrites`: before its first delivery
writes, a run has no preview to correct, and an editor at work has read every correction that was
saved, for one that is saved (answered while no other was under way) was read by all who began after it.

*ContractRenewal_proofs.* `TypeCorrect`, by `Reads` (what a request keeps for its write).
`RenewalFollowsCorrect`: an update holds the origin it has checked, a removal the row it deletes
(`Held`), no row is held twice (`Apart`), so no removal takes an origin away between its check and
its use; `ReadsFollow` says that what was read of dates still holds at the write, because ids are
not used again and, in its premise, dates are entered once. One at a time (`ReadsNow`):
`RenewedIsNotReportedCorrect` and `NoOverlapCorrect`.

*TermFlow_proofs* is about TermPricing too. Under every interleaving: `TypeInv`; `StageInv` (a run
keeps its stages and what a request has checked of them stays true, since stages are never taken
away); `PaymentInv` (a request has left SUBMITTED exactly if one batch has it); `LayerInv` (no
request holds a value for a layer above the quantity the layer began with), which gives the bounds
of `OldestFirst`. One user at a time, `SerialInv`: a run has the layer of its FINAL (`FinalLayers`),
layers below one that was used are empty (`UsedUp`), and what a consumption is about to take is a plan
that leaves nothing in an older layer (`PlanOf`), which is what `previewConsume` computes by one sum
over the older layers. `NextActionIsAcceptedCorrect` rests on no history but `StageInv` and the
types: it compares `getNextAction` with the workflow and with the guard of every handler, for each of
the ten needs. What it excepts is in its statement: an order without an estimate, and a payment that
waits in an unsent batch.

*Registers_proofs*, a section for each module, about the specification of that module.

* Price bulletins: `PriceTypeInv` and `PriceLong` under every interleaving; where imports come one by
  one, `PriceSerial`: bulletins in force end where the next begins (`Apart`) and what an import has
  read holds (`ReadsHold`). `KeepsScheduleCorrect` is the refinement: the commit of an import inserts
  into the schedule (`InsertedSchedule`), a void removes, and every other step stutters.
* Addresses and taxes: `TimelineInv`. Addresses have different first days and each ends the day before
  the next begins (`EndsBefore`), so `rebuildTimeline` after any change leaves them so.
* Entries in use: `UsesHold`, and a removal under way has found no use (`CatalogueKnows`).
* Customer codes, under every interleaving: `NumbersBounded`. Numbers of as many digits are
  ordered as texts as they are as numbers, so what follows the last text is free; after a hand-typed
  tail it is because that reads as a number no smaller than those before it, which is a premise. Powers of the
  base are left as they are, for the proof needs nothing of them but their order.
* Departments: `Forest` (live departments hang under live ones, and none is its own ancestor,
  `Grounded`). The walk of `wouldCreateCycle` is a recursive function; `Iterates` and `WalkIs` say what it
  computes up to the number of departments, and no climb is longer (`NoLongClimb`, by counting).
* Sessions: `Accounts`, `AllFollow` outside of the deletion of sessions, and `AccessKnows`: between the
  update of a role and that deletion only sessions of its users may differ from their rights.
* Bank statements: `StatementInv` under every interleaving (each readable row the import is past is stored, and
  what it counted is what it is past; `InsertedAreTaken`, for the first row that would not be, since
  `createMany` passes over rows that clash with one before them), and `CountInv` for an import
  alone of a statement that does not repeat itself: it inserts each row it chose (`AllInserted`).
* Logistics costs: `PapersInv`, under every interleaving of their calls: the total of a cost is that of
  the lines of one insertion (`CostTables`), for a call writes the total of what it inserts, even
  where an update that overlaps it leaves its lines beside them. Alone, an update has seen all lines
  when it deletes (`AllSeen`), so a cost has those of one insertion (`OneInsertion`), and is filed
  under the shipment the last form named, or under none. `FlattenIs` says that lines put one after another are the lines, by the smallest number
  of insertions for which they would not be.
* Price sheets and order forms: `SheetInv`, a sheet is what its form and the costs it took in make
  (`SheetOK`), whatever changed since. `PapersAddUpCorrect` then is arithmetic: the lines of a sheet share
  the amount by their quantities (`SumScale`), and the last line of a form takes what the others leave
  (`EstimateAddsUp`).

*Only model-checked*, and why:

* `JobsLeaveTheQueues` is liveness under fairness: it needs ENABLED.
* The rest of what the runs say of the whole (`registers`, `queues`): a theorem is about the
  specification of one module; the parts of a run share no state.

## 6. Not modelled

* The text of PDFs, spreadsheets and mails, files on Google Drive, money in words, rounding and
  VAT: formatting and input, with no state behind it. What is rounded to cents in the code is rounded
  down to a whole in TermPapers, so `PapersAddUp` says of an amount what holds where its price is exact.
* `assignCustomerToContract` and `attachContracts`, which nothing calls; `post` of a DRAFT invoice,
  which nothing inserts; the refusal to void a receipt of a posted pricing, whose rows nothing
  inserts.
* Products and registers like it, whose calls meet nowhere but at unique keys.
* Session expiry, cookies and passwords, which are the framework's.
* The zone of a date: days and moments are counted. `handleDaily` turns the local midnight into a
  UTC day, and bulletins entered by hand start at +07:00.

## 7. Plan

1. Days and zones as pure functions with a reference definition.
2. The composition of the parts of `registers` and `queues`: a theorem that a behaviour of the whole
   is one of each part, so that what is proved of the parts holds of the whole.
3. `createPaymentRequest` and `markSent` cut where they read, as the other calls of TermFlow are.
