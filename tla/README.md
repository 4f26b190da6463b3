# TLA+ verification of the finance operations agent

The program under `src/` takes invoices and remittances out of documents,
matches them against an ERP, and pays or applies them: automatically where
deterministic controls and the configuration permit it, after a human decision
otherwise. Language models only *ask* for actions; every action that moves money
is meant to be gated by code. This directory models that code in TLA+, checks the
models with TLC, and proves the most important results with TLAPS.

```
tlc -workers 2 -config ap_serial.cfg MCAPInvoice.tla
tlc -workers 2 -config ar_serial.cfg MCARRemittance.tla
tlc -workers 2 -config intake.cfg MCDocumentIntake.tla
tlc -workers 2 -config ap_durable.cfg MCAPDurable.tla
tlc -workers 2 -config ar_durable.cfg MCARDurable.tla
tlc -workers 2 -config ap_controls.cfg MCMatchRun.tla
tlapm APInvoiceProofs.tla
tlapm APDurableProofs.tla
tlapm ARRemittanceProofs.tla
tlapm ARSerialProofs.tla
tlapm ARDurableProofs.tla
tlapm DocumentIntakeProofs.tla
tlapm MatchRunProofs.tla
tlapm Sums.tla
```

`PROJECT.json` lists every run with its properties, the source lines each
definition translates, the hazards, the findings and the theorems.

## 1. The system

| Component (source) | State it keeps | Operations | What makes it correct |
|---|---|---|---|
| AP workflow (`app/workflow.py`) | `Invoice.status`; the rest through the repository | `ingest`, `match` (4 graph nodes), `approve`, `post` | nothing is paid without a passed match or a reviewer; a decision or a payment is final; a payment is recorded |
| AR workflow (`app/ar_workflow.py`) | `Remittance.status` and fields | `ingest`/`run` (4 nodes), `decide` (reject, resolve, correct, approve) | cash is applied under the fields that were matched; a failed application reaches a reviewer; closed stays closed |
| Mock ERP (`app/erp.py`, `app/mock_erp_api.py`) | journals by key and by invoice, open items, cash applications | `post_payment_journal`, `apply_cash`, look-ups; in process, or behind HTTP | idempotent posting; an item is closed once, for its balance |
| Repository (`app/repository.py`) | invoices, matches, journals, remittances, results; optionally PostgreSQL behind the same objects | save/get/list, duplicate searches | look-ups see every saved document; what is saved in two steps can be reconciled |
| Matching rules (`app/matching.py`, `app/ar_matching.py`) | none | `match_invoice`, `match_remittance` | matched iff no blocking variance |
| Orchestrator (`app/orchestrator.py`) | review queue | classify, dispatch, review | an uncertain or contested document is reviewed, not dispatched |
| Audit ledger (`app/audit.py`) | events in memory, `audit_events`, the result of the check at startup | `append`, `verify`, `integrity_status`, reload | its reports are true of the chain and the table; what a caller was told is in it |
| Policy retrieval (`app/context.py`) | policy corpus, index | threshold, rank fusion, one fallback | a qualified policy is never displaced; fails closed without evidence |
| Agent runtime (`app/agent_runtime.py`) | none that decides anything | `decide`, with one repair | the answer is one of the allowed actions and cites supplied policies, or an error |
| API (`app/api.py`), mailbox (`app/email_ingestion.py`) | none of their own | endpoints, mailbox poll | a request gets an answer, a poll takes every message |
| Extraction, document processing, observability, UI, evaluation, deployment | -- | pure functions of text, I/O, presentation | out of scope |

**How they interact.** FastAPI runs `/match-po`, `/post-payment-journal`,
`/exceptions/decision`, `/mailbox/poll`, `/ingest-remittance` and
`/remittance-exceptions/decision` in a thread pool. All handlers share one
`Invoice` or `Remittance` object per id: the repository returns the object, not a
copy, and the PostgreSQL repository keeps the same in-memory cache in front of
its tables. A handler writes `status` in place, then saves. No lock spans two
steps of a handler, and none protects the ERP's look-up-then-store; the mock ERP
service is itself a thread pool. With `ERP_MODE=http` a call may fail before or
after the ERP did its work, or time out while the ERP is still working.

**The hard behaviours** are therefore: guards that are read once and relied on
several agent calls later; two handlers on the same document; posting calls that
are retried, late or half done; steps that fail in the middle of a handler and
leave what was written; idempotency keys that outlive the fields they were first
used with; documents that arrive twice; and, with PostgreSQL, a cache that is
written before its table, one object per thread after a restart, writes that fail
or commit out of order, and a chain that must be in the order of its rows.
`PROJECT.json` lists these with their
lines ("hazards") and the properties aimed at each.

## 2. Modules

### ERPPayments -- the ERP's payment journals

`postedByKey` and `postedByInvoice` are the two dictionaries of `MockERP`; `minted`
counts the journals ever created for an invoice, because a second one overwrites
the first in the dictionaries. A posting call is a record in `calls` that goes
from *sent* through *create* to *answered* or *conflict*: `ErpMiss` is the
look-up that finds nothing and `ErpCreate` the later store, with every
other thread free to run between them. `Accepts` is the revalidation of the HTTP
endpoint; the in-process ERP does none. A call whose caller gave up (`live =
FALSE`) still runs to its end.

### PaymentControl -- what accounts payable promises

The abstract specification: evidence about an invoice only accumulates (`Learn`),
and `Pay` needs `Authorised`, a clean match where the configuration permits it
or a reviewer, and `NoUnreviewedCopy`: of two copies of a document the second
is paid only if a reviewer approved one of them. It knows no threads, calls or
statuses. APInvoice and APDurable each have an instance `Control` of it with the
mapping *gated* = `requireApproval`, *evidence* = `history`, *paid* = the
invoices that ever got a journal, and `PaymentIsControlled` says that they
implement it.

### APInvoice -- the AP workflow

| Model | Code |
|---|---|
| `Ingest` | `InvoiceWorkflow.ingest` |
| `StartMatch`, `RetrievePolicy`, `RunMatch`, `SaveMatch`, `SetMatchStatus`, `EvaluateMatch`, `Finalize`, `MatchFails` | the endpoint and status guard of `match`, then its nodes; `MatchFails` is an exception out of an agent, policy or ERP look-up, which leaves what has been written |
| `StartPost`, `ReplayJournal`/`NoKnownJournal`, `PostGuard`, `SendJournal`, `ReceiveJournal`/`ReceiveConflict`/`CallLost`/`CallTimesOut`, `SetPosted`, `SaveJournal` | `post`, entered by a client with a key of its own or by `match` with `auto:{id}` |
| `StartDecision`, `RecordDecision` | the review guard, then `approve`'s write |
| `status`, `latest`, `journals` | `Invoice.status`, the `matched` flag of the latest match, the repository's journals |
| `req[r]` | a worker thread: its program counter and its local variables |
| `history` | for the properties only: passed a match, approved, rejected |

A step is a stretch of a handler between two accesses to shared state. An
invoice's content is the set `Facts[i]` of variances it has whatever else is in
the system; the goods receipt is compared only when the request asks for it, and
the duplicate variance depends on the other invoices (`Duplicate`). The agent's
decision is any action its stage allows. One stretch has two reads: `PostGuard` takes
`latest_match` (`workflow.py:405`) and the status (408-413) at once. What may come between
them may as well come between the guard and the call to the ERP, which is a step of its own.

### ERPCash -- the ERP's cash applications

`CashReplay`, `CashRefuse`, `CashCheck`, `CashClose` and `CashFile` are the
stretches of `apply_cash`: look-up, revalidation, closing the items, filing the
application. The workflow always uses the key `auto:{remittance_id}`, so the
ERP's two dictionaries always agree and one, `cashByRemittance`, stands for both.
`Applicable` is what `match_remittance` asks of the open items and `apply_cash`
asks again; it sums over the *sequence* of references as the code does.

### CashControl -- what accounts receivable promises

The abstract specification for one request at a time: `Change`, an arrival or a
correction, takes all evidence about a remittance away; `Learn` adds some; `Apply`
is one step, of a remittance that is authorised for the fields it has, once, and
of items that are open and come to its amount. ARRemittance has an instance
`Control` of it: *fields* = `content`, *evidence* = `current`, *open* = the ERP's
items, and a remittance is *applied* from the moment its items are closed, although
the ERP files the application, and the workflow hears of it, later. It says
nothing of duplicates: with lost answers a copy can be applied
(`DuplicateAppliedOnce` is stated for the in-process ERP).

### ARRemittance -- the AR workflow

`Ingest`, `RetrievePolicy`, `RunMatch`, `SaveMatch`, `EvaluateMatch`, `Finalize`
and `RunFails` are `ingest` and `run`; `SendCash`, `ReceiveCash`, `CashLost`,
`CashTimesOut` and `SetPosted` are `_graph_apply`, entered by `run` or by a
reviewer; `StartDecision`, `Close`, `Correct` and `ApproveApply` are `decide`.
`content[m]` is the remittance's fields, which a correction rewrites in place and
`SendCash` reads again when the call goes out; `result[m]` is the saved match.
`current` and `history` are for the properties only: the evidence (a passed
match, an approval) for the present fields, and for any fields there ever were.

A correction writes its fields one by one and the status last; the model takes
this, and a status write with the save behind it, as one step. Two requests
that overlap inside that stretch are not distinguished.

### DocumentIntake -- mailbox, uploads and the orchestrator

| Model | Code |
|---|---|
| `StartPoll`, `FetchedBy`, `NextMessage`, `NextAttachment`, `EndPoll` | `poll_mailbox` and `fetch_unread`: the messages, the attachments of each, the answer; nothing marks a message as read, so `MarkRead` is the owner's |
| `StartUpload`, `StartRemittance` | `ingest_invoice` and `ingest_document`; `ingest_remittance`, which brings fields instead of a file |
| `Classify`, `ExtractionFails`, `Save`, `File` | the nodes of the orchestrator: classification, extraction, dispatch, review |
| `MatchInvoice`, `MatchRefused`, `StartMatch`, `RejectInvoice` | what APInvoice models in full, reduced to whether a match passes and who was rejected |
| `SearchRemittance`, `Conclude` | the run of a remittance in its two halves: what the match finds, and the save of it (`_graph_match`, 178-186 and 187-193) |
| `StartDecision`, `Reject`, `Settle`, `Correct` | `decide` on a remittance: the status check (363), then one of the writes; a correction gives the remittance another `key` and runs it again |
| `Fails` | any exception but a `ValueError`: the request ends, a poll with all it had still to fetch |
| `entities`, `filed` | the saved documents, with the key (vendor and number, customer and reference) each has now; those with a review record or a refusal |
| `outcomes` | the results an invoice's matches have had, or the one that is saved of a remittance |
| `repeats`, `overtaken` | for the properties only: ids saved when a copy existed, and remittances a decision on which was written while another thread decided or ran them |

The two upload endpoints are `async` and do all their work in the event loop, so
no other request is accepted while one runs (`EventLoopFree`); polls, `/match-po`,
`/ingest-remittance` and decisions run in the thread pool. `RejectInvoice` and
`StartDecision` may come at any time after a first match, which is more often than
the statuses of the workflows allow. An invoice's save, and its duplicate search with the match
behind it, are one step each: what their overlap does is
`DuplicateNeedsReviewer` in APInvoice. A remittance's search and the save of what it found
are two, and so are a decision's check and its write, because
`OnePassesPerReference` is about what comes in between.

### APDurable -- the AP workflow over PostgreSQL

The same handlers with the repository opened up. An `Invoice` object is no longer
the invoice: `object[i][m]` is the object that *m* made, the upload or a thread
that loaded the row, `cache[i]` names the one in memory, and `invoiceRow`,
`matchRow` and `journalRows` are the tables.

| Model | Code |
|---|---|
| `Enter`, `SelectInvoice`, `CacheInvoice` | `get_invoice`: cached, or selected and then cached |
| `WriteStatus`, `Serialise`, `Commit` | `invoice.status = ...; save_invoice`: memory, the SQL parameters (built from the object once there is a connection), the row |
| `SaveMatch`/`StoreMatch`, `SaveJournal`/`StoreJournal` | the same for matches and journals, with the foreign key and the `ON CONFLICT` clauses |
| `ReplayJournal`, `LatestMatch`, `CacheMatch`, `NoMatch` | look-ups that fall through to the tables and cache what they find |
| `ReadFails`, `WriteFails` | a SELECT fails; a write fails, with the row written or not |
| `Restart` | a new process: tables and ERP stay, memory and callers go |

The steps up to the match (policy, agent, PO look-up) are one here. `history`,
`answered` and `disturbed` are for the properties only: what speaks for
a payment, which decisions were confirmed to their caller, and what came
between an invoice and its rows.

### AuditLedger and ARDurable -- the ledger, and remittances over PostgreSQL

AuditLedger is the chain in memory, its table, the result of the check at
startup and the lock, which is held from the reading of the last event to the end
of the sink's INSERT. An event's id stands for its hash; that an event read
back from its JSONB row hashes to the same value is assumed. ARDurable composes it
with the remittances: `memory`, the `payload` column, and the columns
`customer_id` and `reference` (one value here), which the upsert does not
update. `Ingest`, `SearchMemory`, `SearchTable`, `SaveMatch`, `RouteToApply`/
`RouteToReview`/`RouteNowhere`, `Apply`, `ApplyRefused`, `ApplyFails`, `Close`, `Correct` and
`Approve` are the handlers of ARRemittance with every save (`Commit`) and
every event (`Audit`, `Store`) a step of its own; `CommitFails` and `StoreFails`
are their errors. The ERP's part is a choice, because ARRemittance has it: it applies
the cash, refuses (the remittance is saved as an exception, and a review goes on to its
`human_` event and its answer), or fails (nothing is saved, and after the event of
the failure the error is raised through the review).
Requests for one remittance do not overlap here, those for different ones do.

### APMatching and MatchRun -- a match from within

APMatching is `match_invoice`: the set of its variances as a function of the
invoice, the purchase order, the receipt flag and the duplicate flag. Money is
in tenths of a cent, so that `_money` has something to round; percentages are
compared by cross-multiplication. MatchRun composes it with what surrounds it in
`InvoiceWorkflow.match`: `ChatFails`, `Malformed` and `Decide` are
`OllamaAgentRuntime.decide` with its one repair, its allow-list and its filter
on citations; `Retrieve`, `FallBack` and `RetrievalFails` are
`retrieve_agent_query` over any semantic and lexical ranking, fused by
reciprocal ranks as fractions; `Match` and `Route` end the run. `Fuse` puts at each
place the policy of that `Rank`, which is the number of policies that precede it
(`FusionSorts` proves that this is the code's stable sort). It opens
up the steps that APInvoice takes as `RetrievePolicy`, `RunMatch` and
`EvaluateMatch`.

### MCAPInvoice, MCARRemittance, MCDocumentIntake, MCAPDurable, MCARDurable, MCMatchRun

Small instances: model values, documents, keys, configurations, inputs. Each cfg
picks among them.

### The proof modules

| Module | Proves about | What |
|---|---|---|
| APInvoiceProofs | APInvoice | types, authority of payments, duplicates, the refinement of PaymentControl; approved, posted and rejected invoices, in every interleaving and for one request at a time |
| APDurableProofs | APDurable | types, the refinement of PaymentControl, what tables and memory hold |
| ARRemittanceProofs | ARRemittance | types, evidence of applications, posted remittances: in every interleaving |
| ARSerialProofs | ARRemittance | items, fields, duplicates, finality, the refinement of CashControl, the balance of the books: for one request at a time |
| ARDurableProofs | AuditLedger, ARDurable | types, the integrity reports, audited reviews, the duplicate search |
| DocumentIntakeProofs | DocumentIntake | types, polls, repeated documents |
| MatchRunProofs | APMatching, MatchRun | types, no run without evidence, rank fusion, what a match bounds, the order of lines |
| Sums | -- | induction over finite sets, and sums, for MatchRunProofs and ARSerialProofs |

## 3. The runs

The configurations are `http` (the ERP is a service), `autoPost` and
`requireApproval`; *default* is in process, auto-posting, no approval required.

| Run | Instance | Shows |
|---|---|---|
| `ap_serial` | 1 thread, 3 invoices (two of one document; a missing receipt, no PO, a PO that disagrees), all 8 configurations, lost answers | `TypeOK`; one journal per invoice; a rejected invoice is unpaid; decisions and payments are final; a journal is created only for a payable invoice |
| `ap_concurrent` | 2 threads, 2 invoices of one document, default | what survives every interleaving: nothing is paid without authority, the duplicate needs a reviewer, POSTED invoices are paid and replayable, approved ones can be posted; and APInvoice implements PaymentControl |
| `ap_fair` | 2 threads, 1 invoice, default and the service with approval required, a lost and a timed-out call, fairness | requests end; a created journal reaches the repository |
| `ap_durable` | 2 threads, 1 invoice, the service with and without required approval, 2 troubles | `TypeOK`; a confirmed decision is stored; memory is what the tables are; a POSTED row has its journal; APDurable implements PaymentControl |
| `ar_serial` | 1 thread, 2 remittances over 2 open items, 4 contents (a duplicate pair, one that pays both items, a partial one), all configurations, fairness | `TypeOK`; the books balance; a document is applied once; POSTED says what was applied; closed is closed; ARRemittance implements CashControl, so corrections are matched again; an application is seen by the workflow |
| `ar_concurrent` | 2 threads, 1 remittance, 2 contents (one repeats an item), all configurations, lost and timed-out calls | cash is applied only on evidence; POSTED only if applied |
| `ar_durable` | 2 threads, 2 remittances, 2 references, 3 requests, 2 troubles | `TypeOK`; the two integrity reports are true; a confirmed review is audited; the duplicate search outlives a restart |
| `ap_controls` | one run, 3 policies with every ranking, every decision, all settings, some 2000 inputs: one and two lines (exact, partial, over, at and above a tolerance, rounded, unmapped), charges, subtotals, totals that are off, foreign vendor or currency, no PO | `TypeOK`; fusion keeps qualified policies first; nothing runs or is cited without evidence; a match bounds what is paid; the order of lines does not matter |
| `intake` | 2 threads, a mailbox with an invoice beside a malformed file and an unclassified copy of the invoice, a remittance sent as a file or as fields, a correction, 2 ids, uploads with a hint (polls have none) | `TypeOK`; a poll accounts for every attachment; a repeated invoice never passes a match; of two remittances with one reference at most one has passed, unless one was rejected or overtaken |
| `ap_stale_match`, `ap_retry_race`, `ap_split_line` | the smallest instance | the findings of section 4 |

**Two kinds of run.** One thread that works through one request at a time says
what the sequential code promises for every order of requests, failures and lost
answers. Two threads say what is left of it under concurrency; the
promises that do not survive are findings, and the ones that do are in the
concurrent runs.

**Bounds.** Two threads suffice for an interleaving to break a pair of reads and
writes, and three would add no new pair. Two documents suffice for the duplicate
search and two remittances for the competition for an item; the third invoice of
`ap_serial` adds the PO that the ERP revalidates. A client has one key per
invoice beside the automatic one, which makes every replay path (by key, by
invoice, local) occur. `MaxOrphans` bounds the calls that are still in the ERP
after their caller gave up: one, which is enough for a retry to overtake the
call it retries. Amounts are chosen so that a partial payment and the sum of
two items occur. `MaxTroubles` bounds, together, the restarts, the failed writes and
in `ap_durable` also the timed-out calls and the requests that overlap another:
with two there is a failure and a crash behind it, two crashes, or a crash whose
survivors race to reload. `ap_durable` has one invoice because its hazards are
between the copies of one; the duplicate search is in the other runs.
`MaxRequests` bounds the requests in `ar_durable`: three make an
upload, its copy and a review. The purchase order of `ap_controls` has a line
received in full, one in part and one not at all, and prices that round
both ways. In `intake`, `Ids` bounds the documents ever saved. Both its properties about
copies are about pairs, so two ids suffice: a first copy, rejected or never matched, and a
second; two remittances that arrive with one reference, or with two and are corrected to one,
while the other thread relies on what is changed. Two ids still admit a poll of both
messages, two polls of one message, one after the other or together, and a poll beside an upload.
Every other variable is finite by itself: `minted` and
`timesClosed` grow only with a call, and a repeated call is answered from the
dictionaries.

**Symmetry.** The threads are interchangeable, and symmetry is declared only in
runs that check invariants.

**Fairness.** `Fairness` is weak fairness of each thread's handler steps and of
the ERP's work on each thread's call. The code justifies it: the agent, ERP and
database waits all have timeouts, and the pool schedules every running thread.
Clients, reviewers and the mailbox owe nothing, so no property assumes that
a request arrives. Under these assumptions `RequestsFinish` and `PaidIsRecorded`
hold, and `AppliedIsPosted` for one request at a time. The durable modules have
no fairness: a process may stay down. `DocumentIntake` has no
fairness: a poll that fails at an attachment starves those behind it for as long
as it fails there, so no liveness is claimed of it.

**Deadlock** is checked for `ap_serial`, `ap_concurrent` and `ap_fair`, where a
client can always ask for another match, post or decision (a post of a posted
invoice is answered from the repository), and for `ap_controls`, where the end of
the run is the explicit step `Terminated`. It is not checked for AR: the system
really stops there. A remittance that has been applied, closed, or whose first run
failed is open to no request, and when all are, nothing more happens. Nor is it
checked for `ap_durable`, where the one upload may be lost in a failed write and a
restart, and for `ar_durable`, where the requests are used up.

## 4. Where the code and its documents disagree

Three are runs that stop at a counterexample.

1. **A settled invoice can be matched back** (`ap_stale_match`).
   `docs/architecture.md:45` says a posted, rejected, resolved or approved
   invoice cannot be re-matched into an earlier state. `match` tests the status
   once, at `workflow.py:339`; its writes come two agent calls later.
   Without overlap the promise holds (`SettledIsFinal` in `ap_serial`).
2. **A retried post can pay twice** (`ap_retry_race`). `docs/architecture.md:47`
   calls retries with the same key safe. The ERP looks a key up and stores the
   journal in two steps; a call that timed out may be between them. In the run the
   only posts are a client's, all under its one key: the first times out in the
   client, the second overtakes it, and both create a journal.
3. **A split line escapes the receipt** (`ap_split_line`).
   `docs/security-and-controls.md:12` says that three-way matching keeps the
   invoiced quantity within the goods received for the current invoice.
   `match_invoice` compares line by line (`matching.py:177-189`), and two lines
   may name one PO line. For invoices that name each line once the promise holds,
   with a bound on the amount as well (`PaysWithinOrder` in `ap_controls`). How far a
   split can go is a theorem (`SplitInvoicePaysPerLine`): a matched invoice charges
   for each of its lines at most the ordered line it names.

Others are read off the models, at the properties that are stated around them:

* `CreatedOnlyWhenPostable` holds for one request at a time. With two, a post that
  passed its guard while `match` had the invoice MATCHED creates its journal after
  the invoice went to AWAITING_APPROVAL (`workflow.py:408`, against
  `docs/security-and-controls.md:13`). What holds in every interleaving is
  `PaidOnlyIfAuthorised`.
* `CashIsControlled` likewise: a correction that arrives while an approved
  application is on its way goes out with it (`ar_workflow.py:388`, 269).
* When the answer to an automatic application is lost, the remittance stays
  MATCHED, which neither the exception listing of `README.md:215` nor `decide`
  accepts (`ar_workflow.py:277-290`).
* A reference that a remittance repeats counts twice in both sums and is closed once
  (`ar_matching.py:42-71`, `erp.py:94-111`): more is applied than the item was worth.
  `CashBalances` is about applications that repeat none.
* `decide` tests the status once (`ar_workflow.py:363`) and nothing keeps a second
  reviewer or a run out: an approval that was on its way undoes a rejection,
  though a copy has passed because of it, and a run saves under a corrected reference what it
  found for the old one. `OnePassesPerReference` excepts such remittances
  (`overtaken`), and without the exception TLC violates it.
* A corrected remittance keeps its old reference in the columns that the duplicate
  search compares (`repository.py:531`): after a restart its duplicates are missed.
  `DuplicateOutlivesRestart` excepts it.
* A lost audit event breaks the stored chain for good, and the process reports it
  only after a restart: `IntegrityReportsAreTrue` is stated until then.
* With fewer qualified policies than `top_k`, one below
  `RAG_SIMILARITY_THRESHOLD` fills the place (`context.py:103-112`).
  `QualifiedFirst` says that it comes last.
* Two things that the configuration would allow and the repository does not do. The
  settings bound the limits from below only (`ge=0`, `config.py`), and `_pct` and
  `_ratio_pct` take 100 percent for any amount against a base of zero
  (`matching.py:18-27`): with a limit of 100 or more, an order worth nothing bounds
  no amount. And reciprocal ranks with a constant of 60 let the
  first of one ranking outweigh the last of both from 63 policies on
  (`context.py:111`); there are seven.

Some properties are stated for the in-process ERP only (`~settings.http`):
`RejectedIsUnpaid`, `PostedAsApplied`, `DuplicateAppliedOnce`, `PaidIsRecorded`,
`AppliedIsPosted`. Over HTTP a lost answer leaves the ERP ahead of the workflow,
and the code has no reconciliation: the next retry, if there is one, is what
brings them together. `PostedIsPaid` needs clients that do not reuse a key for a
second invoice (`post` trusts whatever journal a key returns), which
`ClientKeys` states.

## 5. Proofs

Every safety property and every action property of the passing runs has a
theorem. A theorem holds for any invoices, remittances,
documents, items, keys, threads, requests and configurations, and any number of
failures; a run shows the same on a small instance. Where a property is stated
for one request at a time or for private keys, so is the theorem.

**What is assumed.** The named assumptions of the modules (`ErpConstants`,
`ApConstants`, `CashConstants`, `ArConstants`, `IntakeConstants` and their like):
the constants are typed, and there is a document to speak of. Nothing is assumed
about the number of threads, and finiteness only of the mailbox and of the lines of
a purchase order, which are lists in the code. `RunConstants` types the inputs of a
match: amounts and quantities are naturals, because extraction refuses an invoice
with negative ones, and an invoice has any number of lines. Four hypotheses
are stated in the theorems that need them:

* `PrivateKeys`: no idempotency key is used for two invoices. An `auto:` key contains
  the invoice's id, so this is about clients only. Without it
  the ERP may answer with the other invoice's journal, which `post` trusts: the
  invoice is POSTED, and the journal that is stored is not its own.
  Every run's keys satisfy it.
* `OneAtATime`: one thread, and no call outlives its caller (`MaxOrphans = 0`). It is
  the instance of `ap_serial` and `ar_serial`. What is proved from it is what the
  handlers promise in sequence; with two threads those properties fail, and
  sections 3 and 4 say so.
* `LimitsBelowAll`: the tolerances on the quantity and the total and the limits of tax
  and freight are below 100 percent. The defaults are 0, 2, 25 and 10. Section 4 says
  what happens above.
* `MostPolicies`: the corpus has at most 62 policies. What must hold is that a policy
  which is in both rankings outweighs any that is in one,
  1/(59+n) + 1/(60+n) > 1/61, and that is so up to n = 62.

### APInvoice

* `TypeCorrect`: `[]TypeOK`. The strengthening is `JournalAtHand`: a
  thread about to save a journal, and a call that has been answered, hold one.
* `PaymentNeedsAuthority`: `[]PaidOnlyIfAuthorised`. The property is not
  inductive: what `post` checked may be stale when the ERP acts. What
  is inductive is that evidence only accumulates (`HistoryGrows`), so it is
  carried along the path of a payment: a saved match, an APPROVED status, a thread
  past the guard, a call in the ERP and a journal each imply authority
  (`AuthorityInv`).
* `DuplicatesNeedReviewer`: `[]DuplicateNeedsReviewer`. `DuplicateInv`
  says that of the invoices of one document at most one has passed, or
  is about to pass, a clean match; it rests on an invoice
  being saved before any match of it starts and never being removed. With
  `PaymentNeedsAuthority`, a second payment can only come from a reviewer.
* `PaymentRefines`: the refinement of PaymentControl. With these invariants each
  step either pays one invoice and adds no evidence, or adds evidence about one
  invoice and pays none, or changes neither (`StepLearnsOrPays`).
* `ApprovedCanBePosted`: `[]ApprovedIsPostable`. The strengthening is
  `ReviewedIsMatched`: no status that a reviewer sees or sets, and no thread about
  to write one, comes before a saved match.
* `PostedHasBeenPaid`, `PostedCanBeReplayed` (`PrivateKeys`): `CallsAreAwaited` (a
  thread waits for one call, its own), then what a key, an invoice, a call and a
  thread lead to is a journal of the invoice in question (`KeysAreOwn`,
  `ErpJournalsAreOwn`, `HeldJournalIsOwn`).
* `OneJournalPerInvoice`, `RejectedHasNotBeenPaid`, `SettledStaysSettled`,
  `CreatedOnlyForPostable` (`OneAtATime`): `SerialInv`. What a handler found in the
  status is still there when it acts on it (`ThreadsSeeStatus`); a call is awaited
  until it is answered (`CallsAreLive`); a journal is filed under its invoice, and
  a call about to create one has found none (`JournalsAreFiled`); in process, a
  paid invoice is POSTED or the thread that is to mark it is on its way
  (`PaidIsPosted`).

### APDurable

* `TypeCorrect`: `[]TypeOK`, with what each thread holds at each step of a load or
  a save (`Held`: which object, which record, what comes after).
* `PaymentRefines`: `EvidenceInv` is `AuthorityInv` over every copy. Whatever
  says APPROVED or holds a clean match is evidenced: each object that any
  process made of an invoice, each row, each serialised parameter and each cached
  match. So it does not matter which copy a thread trusts, nor in which order
  writes commit.
* `DecisionsAreStored`: `[]DecisionIsStored`. `AloneInv`: unless requests
  overlapped, one thread works on an invoice. `DecisionInv` then follows
  the decision from the object through the parameters into the row, which no later
  write of another request can undo.
* `PostedHaveJournals`, `CachesAreCurrent` (`PrivateKeys`): `KeyedInv` says whose
  journal every call, table row and thread holds. `PostedInv`: wherever
  POSTED is, the journal is stored, or the thread that writes it is still to save
  it. `SyncInv` says, for every step of a handler, how far the status, the match and
  the journal in memory are ahead of the rows; with no handler at work they are
  equal.

TLC checked `KeyedInv`, `PostedInv` and `SyncInv` on two invoices as well, where
keys could be confused; `ap_durable` has one.

### ARRemittance

* `TypeCorrect`: `[]TypeOK`.
* `AppliedHasEvidence`: `[]AppliedNeedsEvidence` by `EvidenceInv`: what a
  thread or a saved result remembers of a match has happened (`MatchIsRemembered`),
  and what is sent has been allowed (`SentIsAllowed`).
* `PostedHasApplication`: `[]PostedIsApplied` by `PostedInv`: an answer that names an
  application is the answer to a call for a remittance that has been applied.
* One request at a time: `SettledStaysSettled` (`ThreadInv`), `ItemsCloseOnce`
  (`ItemsInv`: an open item has not been closed, and a call about to close items found
  them open), `PostedSaysApplied` and `DocumentsApplyOnce` (`AppliedIsSeen`: what is
  applied is posted or on its way; `ClearedOnce`: of two copies at most one has
  passed).
* `ApplicationRefines` (`OneAtATime`): the refinement of CashControl. `CashClose` is the
  abstract `Apply` (`ClosingApplies`); the filing and the answer do not show
  (`ErpStutters`). `ApplicationInv` carries what the ERP checked to where it closes
  the items: they are as the check found them, and the remittance has no
  application yet. By `CurrentInv` the match that a thread, a
  saved result or a call relies on is of the present fields, so the call's are
  authorised. Nothing speaks for a remittance that has not arrived, so that its
  arrival is a `Change`.

* `BooksBalance` (`OneAtATime`): `[]CashBalances`. What a customer has paid in a currency
  is what the closed items on this account were worth. The argument is about
  CashControl alone, and the refinement carries it over: only `Apply` changes either
  side, and with no reference repeated what it expects is the sum over the *set* of its
  items (`ExpectedIsWorth`), none of which was closed before. `BooksInv` adds what sums
  need: finitely many applications and closed items.

### AuditLedger and ARDurable

* `TypeCorrect`; its invariant `Typed` has the ledger's in it, since an event is
  appended to what is there.
* `IntegrityReported`: `[]IntegrityReportsAreTrue` by `LedgerInv`. Between events the
  table is the chain in memory (`ChainInv`); while one is filed it is the last in
  memory and the next in the table, and its thread has the lock (`FilingInv`).
* `ReviewsAreAudited`: a status that only a review sets has its event in the table,
  or a thread has it still to append or store (`ClosedInv`, `AnswerInv`).
* `DuplicatesOutliveRestart`: memory and table hold one record each and agree on the
  reference until a correction (`RowInv`); two threads between their searches do not
  look for one reference, and what the first search missed is left for the second
  (`DupInv`).

### DocumentIntake

* `TypeCorrect`, with `ExtractsKnown`: an unclassified document is never saved.
* `PollsAccount`: `[]PollAccounts` by `FetchInv`: what a poll has fetched has a trace,
  or is in its hands, its queue or its messages still to come.
* `RepeatsNeverClear`: `RecordInv`, and neither documents nor the keys of invoices are
  ever removed or changed, so that the search that found another copy always will.
* `OnePasses`: `[]OnePassesPerReference`. That the result of a remittance is true of its
  present key is not inductive: a thread may have found that it passes and not have saved it. So
  `VouchInv` says it of every remittance that is *vouched for*, by its saved result or by
  a thread about to save one. A search keeps it, since it passes only when all others of the
  key are rejected; a save keeps it, since it adds nothing; a correction takes the old result
  away; and no step takes a rejection back. The last two need `AloneInv`: unless a remittance
  is overtaken, who decides or runs it finds it unrejected, and who runs it is alone with
  it and finds no result (`HandlersStep` says who can come to handle one).

### MatchRun

* `RunsAreGoverned`: `[]NeverUngoverned` by `GovernedInv`: the match runs in the
  second stage only, which is entered with evidence.
* `RunIsTyped`: `[]TypeOK`. What needs an argument is that `Fuse` has something to
  choose. Comparing fractions by cross-multiplication is transitive
  (`FractionsAreOrdered`), so `Precedes` is a strict total order (`PrecedesIsOrder`);
  ranks are then different numbers below the number of policies, so every such
  number is a rank (`RankOrders`, `FuseSorts`). `FusionSorts` says what this
  amounts to: the first places of a stable sort.
* `FusionPutsQualifiedFirst` (`MostPolicies`): `[]QualifiedFirst`. A policy in both
  rankings precedes every policy in one (`QualifiedPrecede`), so whatever is above an
  unqualified policy includes all that qualify.
* `LineOrderNeverMatters`: `[]LineOrderIrrelevant`. `ResultInv` says that the saved
  result is that of the saved input, which leaves a statement about `match_invoice`:
  reversing the lines permutes them (`FlipPermutes`), a sum does not depend on the
  order of its terms (`SumOverReindexed`), and no other variance asks for a place when
  each line names its PO line (`FlippedVariances`).
* `MatchedInvoicePaysWithinOrder` (`LimitsBelowAll`): `[]PaysWithinOrder`, a chain of
  bounds. No INVOICE_TOTAL_MISMATCH, TAX_VARIANCE or FREIGHT_VARIANCE: the total is at most the subtotal,
  tax and freight, and what rounding to cents forgives (`MoneyIsClose`,
  `TotalFollowsSubtotal`). No TOTAL_VARIANCE: the subtotal is within its tolerance of
  what the lines should cost (`SubtotalFollowsGoods`). No QUANTITY_VARIANCE: each
  line should cost no more than the line it names with the tolerance
  (`LineGoodsWithinOrder`); and with no PO line named twice their sum is at most that
  of the ordered lines (`GoodsWithinOrder`). No RECEIPT_SHORTFALL: what was received
  bounds the quantities (`QuantityWithinReceived`). `SplitInvoicePaysPerLine` is the same chain
  without that last step.

### Sums

Sums and ranks need induction, and the library's induction rules are out of reach.
`NatSetInduction` and `FiniteSetInduction` state it of a *set* of numbers or of
subsets instead of a predicate, by the well-foundedness of `<` on the naturals, and the
lemmas on `SumOver` (what it is over a set with an element removed, renamed, split
in two, or bounded term by term) follow from them. `SumTableExists` is the one that
says that the recursive function behind a fold exists.

### Only model-checked

* Liveness: `RequestsFinish`, `PaidIsRecorded`, `AppliedIsPosted`, and with them
  the fairness assumptions. The provers have neither fairness nor ENABLED.
* The findings of section 4: a counterexample is a run.

## 6. What is not modelled

* Text: document processing, extraction and its validation, prompts, the Ollama
  transport, embeddings (any ranking), the wording and order of variances,
  audit payloads. These are functions of text, or I/O.
* Records that no handler decides by: workflow-run rows, source-document rows, agent
  explanations, traces. A failing write of one ends the handler as the failing
  writes that are modelled do.
* Over PostgreSQL the duplicate search of AP: it reads the rows as
  the cached search reads the objects, and nothing removes an invoice. That of AR,
  which can miss one, is in ARDurable.
* A dictionary that changes while another thread iterates over it raises an error;
  only its effect, a failed request, is modelled.
* `match_invoice`'s first checks against the supported ranges, which extraction has
  made before, and the recursion limit of the agent graph, which the four nodes of
  a run do not reach at its default.
* User interface, observability, evaluation, fixtures, scripts, deployment: they
  change no state of the workflows.

## 7. Plan

1. ARDurable as a refinement too: its matches and approvals as the evidence of an
   abstract review that survives restarts.
2. What CashControl keeps of its promises when requests overlap: the evidence
   (`AppliedNeedsEvidence` has it), but neither the items nor the fields.
