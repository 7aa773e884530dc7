# A verification of nomiqa

nomiqa is a platform of digital business cards: a NestJS API (`src/apps/api`), a BullMQ worker
(`src/apps/worker`), a Next.js front end (`src/apps/web`) and shared packages over PostgreSQL,
Redis, object storage, a payment gateway, an identity provider and customers' own servers. This
directory holds TLA+ models of the parts whose difficulty is not in one request but in several that
overlap, fail half-way or are repeated: where money changes hands, where one system has to hear of
what another did, where two people write to one thing, and where something must be gone for good.
TLC checks them on small instances; TLAPS checks proofs for every instance.

`PROJECT.json` is the index: components, runs, the source lines of every definition (`map`), the
hazards the properties are aimed at, one mutant for each property, findings and theorems. Paths
below are under `src/`.

## 1. Inventory

### Billing: invoices and payments - modelled

`apps/api/src/billing/invoices.service.ts`, the two routes that confirm (`billing.controller.ts`,
`billing-webhook.controller.ts`), the gateway adapter (`providers/thawani.provider.ts`), the hourly
job (`apps/worker/src/billing/cycle-handler.ts`, `handleStalePayments`).

- *State*: invoices (status, totals, amount paid), payments (status, session, expiry), and outside
  the database the gateway's own sessions.
- *Operations*: issue, createCheckout, openSession, confirmPayment, markInvoicePaid, close stale
  payments.
- *Interactions*: the browser's return and the gateway's callback both confirm; the worker writes
  the same rows; a confirmation ends in `applyPaidInvoice` of the subscriptions.
- *Hard*: the gateway is asked between two transactions, so every confirmation writes what it read
  before; confirmations are duplicated, reordered and lost; a session is opened at the gateway
  before it is stored, and storing it may fail; the job closes rows a confirmation works on.
- *Correct when*: the books (payment, gateway, invoice) agree; what is paid stays paid; only an
  invoice that was collected changes a subscription; no session stays pending for ever.

### Billing: subscriptions, renewal and expiry - modelled

`apps/api/src/billing/subscriptions.service.ts`, `entitlements.service.ts`, `cycle-handler.ts`, the
billing queue in `apps/worker/src/main.ts`, the scans in migration
`20260817020000_billing_and_support`.

- *State*: one subscription row per organisation, invoices and the plan each is for, the coupon's
  redemption, trial events, the rows a job has read.
- *Operations*: checkout (free, trial, quote), applyPaidInvoice, cancel (at the end of the period,
  or at once in two transactions), resume, notice, grace period, expiry.
- *Hard*: read and write are in different transactions almost everywhere; the jobs work on rows read
  with the batch, one at a time in each worker process but side by side in several; a paid reference
  may be confirmed any number of times.
- *Correct when*: no paid plan is served without its payment or the one trial; a trial is granted
  once; a past-due row has a deadline, who has paid is not downgraded by a job that read the row
  before, and unpaid service ends.

### Billing: pricing - modelled, as arithmetic and over time

`apps/api/src/billing/pricing.ts`, `quoteChange` and the amounts of `issue`. Rounding, clamping, tax
after discount, credit by started days, seats; and the price rows an administrator edits in place
(`apps/api/src/admin/admin-billing.service.ts`, `upsertPrice`), which credits are computed from.
*Correct when* no amount is negative, rounding favours nobody by more than half a unit, credit
shrinks with time, ends with the period, and grows or exceeds what was paid by no more than a
discount and a raised price.

### Outbox, e-mail, webhook fan-out - modelled

The SQL functions of migration `20260816000000_contacts`, `apps/worker/src/outbox/dispatcher.ts`,
`email/producer.ts`, `email/handler.ts`, `integrations/webhook-fanout.ts` up to the rows it inserts.

- *State*: events with status and attempts, what each worker process has claimed, delivery rows,
  jobs of the e-mail queue, what the mail server accepted.
- *Hard*: an event causes effects in three systems and each may fail; processes claim concurrently;
  an event is repeated after it was handled in part; a process stops holding a batch, or with a mail
  sent and not recorded; the queue forgets jobs that are done.
- *Correct when*: no two processes hold an event; a processed event's effects exist, once; mails
  beyond the first are accounted for by reruns; no event is given up early, retried for ever or
  forgotten, but for what a stopped process held. In one piece: `Dispatch`, which the outbox
  implements.

### Webhook delivery and endpoints - modelled

`apps/worker/src/integrations/webhook-dispatcher.ts`, `webhook-fanout.ts`,
`apps/api/src/integrations/webhooks.service.ts`.

- *State*: endpoints (status, failures in a row), deliveries (status, attempts, lease), what each
  worker has claimed, what the receiver accepted.
- *Operations*: create, edit (which reopens) and remove an endpoint; fan out, claim a batch under a
  lease, call, record, reschedule, disable.
- *Hard*: the call is outside of any transaction and of the lease's reach; a failure is three
  statements, inside a `try` whose `catch` records a failure too; a process stops between the
  receiver's answer and the row; an owner edits or removes the endpoint meanwhile.
- *Correct when*: what the owner reads of a delivery is what the receiver saw; every attempt is used
  and none is made beyond; a delivery is in one worker's hands while its lease lasts; what was
  decided is taken back no oftener than a lease ran out or a record threw; and everything is
  decided, where the worker sees the rows.

### Cards, branding and approvals - partly modelled

`apps/api/src/cards/cards.service.ts`, `branding/approvals.service.ts`, `branding/card-policy.ts`,
`offboard` of `teams/members.service.ts`.

- *State*: a card with its revision and content, its latest publication, its pictures in the public
  bucket; change requests; what a window saw when it was opened.
- *Operations*: update under a revision and a policy, publish, unpublish, remove, offboard; submit,
  review, withdraw.
- *Hard*: everything is read in one transaction and written in another; the bucket takes part in
  none; an approval is three transactions over two tables.
- *Correct when*: nobody's work is overwritten unseen; an approved change was written, once, onto
  the text its author saw; a visitor sees one revision, fit to be seen, with its picture, and never
  an older one afterwards.

### Teams and employee import - modelled up to roles and units

`apps/api/src/teams/invitations.service.ts`, `members.service.ts`, `employee-import.service.ts`,
`apps/worker/src/teams/import-handler.ts`.

- *State*: memberships, invitations, imports and their job, the row of the file in hand.
- *Operations*: create, revoke, accept, expire; start and run an import; offboard, reinstate.
- *Hard*: members and pending invitations are counted in two reads before the write; an import
  counts members only, starts from its first row when it is run again, and runs beside others in
  other processes, its own stalled run among them.
- *Correct when*: the plan is not outgrown; a person has one valid link, and a further one only from
  a writer another overtook; a link dies with its invitation.

### Scans - modelled

`apps/api/src/scans/scans.service.ts`, `apps/worker/src/scans/handler.ts`, `remove` of
`files.service.ts`.

- *State*: the scan, its picture (row, object), its job, the contacts made from it.
- *Operations*: create, from a picture or a code; extract; confirm, discard; delete the picture.
- *Hard*: the person may decide while the extraction runs; confirmations are repeated and overlap;
  the picture is deleted in five steps over two systems, each of which may be the last; jobs stall.
- *Correct when*: every contact beyond the first has its cause, what is left of a decided scan's
  picture is what the step that failed leaves, and no scan is left in processing unless its job or
  its end was lost.

### Accounts: first login and deletion - modelled; export, consents and profile are not

`apps/api/src/auth/user-provisioning.service.ts`,
`organizations/organization-provisioning.service.ts`, `privacy/account.service.ts`
(`requestDeletion`), `apps/worker/src/account/*`.

- *State*: users, personal organisations with their members, files and their objects, deletion
  requests and their jobs, the identities the provider knows.
- *Operations*: first login; join and upload, as far as they meet a deletion; request a deletion;
  find the organisations, delete objects, identity, rows; mark completed or failed.
- *Hard*: three systems and no common transaction; five attempts, each from the start; a job may be
  lost before it is queued, stall, or fail in its last hook; deletions run side by side in several
  processes; members join and files arrive after they were counted.
- *Correct when*: rows go last, so that nothing is out of reach and nobody comes back; completed
  means gone; nobody else loses an organisation, and one that is left empty was passed by in a way
  that is known; no deletion is forgotten.

### Components not modelled, or only where others need them

| part | reason |
|---|---|
| CRM sync | claims and retries as the webhooks do; its own difficulties are at the other side: a contact without e-mail is created again when the answer is lost, and a token may be renewed twice in a batch |
| API keys and public API | guards and reads |
| contacts, events | one transaction each; what they announce is `Outbox.Commit` |
| analytics | keys make batches idempotent; the rest is SQL over data |
| files | the ticket, the upload and the removal are in Accounts and Scans; image checks are I/O |
| presence, signatures, wallets | rendering for other media |
| tenancy, users, auth | the first login is in Accounts; roles, permissions and settings are guards and reads |
| row security | only what a statement without an organisation sees: of `payments` (Payments), of memberships (Accounts) and of the webhook tables (WebhookDelivery) |
| domain verification | DNS polling in the billing queue: it delays the jobs of Subscriptions |
| admin, support, feature flags, notifications | simple tables behind permissions |
| common, health, redis, shared packages, web | infrastructure, types, wording, user interface |

The web application alone is more than a third of the code; it has no state of its own but what it
shows.

`prepareRenewal`, `expireOverdue` and `enterGracePeriod` of `subscriptions.service.ts` have no
caller in the repository (the worker has its own versions) and are not modelled.

## 2. Modules

    Pricing --+-- Payments ------ MCPayments       PaymentsProofs    implements Settlement
              `-- PlanChange ---- MCPlanChange     PaymentsProofs    money of a chain of changes
    Subscriptions --+------------ MCSubscriptions  SubscriptionsProofs
                    `-- Billing - MCBilling        SubscriptionsProofs   with the promise of Payments, Settlement
    Outbox ---------------------- MCOutbox         OutboxProofs      implements Dispatch
    WebhookDelivery ------------- MCWebhookDelivery  WebhookDeliveryProofs
    CardUpdate --+-- Approvals -- MCApprovals      CardsProofs
                 `-- Cards ------ MCCards          CardsProofs
    Teams ----------------------- MCTeams          TeamsProofs
    Scans ----------------------- MCScans          ScansProofs
    Accounts -------------------- MCAccounts       AccountsProofs

The billing modules meet at three actions. `Payments.ApplyPaidInvoice` is the call whose effect is
`Subscriptions.ApplyPaidInvoice` (the row) and `PlanChange.ApplyChange` (its price and period). In
the other direction `MarkInvoicePaid` of Subscriptions and `PayChange` of PlanChange are what
Payments promises, in the form of `Settlement`: an invoice gets settled once, for good, at any time.
`Billing` composes Subscriptions with that promise: an invoice is issued in one and the same step of
both, and settled only when its money was collected. `Outbox.FanoutWebhooks` inserts the rows that
`WebhookDelivery.Fanout` starts from. `CardUpdate` is the one way of writing a card; Cards and
Approvals compose it with publishing and with change requests. PlanChange and Payments, and
Approvals and Cards, share no name but those of the module they extend, so that one module of proofs
can extend both: an invoice of PlanChange is a `change`, its clock `clock`, and its specification
`ChangeSpec`; that of Approvals is `ReviewSpec`.

### Processes and the database role

The API and the worker run in several processes: `dispatcher.ts:34-35`,
`webhook-dispatcher.ts:50-51` and `main.ts:264-266` speak of several workers, and BullMQ's
`concurrency` (`main.ts:119-258`) is that of one process. No module has a lock over all workers:
`Workers`, `Dispatchers`, `Runs` and the job records are places in processes, and two jobs of one
queue, or a stalled job and its rerun, may be under way at once. No `maxStalledCount` is set, so
that BullMQ hands out a stalled job once more and fails it the second time, mostly without reaching
the hooks at `main.ts:350-395`, which count attempts.

The deployment connects as `nomiqa_app`, without BYPASSRLS (`docs/deploy/README.md:94-153`). The
tables `payments`, `webhook_deliveries`, `webhook_endpoints` and `organization_memberships` force
row security, and the worker's statements over all organisations set none: they see no row.
`RlsEnforced` says so in Payments, WebhookDelivery and Accounts. The runs of WebhookDelivery and the
passing one of Payments are about a role that sees the rows, as the comments of the code assume;
what becomes of them otherwise is the run `payments_row_security` and two rows of the table of known
disagreements.

### How state and steps correspond to the code

A step is one database transaction, or one call of a gateway, a queue, storage, or a server. What a
request or a job remembers between two steps is a record (`request`, `job`, `batch`, `save`,
`review`, `op`, `session`) with a program counter; losing it models a process that stops and an
exception alike. Definitions under "Properties" and the operators no action uses (one beside each
definition it could replace) are not the code's: the latter are the mutants of `PROJECT.json`.

Some variables are kept by no column; they only record what happened, so that a property can speak
of it, and no guard reads them. They are named where they occur.

**Payments.** `invoice`, `payment`: the tables. `gateway`: the other side's sessions.
`IssueInvoice`, `CheckoutIssued`, `PayInvoice`, `OpenSession`, `StoreSession`, `RefuseSession` are
checkout up to the address the customer is sent to; `ConfirmPayment`, `QueryGateway`, `SettlePaid`,
`SettleUnpaid`, `ApplyPaidInvoice` the confirmation. `OpenSession` is the gateway's answer and
`StoreSession` the transaction that keeps it: `RefuseSession`, the `catch` around both, marks the
payment failed after either, so that a session may live that no row names. `HandleStalePayments` is
the job's `updateMany`; `RlsEnforced` says whether row security hides the rows from it.
`CustomerPays` and `SessionEnds` are the gateway's. The two transactions of `createCheckout` are one
step, for a payment without a session is found by no other read.

**Subscriptions.** Instants are kept as the days that remain until them, and `Tick` takes a day off
all of them: without a clock the state space is finite and liveness can be checked with no bound on
time. A due date read by a job ages with the rest. `job` has the row each worker has read and not
yet written. The quote is reduced to "something is due" or "nothing is due", which needs a coupon or
a credit. A coupon redeemed by another invoice makes `ApplyPaidInvoice` impossible: the unique index
fails inside the transaction, and PostgreSQL gives up all of it although the service catches the
error. One trial, one organisation, one row.

**PlanChange.** Has a clock, `Day` instants to a day, so that days are started but not over. A
subscription and a change name a row of `listPrice`, which `EditPrice` changes under them; the quote
and the credit read it anew. `worth` is kept by no column: it is what a period was bought with, and
states what a credit may be compared with. Calendar months are `Period` instants. Whether a price
row is still offered (`isActive`) is left out.

**Pricing.** `Math.round` of a quotient of naturals is `MathRound` (halves upwards); a percentage is
in basis points. JavaScript's doubles are exact at these magnitudes, so numbers have no width.

**Outbox.** Events of a type one endpoint subscribes to and that has an addressee. `ClaimBatch` is
the one SQL statement; the loop over the batch is `FanoutWebhooks`, `RecordEmail`, `EnqueueEmail`,
`MarkProcessed`, each of which may throw and lead to `MarkFailed`. `LoseBatch` is a process that
stops, or `mark_failed` throwing. An e-mail job is identified by its key; the queue ignores a second
job of the same key as long as it keeps the first (`RemoveJob`). The e-mail worker sends and then
records (`SendEmail`): in between its run may throw, which costs an attempt, or stall (`Stall`),
which costs none and sends the mail again.

**WebhookDelivery.** `ClaimBatch` is the statement that leases the rows and counts an attempt;
`StartPost`, `Answer`, `MarkDelivered`, `CountFailure`, `Reschedule`, `DisableEndpoint` the loop.
`Throw` is any statement that fails: inside the `try` it leads to `CountFailure` once more, also
where the update to "delivered" had committed and only its acknowledgement was lost. `RlsEnforced`
says whether the dispatcher's statement sees any row. Time is one bit of a row, whether its
`next_attempt_at` has passed; a call is bounded by its timeout, so a lease cannot end before its
holder has finished `CallsPerLease` calls. The number stands for the arithmetic of the constants:
twenty calls of ten seconds against two minutes. `received` is what the receiver saw; `overruns`
counts how often a delivery's lease ended in a worker's hands, `takenBack` how often a decided row
was decided anew.

**CardUpdate.** A window opens the card and later sends fields with the revision it saw;
`CheckUpdate` is the read with the policy, `CommitUpdate` the write, which compares the revision
again. A card's content is a text and a picture; the policy locks neither, one or both and may ask
for an approval.

**Approvals.** `StartSubmit`, `CommitSubmit` (which withdraws the user's earlier requests),
`Withdraw`, `StartReview` with the comparison, `WriteApproved` through the same update, `Finish` by
identity. `applied` and `contested` (requests something else was done to during a review) are
records of what happened.

**Cards.** A lifecycle call (`op`) reads, lists or copies pictures, writes, and prunes:
`StartPublish`, `CopyMedia`, `CommitPublish`, `ListMedia`, `DeleteStale`; `StartUnpublish`,
`StartRemove`, `Hide`; `Offboard` hides and cleans nothing up. `contentOf` remembers what each
revision said, `overlapped` whether two lifecycle calls were ever under way at once.

**Teams.** `CountMembers`, `CountPending`, `RevokeEarlier`, `InsertInvitation` are a creation;
`StartAccept`, `Join` an acceptance; `TakeRow`, `LookUp`, `CreateInvitation`, `FinishImport` an
import's run in a worker, `CutShort` its end by a stop or a throw, or the loss of its job while it
goes on. `overtaken` and `blind` record writers to people somebody else wrote to since they had
looked, and what they wrote; `contested` and `excused` the other two windows the code leaves open:
an invitation that ended while it was accepted, overlapping acceptances or a reinstatement. The
import's own row (its status and counts) is left out.

**Scans.** `Look`, `MarkProcessing`, `Review` are the extraction, between whose steps an engine is
asked; `ReadScan` and `SaveContact` the confirmation's transaction, which takes no lock;
`FindImage`, `FindFile`, `MarkFile`, `DeleteObject`, `ForgetImage` the deletion, statement by
statement. `WorkerStops` takes the job from its run, which dies with its process or goes on beside
the next: the queue hands the job out once more, and the second time gives it up. `MarkFailed` is
the failed hook, whose own failure is only logged. A picture belongs to one scan, and nobody uploads
to its ticket again. `blind` and `reopened` count contacts written by an overtaken window and
extractions that wrote over a saved scan; `cut` has the steps at which removals were cut short,
`lost` the scans whose job or end was lost.

**Accounts.** `Call` and `Provision` are `resolveUser`. Whoever has a token may call at any time: a
token is checked by its signature, so it outlives its identity. `CheckDeletion`, `MarkDeleted`,
`Enqueue` are the request, in whose transaction the mark is not looked at again;
`FindOrganizations`, `ListFiles`, `DeleteObject`, `DeleteIdentity`, `DeleteRows`, `Complete` the
job, `MarkFailed` the hook after the last attempt. `StartUpload`, `CreateUploadTicket` and `Upload`
are the three moments of an upload, the last of which asks nobody. The memberships' status is left
out (the count of members does not look at it), and every organisation is the personal one of a
first login: no other kind is deleted. Deletions of several users run side by side. `late` (files
that arrived after the listing), `hasty` (organisations joined after the count), `passedBy`
(organisations every member's job has counted, and left) and `lost` record what happened. The copies
of pictures in the public bucket are no rows of files, and the job does not delete them.

## 3. Runs

All runs pass but the last.

| run | states | instance |
|---|---|---|
| **payments** | 785,842 | two requests, two invoices, two payments, a clock of three, the hourly job |
| **subscriptions** | 263,888 | two requests, one invoice, two workers, a plan with a trial and one without, periods of two days |
| **outbox** | 276,574 | two processes, two events with one key, two attempts, a stalled run of the e-mail worker, one stop |
| **plan_change** | 2,648,844 | two price rows of 100 or 333 that are edited, 1 and 7 seats, coupons, two invoices, half days |
| **webhook_delivery** | 3,124,779 | two workers, two endpoints with a delivery each, two attempts, one edit, one loss |
| **webhook_liveness** | 746,014 | two workers, one delivery, no bound on a call, one edit, one loss |
| **approvals** | 5,434,738 | two windows of two users, two requests, three revisions, one stop |
| **cards** | 669,446 | two windows, one of an approver, two pictures, four lifecycle calls, one fault |
| **teams** | 4,196,043 | three people, two seats, two requests, one import, whose stalled run and rerun are in two workers |
| **scans** | 1,485,774 | one scan, two windows, two places for its runs, two attempts, two faults |
| **accounts** | 1,281,411 | two users, two identities, a file, two windows, two deletions with two attempts, one fault beside the second stop of a job |
| **payments_row_security** | - | as payments, under the deployed database role |

What each shows, and why its bounds are enough:

- **payments**: *BooksAgree*, *AppliedWasCollected*, *PaidIsFinal*, *SessionsDoNotPendForever*,
  *ImplementsSettlement*. Two requests make every pair of operations overlap (the code takes no lock
  that a third would contend for); two payments are those of one invoice, one of them refused or
  expired while the other is paid, or of two invoices. The offers are a line to be paid and one a
  full coupon makes free. `Declines` is reduced to "failed": "canceled" takes the same path and is
  in the proofs.
- **subscriptions**: *NoPlanWithoutPaymentOrTrial*, *TrialOnce*, *EarlyDowngradeWasRegraced*,
  *UnpaidServiceEnds*. Two days are enough to be announced before they end and to be paid for
  between a job's read and its write. Two workers let an expiry hold the row while a renewal begins
  a grace period: one payment is in time for one and too late for the other, and one invoice is
  enough for it. No deadlock is accepted. Its composition with the payment flow, `Billing`, has
  3,239,214 states with two invoices, one worker and periods of a day, of which TLC has checked
  *NoPlanWithoutMoneyOrTrial*, *BooksHold* and *ImplementsBooks* (`MCBilling.cfg`, a minute). It is
  not among the runs, for its properties are theorems.
- **outbox**: *ClaimedByOne*, *AStopStrandsOneBatch*, *ExtraMailsAreReruns*, *EventsResolve*,
  *ImplementsDispatch*. Two events let a batch be lost with one done and one not begun; one key lets
  the second event find the job in every state, or gone.
- **plan_change**: *CreditBeyondPaidIsExplained*, *TaxWithinHalfBaisa* (with the discount's clamp),
  *CreditGrowsByRaiseOnly*. The numbers are chosen so that seats, tax and credit do not divide
  evenly, a fixed coupon exceeds the smaller price, a period is a day and a half, and a price row
  may be raised or lowered between any two steps.
- **webhook_delivery**: *ReceiptsAccountedFor*, *UsesAllAttempts*, *LeaseExcludes*,
  *EachOverrunTakesBackOnce*. Two endpoints are needed: only then can an endpoint be removed under
  another delivery of the batch, which uses up an attempt. `CallsPerLease` 1 lets the second of two
  deliveries outlast the lease.
- **webhook_liveness**: *DeliveriesAreDecided*, without symmetry and with leases that may end at any
  time.
- **approvals**: *OutcomeMatchesCard*, *NoLostUpdate*, *AppliedWhereProposed*. Two calls let a
  review meet a submission, a withdrawal, an edit or another review; three revisions let an edit
  come before and after a proposal.
- **cards**: *VisitorsSeeARevision*, *PublicPictureExists*, *PublicationsMoveForward*. Two pictures
  give a stale and a fresh one, four calls publish, hide and publish again, with a fourth that
  overlaps.
- **teams**: *MembersWithinLimit*, *ExtraLinksWereBlind*, *LinkDiesWithInvitation*. One free seat is
  what is raced for; the stalled run of an import and its rerun, in two workers, and two requests
  may all invite the same person.
- **scans**: *ExtraContactsAreExplained*, *RemovalStopsWhereItWasCut*, *ScansEnd*. Scans do not
  meet, so that one is enough. Two windows overlap; two faults give a run without its job beside the
  one that has it, a job given up, or a removal cut short beside either.
- **accounts**: *RowsGoLast*, *CompletedMeansGone*, *EmptyWerePassedBy*, *NoDeletionIsForgotten*,
  *OthersKeepTheirOrganization*, *LetInOnlyWhenGone*. Two users are an owner and a member who both
  go, side by side, or one who asks twice; two attempts exhaust a job, and with one fault, to which
  the second stop of a job does not count, it stalls twice, or fails in its hook.
- **payments_row_security**: the job's statement sees no row, and a session pends for ever although
  the comment above it says it is there to prevent just that (the finding of `PROJECT.json`).

*Bounds.* `MaxTime` (Payments) and `LastInstant` (PlanChange) stop the clock; `OpenSession` is taken
only while its expiry lies before that bound, so that no liveness counterexample or proof is an
artefact of it. `MaxLosses`, `MaxStalls`, `MaxStops` and `MaxFaults` bound what goes wrong,
`MaxEdits`, `MaxOps`, `MaxOffs` and `MaxRevision` what people do. Identities (invoices, requests,
scans, ...) are bounded by their sets. Symmetry is used for safety only. Runs with `CHECK_DEADLOCK
FALSE` are those where the system really stops: all identities used, or everything done.

*Fairness.* Payments: the clock, and the stale-payments job because BullMQ repeats it; nothing
obliges a customer, a confirmation or the gateway. Subscriptions: the clock, a job that has started,
and strong fairness of the two scans, because the queue is first in, first out and both are repeated
for ever (`main.ts:318-335`). Outbox: backoff, dispatcher and e-mail worker go on, but no step is
obliged to succeed. WebhookDelivery: leases elapse and each worker's loop is called again and again
(`main.ts:306-316`). Scans: the workers work on the queue's jobs and go on with what they run;
nothing obliges an attempt to succeed. The liveness properties are therefore about what the system
ends, never about what a person does.

*Mutants.* For each property `PROJECT.json` names a plausible mistake under which it fails: a status
taken from the caller instead of the gateway, a trial upserted instead of created, a claim without a
lease, an update whose second comparison is dropped, a clean-up that takes the fresh picture too,
members counted without what is pending, a storage error taken for a missing object.

### Known disagreements, not kept as runs

Each of these is a definition under "What ... say, and the code does not do" of its module. TLC
finds each violated on an instance like the runs above; the definitions' comments say by which
schedule.

| definition | what happens |
|---|---|
| Payments: `UnderpaidSessionSettlesNothing` | a session is opened for the lines without tax, is paid below what is due, and settles the invoice; it is short by the tax at most (*OnlyCollectedApplied*) |
| Payments: `CollectedMoneyIsNotWrittenOff` | the hourly job closes a payment the gateway took money for, or storing the opened session fails and the payment is marked failed while the session lives and is paid; no confirmation looks at either again (`cycle-handler.ts:18`, `invoices.service.ts:201-243`, `docs/billing/subscriptions.md:122`); these two and nothing else (*MoneyStaysOnRecord*) |
| Payments: `OneLiveSession` | two checkouts of one invoice each find no session to reuse and each open one (`invoices.service.ts:151-152`, `docs/billing/subscriptions.md:127-131`); there are no more than requests at a time (*SessionsBounded*) |
| Payments: `PaidOnce` | both are paid; `createCheckout` opens one for a settled invoice, too |
| Subscriptions: `ReconfirmHasNoSecondEffect` | confirming a paid reference again starts a new period |
| Subscriptions: `NoDowngradeWithinGrace` | with two worker processes an expiry ends a grace period that a renewal began since it read the row (`main.ts:234-235`, `cycle-handler.ts:104`); not with one (*OneWorkerGivesGrace*), and nobody who paid since is downgraded (*GraceIsGiven*) |
| Subscriptions: `GraceOnlyAfterPeriodEnd` | a payment between scan and write is followed by a grace period |
| Outbox: `NoEventIsStranded` | a process that stops leaves the events it holds processing (`docs/contacts/capture.md:100`, `dispatcher.ts:28-32`); those, a batch for each stop, and no others (*StopsBounded*) |
| Outbox: `ThankedOnce` | a run that fails or stalls between sending and recording, or a key whose job the queue has removed, sends the mail again (`email/producer.ts:39,78`, `email/handler.ts:16`); nothing else does (*MailsExplained*) |
| PlanChange: `CreditWithinPaid` | a period bought with a coupon is credited at the list price, and one whose price row was raised at the new price (`pricing.test.ts:94`); the discount, the raise and rounding are all there is to it (*CreditBeyondPaid*) |
| PlanChange: `PriceEditTouchesNoSubscription` | the credit of a running subscription is computed from the edited row (`admin-billing.service.ts:112`, `subscriptions.service.ts:769-781`) |
| WebhookDelivery: `NoConcurrentCalls` | a lease of two minutes is outlasted by a batch of twenty calls (`docs/integrations/webhooks-and-api.md:162`, `webhook-dispatcher.ts:22-29`) |
| WebhookDelivery: `OutcomeIsFinal` | a call whose lease ran out makes a delivered row pending again, and so does the `catch` of a call whose record committed without an acknowledgement (`webhook-dispatcher.ts:128-137,180`); once for each (*TakenBackOnce*) |
| WebhookDelivery: `DeliveriesAreDecided` with `RlsEnforced` | the deployed role sees no delivery, nothing is claimed, and every delivery stays pending (`webhook-dispatcher.ts:60`, migration `20260819000000`, 318-330) |
| Cards: `HiddenCardHasNoPublicPicture` | publish copies before it asks, offboard cleans nothing up (`docs/cards/publishing.md:115,123`, `cards.service.ts:569`) |
| Cards: `LockedFieldsNeedApproval` | the check looks for a locked text under `localizations`, the input has it under `content`: it is changed without an approval (`card-policy.ts:85-104`) |
| Teams: `InviteesFindASeat` | an import counts members only (`docs/teams/structure.md:91-94`) |
| Teams: `OneValidLink` | two writers look for an earlier link before either writes: two requests, an import and a request, imports of two workers, or a stalled import and its rerun (`main.ts:169-178`); each further link was written by one another had overtaken (*ExtraLinks*) |
| Scans: `DecidedStaysDecided` | an extraction under way writes to a scan that was decided (`handler.ts:18-19`) |
| Scans: `OneContactPerScan` | two windows that confirm at once both find the scan unsaved and both write a contact, and so does a confirmation after an extraction wrote over the saved row (`scans.service.ts:231-235`); nothing else does (*ExtraContacts*) |
| Scans: `PicturesAreCleanedUp` | when storage or a statement fails, the picture stays: the later clean-up that two comments and the docs speak of does not exist (`scans.service.ts:435-436`, `files.service.ts:147-148`, `docs/events/lead-capture.md:95`); *RemovalStops* says what stays |
| Scans: `StampedMeansDeleted` | the row forgets its picture, and is stamped with the time of its deletion, although storage failed (`scans.service.ts:435-436`) |
| Scans: `NoSpinnerForEver` | a job that stalls twice never reaches the hook, the hook's own failure is logged, and a job may not reach the queue: the scan is processing for ever (`main.ts:377-383`, `handler.ts:105-107`); *ScansEnd* and *SpinnersKnown* say that there is no other way |
| Accounts: `DeletedIsNotRevived` | when the row is gone, a token that is still valid makes a first login, but not before (*LetInLate*) (`user-provisioning.service.ts:33`, `docs/privacy/deletion.md:42-44`) |
| Accounts: `RetriesDoNotFail` | when "completed" could not be written, or the deletion was asked for twice, the next run finds no user, throws, and reports a done deletion as failed (`deletion-handler.ts:21`) |
| Accounts: `EmptyOrganizationsGo` | the deletions of an organisation's two members, side by side in two processes, each see the other member and leave it, and nobody is left in it; under `RlsEnforced` the search for personal organisations sees no membership at all, so that they and their files stay (`docs/privacy/deletion.md:58`); *EmptyPassedBy* says when |

An organisation is also deleted under a member who joined after the count
(`deletion-handler.ts:70-75`); that is the exception in *OthersKeepTheirOrganization*.

### Hazards without a property

The grace e-mail's key names no period, so a second grace period within a day sends none
(`cycle-handler.ts:256`); the preview of a change uses a fixed tax (`subscriptions.service.ts:803`);
a second redemption inside the transaction undoes all of it (`:828`, modelled by
`ApplyPaidInvoice`); what is paid is compared with what is due and nothing follows
(`invoices.service.ts:311`), or the process stops before the gateway answers (`:185`); an endpoint
is disabled on a count two statements old (`webhook-dispatcher.ts:195`); mail delivery rows are
matched by recipient (`email/handler.ts:71`); the renewal scan takes the first hundred rows
(migration `20260817020000_billing_and_support`, 472); an import that stops after its row was
written sends no mail for it; two overlapping submissions leave two requests pending
(`docs/branding/policies.md:79-81`).

## 4. Proofs

Eight modules hold theorems. Each proves its results for every value of the constants, from the
assumption of its module alone: the types of the constants, that null values are no identities, and,
where something is counted, that the set is finite (payments and requests; people and invitations).
Removed endpoints and unanswered claims are finite in number by induction. All have the same shape:
an inductive invariant `IInv`, one lemma for each action or group of actions, under it a step for
each conjunct the action can disturb, and the theorems by `PTL`. What follows is why the properties
are not inductive by themselves, and what they need.

**PaymentsProofs.** *DiscountWithinSubtotal*, *InvoiceAmounts*, *TaxRoundsFairly*, *SeatsRound* are
about the operators of Pricing: a discount lies between zero and what it is taken from, amounts are
naturals, tax is off by at most half a baisa and a spread price by half a baisa a seat, and
*CreditShrinks* that a credit never exceeds the price and never grows with time (it is the rounded
quotient of a product, so a lemma on division comes first). *IInvAlways* is the invariant, from
which *TypeCorrect*, *PaidAlwaysBacked*, *OnlySettledApplied*, *SessionsBounded* follow; *Finality*
and *Implementation* (of `Settlement`) are about steps. `SettlePaid` writes what the request
remembers, so it must be known that a remembered answer is still the gateway's (`LocalsHold`; a
session that ended does not change), that the remembered rows exist and belong together
(`RowsLinked`), that an open invoice asks for money (`OpenAsksForMoney`, for invoices settled
without a payment must be the free ones), that no two requests open a session for one payment or
store it, so that a refusal closes no row of another request's (`OneOpener`), and that the job
passes over rows without a session (`UnsentNeverStale`). *Finality* needs that a request about to
write "failed" or "canceled" cannot meet a paid row: the gateway answered otherwise, and a paid row
has a gateway that answered "paid". *MoneyStaysOnRecord* is the other direction, from the gateway to
the service, with the two ways of losing sight of money that the code leaves: a payment that expired
and was closed by the job, and a session that was opened and never stored. It is inductive once it
speaks of sessions that may yet be paid, too: an unpaid answer is still the gateway's, and a refusal
before the session is stored finds the payment without one. The two together are *BooksAlwaysAgree*.
*Implementation* maps an invoice to its status ("free" when it was settled for nothing) and to
"collected" when the gateway took money for one of its sessions; `CustomerPays` is *Collect*,
`SettlePaid` is *SettleInvoice* or a stutter. *OnlyCollectedApplied* adds the amounts to the books
(`AmountsHold`): an issued invoice asks for its lines and at most the tax on them, the rows that
refer to it carry its amounts, and a settlement records what is due; what `SettlePaid` writes is
then the total of the invoice the payment was opened for. It is the bound on what
`UnderpaidSessionSettlesNothing` lets through, for every offer, coupon and tax rate.
*SessionsBounded* counts a session together with the requests about to open one, so that neither
checkout nor its end changes the sum by more than the request it took. It is a bound, not the docs'
promise, which `OneLiveSession` states and the code breaks; hence it is a theorem and no run's
property. The second part is about PlanChange. An invoice's amounts are written once, when the
change is quoted, and only its status moves afterwards; *ChangeInvariant* is therefore the types and
the two bounds, with the lemmas on rounding for the one step that quotes: *ChangesRoundFairly*,
*ChangesTaxedFairly*. *CreditNeverGrows* is about steps: one that leaves the subscription as it is
moves the clock, of which *CreditShrinks* says what it does, or edits a price row; and a credit
grows only in a step that raises the very row the subscription names, for a rounded share is
monotonous in the price. *CreditBeyondPaid* relates a credit to an invoice that may be long past: a
priced period was bought with a paid change (`PeriodWasBought`), which no step writes again, and the
total of that change is the sum of its parts (`AmountsAddUp`) and covers the price it was quoted but
for the credit used, the discount and the rounding. What the row was raised by since is the one
further term.

**SubscriptionsProofs.** *TypeCorrect*, *PlansArePaidFor*, *OneTrial*, *DeadlineKept*,
*GraceIsGiven*. A plan must stay accounted for while it is not served, for resuming serves it again
(`PlanAccountedFor`); what a request goes on to try must be a plan with a trial (`TrialsAllowed`),
and a trial leaves a row that no step removes (`TrialLeavesRow`). *GraceIsGiven* is about any number
of workers: what an expiry has read is overdue still, no longer past due, or past due anew because
another worker began a grace period meanwhile, which its job remembers (`JobReadsHold`).
*OneWorkerGivesGrace* is the comment's own claim, for one worker, where nobody can have done so
(`NeverRegraced`). The last part is about `Billing`. *BillingImplementsSubscriptions* carries the
theorems over to it, and *BillingKeepsTheBooks* shows that it keeps `Settlement`, which Payments
implements; the invariant is that a settled invoice asked for nothing or was collected
(`BooksHold`). *MoneyBehindEveryPlan* joins the two: it says of a plan that is served and of the
gateway what neither service looks at together, and *OnlyCollectedApplied* says how much was
collected.

**OutboxProofs.** *OneClaim*, *Dispatched*, *MailsExplained*, *AllAttemptsMade*. An event's effects
are known from the place of its holder in the loop (`LoopsInOrder`), a pending event has an attempt
left (`AttemptsLeft`), and an e-mail job a try, the one under way included (`RunsLeft`,
`TriesLeft`). *MailsExplained* adds up what may have sent a mail again: failed tries, stalled runs,
and jobs the queue has removed. *Implementation* (of `Dispatch`) maps an event to its status and
attempts, and counts as under way what has its delivery rows and a known e-mail: `ClaimBatch` is
*TakeUp* of the batch, `MarkProcessed` *Finish*, `MarkFailed` *PutBack* or *GiveUp*, and one
insertion or one added job may set several events under way, for they may share a key. It needs
besides that nothing was begun that was never claimed (`BegunWasTaken`). *StopsBounded* needs that
nobody holds more than a batch (`HandsFull`), and that a step which lets an event go has written its
row first; only a stop adds what its process held to the stranded ones.

**WebhookDeliveryProofs.** *ReceiptsAreTrue*, *AllAttemptsUsed*, *LeaseIsExclusive*,
*TakenBackOnce*. A call belongs to one place of one batch (`HandsInOrder`), to a row that is there
or was (`RowsInOrder`); what was received and not yet recorded is covered by the attempt its claim
counted (`ReceiptsCounted`); a row in somebody's hands is not due unless its lease ran out
(`LeasesHold`); and every attempt beyond the limit is one that was lost (`AttemptsCounted`). For
*TakenBackOnce* the workers that may still record an outcome are counted with the outcomes taken
back (`ChangesCounted`): the first of them finds nothing to take back, and each further one came by
an overrun or a throw. The first form of *UsesAllAttempts* had no term for removed endpoints: its
proof did not go through, TLC found no counterexample with one endpoint, and with two it did. A
batch whose first delivery's endpoint is removed under it loses the attempt of the second.

**CardsProofs.** Cards: *VisitorsSee*, *PictureExists*, *MovesForward*. What a window or a call
remembers of a revision is what that revision said (`RevisionsRemember`: revisions are not reused),
and the picture of a publication under way is not among those a clean-up goes on to delete
(`PictureIsKept`).

Approvals: *ReviewsTyped*, *OutcomeIsTrue*, *AppliedToProposal*, *NothingIsLost*. Windows, requests
and reviews that hold the card's present revision were looking at its present content
(`SavesRemember`, `RequestsRemember`, `ReviewsRemember`), a review and its request tell the same
story (`ReviewsAgree`), and only an approved one or one in the course of it was written.

**TeamsProofs.** *TypeCorrect*, *WithinLimit*, *ExtraLinks*, *LinkDies*. Of the runs of one import
at most one holds its job, whatever the number of workers, and the others go on without it
(`RunsHold`); an acceptance holds an invitation that is valid, accepted, or contested
(`RequestsHoldInvitations`). *ExtraLinks* follows a person's links through looks and writes: a
writer nobody has overtaken since its look knows of every link there is, and one that was overtaken
is counted when it writes (`LinksAreExplained`). A seat that was found free is still free when it is
taken, unless it was excused (`SeatsAreCounted`).

**ScansProofs.** *ExtraContacts*, *RemovalStops*, *SpinnersKnown*, with overlapping windows, faults
and stalls. One contact goes with the scan being saved, a window that nobody has overtaken still has
room for its own, and every other contact was written by an overtaken window or after an extraction
had written over a saved scan (`ContactsFollowRow`). `PicturesFollowRow` says for each place a
picture can be in which request is on the way to remove it or at which step one was cut short.
*SpinnersKnown* is the safety half of *ScansEnd*: a scan in processing has its job, or a run that
will write to it, or lost one of them (`SpinnersTurnForSomething`). A request or run knows its scan
(`RequestsAreAbout`, `RunsAreAbout`), and before its upload a scan is in nobody's hands
(`NobodyBefore`).

**AccountsProofs.** *TypeCorrect*, *RowsAreLast*, *CompletedIsGone*, *EmptyPassedBy*, *OthersKeep*,
*NoneIsForgotten*, *LetInLate*, for any number of deletions side by side, with and without row
security. Few of them are inductive: most speak of the end of a job whose steps are spread over
three systems. `OrderHolds` says what a job at a step has done for good (users go one way only,
lemmas `UsersStay` and `OneWay`; an identity never comes back). `JobsHold`: a job that does not run
has forgotten what it found, and one that has come to the identity has nothing left to list or to
delete. `FilesHold` and `ObjectsHold` follow an object: it has a row as long as its organisation
exists; without one, or in an organisation already listed and not on the list of objects to delete,
it came after the listing. `CountsHold`: who else is in an organisation that was counted joined
later; and `SessionsHold`: the request that is to add a job is the only one that knows the deletion,
which has no job yet. *CompletedIsGone* needs that members have a row (`MembersHold`), for the step
that deletes a user's row takes the user out of all organisations. *EmptyPassedBy* is inductive once
it speaks of organisations whose members are all about to leave, too (`PassedHold`): the last of
their jobs to count found the others, and passed by. *LetInLate* rests on `OwnersHold`: of the rows
that are not gone no two have one identity, and an identity is missing from the provider only where
its owner was marked before.

*Only model-checked*: liveness (*SessionsDoNotPendForever*, *UnpaidServiceEnds*, *EventsResolve*,
*DeliveriesAreDecided*, *ScansEnd*; TLAPS reasons neither about fairness nor about `ENABLED` here).
Every other property of a passing run is also a theorem. The definitions that TLC finds violated
are, of course, not.

### Left out of what is modelled

- A commit whose acknowledgement is lost: it is in WebhookDelivery (`Throw`), not in Payments, and
  not in the outbox, where a lost acknowledgement of `outbox_mark_processed` leads to
  `outbox_mark_failed`, which looks at no status (migration `20260816000000_contacts`, 331-335), and
  to the event being handled again.
- A stalled run that goes on beside its rerun is in Teams (imports) and Scans (extractions); of the
  e-mail worker and of account deletion a stalled run is one that has stopped.
- Whether a price is still offered, the status and the counts of an import's row, two scans of one
  picture, and a second upload to the ticket of a scan whose picture was deleted.

## 5. Plan

1. **Billing**: the amounts of PlanChange in the composition of Subscriptions and Settlement.
2. **CRM sync**: the jobs `crm-sync.ts` makes of contacts, with the tokens it renews.
