--------------------------- MODULE Subscriptions ---------------------------
(***************************************************************************)
(* The life of an organisation's subscription:                             *)
(* apps/api/src/billing/subscriptions.service.ts (trial, plan change,      *)
(* application of a paid invoice, cancellation, return to the free plan)   *)
(* and the renewal and expiry jobs of                                      *)
(* apps/worker/src/billing/cycle-handler.ts, of which each worker process  *)
(* runs one at a time (apps/worker/src/main.ts) beside the other ones.     *)
(*                                                                         *)
(* One organisation, hence at most one subscription row (organizationId is *)
(* unique).  Each transaction is one step.  Instants are kept as the whole *)
(* days that remain until them, so that no clock is needed: Tick takes one *)
(* day off every deadline.  How an invoice gets paid is in Payments.       *)
(***************************************************************************)
EXTENDS Naturals, FiniteSets

CONSTANTS
    Plans,        \* the plans that cost money
    Free,         \* the free plan
    TrialPlans,   \* plans with trialDays > 0
    Invoices,     \* identities of invoice rows
    Requests,     \* API requests in flight at the same time
    Workers,      \* worker processes
    PeriodDays,   \* a billing interval
    TrialDays,    \* plan.trialDays
    GraceDays,    \* GRACE_PERIOD_DAYS
    NoticeDays,   \* RENEWAL_NOTICE_DAYS
    Never         \* no instant: a null column, or the free plan's year 2999

ASSUME SubscriptionsAssumption ==
    /\ Free \notin Plans
    /\ TrialPlans \subseteq Plans
    /\ PeriodDays \in Nat
    /\ TrialDays \in Nat
    /\ GraceDays \in Nat
    /\ NoticeDays \in Nat
    /\ Never \notin Nat

VARIABLES
    subscription,  \* the row of the subscriptions table
    invoice,       \* invoices with the plan they are for
    redeemed,      \* the organisation's row of coupon_redemptions exists
    trials,        \* trial_started rows of subscription_events
    request,       \* control state of each request
    job            \* the row a job of each worker has read and not yet handled

vars == <<subscription, invoice, redeemed, trials, request, job>>

Days == Nat \cup {Never}

Statuses == {"none", "trialing", "active", "past_due", "canceled"}

SubscriptionRow ==
    [status : Statuses,
     plan : Plans \cup {Free},
     periodEnd : Days,
     graceEnd : Days,
     cancelAtPeriodEnd : BOOLEAN]

InvoiceRow ==
    [status : {"none", "open", "paid"},
     plan : Plans \cup {Free},
     coupon : BOOLEAN,
     applied : BOOLEAN]

Request ==
    [pc : {"idle", "trial", "quote", "cancel", "cancelNow", "downgrade", "resume"},
     plan : Plans \cup {Free}]

(* Which job of a worker holds the row; the due date a renewal read.  Not in *)
(* the code: whether a grace period has begun since an expiry read the row.  *)
Job == [pc : {"none", "renew", "expire"}, periodEnd : Days, regraced : BOOLEAN]

NoJob == [pc |-> "none", periodEnd |-> Never, regraced |-> FALSE]

Idle == [pc |-> "idle", plan |-> Free]

Init ==
    /\ subscription = [status |-> "none", plan |-> Free, periodEnd |-> Never,
                       graceEnd |-> Never, cancelAtPeriodEnd |-> FALSE]
    /\ invoice = [i \in Invoices |->
                    [status |-> "none", plan |-> Free, coupon |-> FALSE, applied |-> FALSE]]
    /\ redeemed = FALSE
    /\ trials = 0
    /\ request = [r \in Requests |-> Idle]
    /\ job = [w \in Workers |-> NoJob]

Existing == subscription.status # "none"

(* ENTITLED_STATUSES of the entitlements service. *)
Entitled == subscription.status \in {"trialing", "active", "past_due"}

-----------------------------------------------------------------------------
(* Starting and changing a plan                                             *)

(* downgradeToFree's upsert; its columns are the same in the worker. *)
FreeRow ==
    [subscription EXCEPT
        !.status = "active", !.plan = Free, !.periodEnd = Never,
        !.graceEnd = Never, !.cancelAtPeriodEnd = FALSE]

TrialRow(plan) ==
    [status |-> "trialing", plan |-> plan, periodEnd |-> TrialDays,
     graceEnd |-> Never, cancelAtPeriodEnd |-> FALSE]

(* checkout of the free plan: no invoice, at once. *)
CheckoutFree(r) ==
    /\ request[r].pc = "idle"
    /\ subscription' = FreeRow
    /\ UNCHANGED <<invoice, redeemed, trials, request, job>>

(* checkout reads the subscription to learn whether a trial is due. *)
CheckoutPlan(r) ==
    /\ request[r].pc = "idle"
    /\ \E plan \in Plans :
         request' = [request EXCEPT
           ![r] = [pc |-> IF ~Existing /\ plan \in TrialPlans THEN "trial" ELSE "quote",
                   plan |-> plan]]
    /\ UNCHANGED <<subscription, invoice, redeemed, trials, job>>

UpsertTrial(row) == subscription' = row /\ trials' = trials + 1

(* subscription.create: organizationId is unique, so a second row is refused. *)
CreateTrial(row) ==
    IF Existing
    THEN UNCHANGED <<subscription, trials>>
    ELSE subscription' = row /\ trials' = trials + 1

StartTrial(r) ==
    /\ request[r].pc = "trial"
    /\ CreateTrial(TrialRow(request[r].plan))
    /\ request' = [request EXCEPT ![r] = Idle]
    /\ UNCHANGED <<invoice, redeemed, job>>

(* What the new plan costs is credited with what is left of the current     *)
(* period; the rest, or all of it, may be covered by a coupon.              *)
CreditLeft ==
    /\ subscription.status = "active"
    /\ subscription.plan # Free
    /\ subscription.periodEnd # 0

FreshInvoices == {i \in Invoices : invoice[i].status = "none"}

NewInvoice == CHOOSE i \in FreshInvoices : TRUE

(* quoteChange, its validateCoupon, and the issue of the invoice.  The quote *)
(* only decides the amount, so only whether it is zero is kept of it.  An    *)
(* invoice of zero is issued paid, and checkout goes on to apply it.         *)
IssueInvoice(r) ==
    /\ request[r].pc = "quote"
    /\ FreshInvoices # {}
    /\ \E coupon, nothingDue \in BOOLEAN :
        /\ coupon => ~redeemed
        /\ nothingDue => (coupon \/ CreditLeft)
        /\ invoice' = [invoice EXCEPT
             ![NewInvoice] = [status |-> IF nothingDue THEN "paid" ELSE "open",
                              plan |-> request[r].plan,
                              coupon |-> coupon,
                              applied |-> FALSE]]
    /\ request' = [request EXCEPT ![r] = Idle]
    /\ UNCHANGED <<subscription, redeemed, trials, job>>

(* What Payments does, and the only thing of it this module depends on. *)
MarkInvoicePaid(i) ==
    /\ invoice[i].status = "open"
    /\ invoice' = [invoice EXCEPT ![i].status = "paid"]
    /\ UNCHANGED <<subscription, redeemed, trials, request, job>>

-----------------------------------------------------------------------------
(* Applying a paid invoice                                                  *)

AnyIssued(i) == invoice[i].status # "none"

Appliable(i) == invoice[i].status = "paid"

(* The row applyPaidInvoice upserts for the plan of invoice i. *)
PaidRow(i) ==
    [status |-> "active", plan |-> invoice[i].plan, periodEnd |-> PeriodDays,
     graceEnd |-> Never, cancelAtPeriodEnd |-> FALSE]

(* Any confirmation of a paid reference comes here, as often as it is made;  *)
(* so does checkout when nothing is due.  One transaction: a second          *)
(* redemption of the coupon breaks its uniqueness, and although the service  *)
(* catches that error the database has given up the whole transaction.       *)
ApplyPaidInvoice(i) ==
    /\ Appliable(i)
    /\ ~(invoice[i].coupon /\ redeemed)
    /\ subscription' = PaidRow(i)
    /\ invoice' = [invoice EXCEPT ![i].applied = TRUE]
    /\ redeemed' = (redeemed \/ invoice[i].coupon)
    /\ UNCHANGED <<trials, request, job>>

-----------------------------------------------------------------------------
(* Cancellation: read, write, and for an immediate one a second transaction *)

Cancel(r) ==
    /\ request[r].pc = "idle"
    /\ Existing
    /\ subscription.status # "canceled"
    /\ \E pc \in {"cancel", "cancelNow"} :
         request' = [request EXCEPT ![r] = [pc |-> pc, plan |-> Free]]
    /\ UNCHANGED <<subscription, invoice, redeemed, trials, job>>

CancelAtPeriodEnd(r) ==
    /\ request[r].pc = "cancel"
    /\ subscription' = [subscription EXCEPT !.cancelAtPeriodEnd = TRUE]
    /\ request' = [request EXCEPT ![r] = Idle]
    /\ UNCHANGED <<invoice, redeemed, trials, job>>

CancelNow(r) ==
    /\ request[r].pc = "cancelNow"
    /\ subscription' = [subscription EXCEPT
         !.status = "canceled", !.cancelAtPeriodEnd = FALSE, !.periodEnd = 0]
    /\ request' = [request EXCEPT ![r].pc = "downgrade"]
    /\ UNCHANGED <<invoice, redeemed, trials, job>>

DowngradeToFree(r) ==
    /\ request[r].pc = "downgrade"
    /\ subscription' = FreeRow
    /\ request' = [request EXCEPT ![r] = Idle]
    /\ UNCHANGED <<invoice, redeemed, trials, job>>

Resume(r) ==
    /\ request[r].pc = "idle"
    /\ Existing
    /\ subscription.cancelAtPeriodEnd
    /\ subscription.periodEnd # 0
    /\ request' = [request EXCEPT ![r] = [pc |-> "resume", plan |-> Free]]
    /\ UNCHANGED <<subscription, invoice, redeemed, trials, job>>

UndoCancel(r) ==
    /\ request[r].pc = "resume"
    /\ subscription' = [subscription EXCEPT !.cancelAtPeriodEnd = FALSE]
    /\ request' = [request EXCEPT ![r] = Idle]
    /\ UNCHANGED <<invoice, redeemed, trials, job>>

(* The process stops, or an exception ends the request between two steps. *)
LoseRequest(r) ==
    /\ request[r].pc # "idle"
    /\ request' = [request EXCEPT ![r] = Idle]
    /\ UNCHANGED <<subscription, invoice, redeemed, trials, job>>

-----------------------------------------------------------------------------
(* The worker's billing queue                                               *)

(* concurrency: 1 -- a worker process starts a job when it has none under   *)
(* way; what the other processes do it does not know.                       *)
Starts(w, pc) ==
    /\ job[w].pc = "none"
    /\ job' = [job EXCEPT
         ![w] = [NoJob EXCEPT
            !.pc = pc, !.periodEnd = IF pc = "renew" THEN subscription.periodEnd ELSE Never]]

Ends(w) == job' = [job EXCEPT ![w] = NoJob]

Before(instant, days) == instant # Never /\ instant < days

AtMost(instant, days) == instant # Never /\ instant <= days

(* billing_subscriptions_due: the row with the period's end of this moment. *)
ScanDue(w) ==
    /\ Entitled
    /\ AtMost(subscription.periodEnd, NoticeDays)
    /\ Starts(w, "renew")
    /\ UNCHANGED <<subscription, invoice, redeemed, trials, request>>

(* A period that has not ended yet is announced (an e-mail; see Outbox). *)
NotifyUpcomingRenewal(w) ==
    /\ job[w].pc = "renew"
    /\ job[w].periodEnd # 0
    /\ Ends(w)
    /\ UNCHANGED <<subscription, invoice, redeemed, trials, request>>

StillRunning == subscription.status \in {"active", "trialing"}

(* The renewals of other workers go on with what they read; of the expiries *)
(* that hold the row it is noted that a grace period begins.                *)
EnterGracePeriod(w) ==
    /\ job[w].pc = "renew"
    /\ job[w].periodEnd = 0
    /\ subscription' = IF StillRunning
                       THEN [subscription EXCEPT !.status = "past_due", !.graceEnd = GraceDays]
                       ELSE subscription
    /\ job' = [v \in Workers |->
         IF v = w THEN NoJob
         ELSE [job[v] EXCEPT !.regraced = @ \/ (job[v].pc = "expire" /\ StillRunning)]]
    /\ UNCHANGED <<invoice, redeemed, trials, request>>

(* billing_subscriptions_overdue. *)
ScanOverdue(w) ==
    /\ subscription.status = "past_due"
    /\ AtMost(subscription.graceEnd, 0)
    /\ Starts(w, "expire")
    /\ UNCHANGED <<subscription, invoice, redeemed, trials, request>>

WasOverdue == Existing

StillOverdue == subscription.status = "past_due"

(* cancelAtPeriodEnd is the one column downgradeToFree resets and this does not. *)
Expire(w) ==
    /\ job[w].pc = "expire"
    /\ subscription' = IF StillOverdue
                       THEN [FreeRow EXCEPT !.cancelAtPeriodEnd = subscription.cancelAtPeriodEnd]
                       ELSE subscription
    /\ Ends(w)
    /\ UNCHANGED <<invoice, redeemed, trials, request>>

DayLess(instant) ==
    IF instant = Never \/ instant = 0 THEN instant ELSE instant - 1

Tick ==
    /\ subscription' = [subscription EXCEPT
         !.periodEnd = DayLess(@), !.graceEnd = DayLess(@)]
    /\ job' = [w \in Workers |-> [job[w] EXCEPT !.periodEnd = DayLess(@)]]
    /\ UNCHANGED <<invoice, redeemed, trials, request>>

RequestStep(r) ==
    \/ CheckoutFree(r)
    \/ CheckoutPlan(r)
    \/ StartTrial(r)
    \/ IssueInvoice(r)
    \/ Cancel(r)
    \/ CancelAtPeriodEnd(r)
    \/ CancelNow(r)
    \/ DowngradeToFree(r)
    \/ Resume(r)
    \/ UndoCancel(r)
    \/ LoseRequest(r)

WorkerStep(w) ==
    \/ ScanDue(w)
    \/ NotifyUpcomingRenewal(w)
    \/ EnterGracePeriod(w)
    \/ ScanOverdue(w)
    \/ Expire(w)

Next ==
    \/ \E r \in Requests : RequestStep(r)
    \/ \E i \in Invoices : MarkInvoicePaid(i) \/ ApplyPaidInvoice(i)
    \/ \E w \in Workers : WorkerStep(w)
    \/ Tick

(* The clock runs, and a job that has started goes on.  The queue is first  *)
(* in, first out and both jobs are put into it for ever, so neither can     *)
(* keep the other from starting in one worker or another: strong fairness,  *)
(* for each finds the workers busy with the other now and then.             *)
Fairness ==
    /\ WF_vars(Tick)
    /\ \A w \in Workers :
         WF_vars(NotifyUpcomingRenewal(w) \/ EnterGracePeriod(w) \/ Expire(w))
    /\ SF_vars(\E w \in Workers : ScanDue(w))
    /\ SF_vars(\E w \in Workers : ScanOverdue(w))

Spec == Init /\ [][Next]_vars

FairSpec == Spec /\ Fairness

-----------------------------------------------------------------------------
(* Properties                                                               *)

(* Every column and every local holds a value of its type. *)
TypeOK ==
    /\ subscription \in SubscriptionRow
    /\ invoice \in [Invoices -> InvoiceRow]
    /\ redeemed \in BOOLEAN
    /\ trials \in Nat
    /\ request \in [Requests -> Request]
    /\ job \in [Workers -> Job]

(* docs/billing/subscriptions.md, 1: no plan before its payment.  A paid     *)
(* plan is served only in the one trial, or on behalf of a settled invoice   *)
(* for that plan, whatever checkouts, confirmations and cancellations        *)
(* overlapped.                                                               *)
NoPlanWithoutPaymentOrTrial ==
    (Entitled /\ subscription.plan # Free) =>
        \/ trials > 0 /\ subscription.plan \in TrialPlans
        \/ \E i \in Invoices :
             /\ invoice[i].status = "paid"
             /\ invoice[i].plan = subscription.plan
             /\ invoice[i].applied

(* The trial is granted once: checkouts that all read "no subscription"      *)
(* before any of them wrote one do not each get a trial, nor does a          *)
(* cancelled organisation that starts again.                                 *)
TrialOnce == trials <= 1

(* A subscription that is past due has a deadline, or the expiry scan would *)
(* never find it; and only a past-due or a cancelled one has.               *)
DeadlineMatchesStatus ==
    /\ subscription.status = "past_due" => subscription.graceEnd # Never
    /\ subscription.graceEnd # Never => subscription.status \in {"past_due", "canceled"}

(* An expiry of worker w takes the plan away. *)
Downgrades(w) ==
    job[w].pc = "expire" /\ job'[w].pc = "none" /\ subscription' # subscription

(* handleBillingExpirations looks at the status only, and only after it has  *)
(* read the row: a payment that came in between keeps its plan, and the plan *)
(* is taken before the grace period is over only when another worker's       *)
(* renewal has begun a new one since the row was read.                       *)
EarlyDowngradeWasRegraced ==
    [][\A w \in Workers :
         Downgrades(w) =>
            /\ subscription.status = "past_due"
            /\ subscription.graceEnd = 0 \/ job[w].regraced]_vars

(* Service that is not paid for any more ends: the worker finds the end of   *)
(* the period, then the end of the grace period, unless somebody pays or     *)
(* cancels before.                                                           *)
UnpaidServiceEnds ==
    (Entitled /\ subscription.plan # Free /\ subscription.periodEnd = 0)
        ~> (~Entitled \/ subscription.plan = Free \/ subscription.periodEnd # 0)

-----------------------------------------------------------------------------
(* What comments and docs say, and the code does not do                     *)

(* docs/billing/subscriptions.md, 5, and the comment of applyPaidInvoice:    *)
(* a payment applied already has no second effect on the subscription.       *)
ReconfirmHasNoSecondEffect ==
    [][\A i \in Invoices :
         (invoice[i].applied /\ ApplyPaidInvoice(i)) => subscription' = subscription]_vars

(* main.ts:235: that the billing jobs run one after the other keeps a        *)
(* renewal from overlapping an expiry of the same subscription.  They do in  *)
(* one process.  Of two, one may hold the row as overdue and the other as    *)
(* due when the payment comes in: the second begins a grace period and the   *)
(* first ends it, though cycle-handler.ts:104 means to keep what was paid.   *)
NoDowngradeWithinGrace ==
    [][\A w \in Workers : Downgrades(w) => subscription.graceEnd = 0]_vars

(* cycle-handler.ts:47: the grace period begins when the end of the period   *)
(* passes without payment.                                                   *)
GraceOnlyAfterPeriodEnd ==
    [][(subscription.status # "past_due" /\ subscription'.status = "past_due")
          => subscription.periodEnd = 0]_vars
=============================================================================
