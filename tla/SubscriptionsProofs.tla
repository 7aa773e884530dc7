------------------------- MODULE SubscriptionsProofs -------------------------
(***************************************************************************)
(* The life of a subscription for any number of plans, invoices and        *)
(* requests and workers and any length of period, trial and grace: no plan *)
(* without a payment or the one trial, no state without its deadline, and  *)
(* which plan an expiry takes away.  Then the same together with the       *)
(* payment flow: no plan without money or the trial.                       *)
(***************************************************************************)
EXTENDS Billing, TLAPS

(* A plan stays accounted for while it is not served, for a step may serve  *)
(* it again.                                                                *)
AccountedFor(plan) ==
    \/ trials > 0 /\ plan \in TrialPlans
    \/ \E i \in Invoices :
         invoice[i].status = "paid" /\ invoice[i].plan = plan /\ invoice[i].applied

PlanAccountedFor == subscription.plan # Free => AccountedFor(subscription.plan)

(* What a request goes on to start a trial of may be tried. *)
TrialsAllowed == \A r \in Requests : request[r].pc = "trial" => request[r].plan \in TrialPlans

(* A trial leaves a row behind, which no step removes. *)
TrialLeavesRow == trials = 0 \/ (trials = 1 /\ Existing)

(* What an expiry has read is overdue still, or no longer past due, or past *)
(* due anew.                                                                *)
JobReadsHold ==
    \A w \in Workers :
        job[w].pc = "expire" /\ subscription.status = "past_due" =>
            subscription.graceEnd = 0 \/ job[w].regraced

IInv ==
    /\ TypeOK
    /\ PlanAccountedFor
    /\ TrialsAllowed
    /\ TrialLeavesRow
    /\ DeadlineMatchesStatus
    /\ JobReadsHold

-----------------------------------------------------------------------------
(* Rows                                                                     *)

LEMMA NewInvoiceIsFresh ==
    ASSUME FreshInvoices # {}
    PROVE  NewInvoice \in Invoices /\ invoice[NewInvoice].status = "none"
<1>1. NewInvoice \in FreshInvoices
  BY DEF NewInvoice
<1> QED
  BY <1>1 DEF FreshInvoices

LEMMA IdleIsTyped ==
    Idle \in Request
  BY DEF Idle, Request

(* The three rows the service writes. *)
LEMMA RowsAreTyped ==
    ASSUME TypeOK
    PROVE  /\ FreeRow \in SubscriptionRow
           /\ FreeRow.status = "active" /\ FreeRow.plan = Free /\ FreeRow.graceEnd = Never
           /\ \A plan \in Plans \cup {Free} :
                /\ TrialRow(plan) \in SubscriptionRow
                /\ TrialRow(plan).status = "trialing" /\ TrialRow(plan).plan = plan
                /\ TrialRow(plan).graceEnd = Never
           /\ \A i \in Invoices :
                /\ PaidRow(i) \in SubscriptionRow
                /\ PaidRow(i).status = "active" /\ PaidRow(i).plan = invoice[i].plan
                /\ PaidRow(i).graceEnd = Never
<1>1. subscription \in SubscriptionRow /\ \A i \in Invoices : invoice[i].plan \in Plans \cup {Free}
  BY DEF TypeOK, InvoiceRow
<1>2. FreeRow \in SubscriptionRow
      /\ FreeRow.status = "active" /\ FreeRow.plan = Free /\ FreeRow.graceEnd = Never
  BY <1>1 DEF FreeRow, SubscriptionRow, Statuses, Days
<1>3. \A plan \in Plans \cup {Free} : TrialRow(plan) \in SubscriptionRow
  BY SubscriptionsAssumption DEF TrialRow, SubscriptionRow, Statuses, Days
<1>4. \A i \in Invoices : PaidRow(i) \in SubscriptionRow
  BY <1>1, SubscriptionsAssumption DEF PaidRow, SubscriptionRow, Statuses, Days
<1> QED
  BY <1>2, <1>3, <1>4 DEF TrialRow, PaidRow

LEMMA DaysPass ==
    ASSUME NEW instant \in Days
    PROVE  /\ DayLess(instant) \in Days
           /\ DayLess(instant) = Never <=> instant = Never
           /\ instant = 0 => DayLess(instant) = 0
  BY SubscriptionsAssumption DEF DayLess, Days

(* A row with the same plan and deadline, in a state it may be in.          *)
LEMMA RowReplaced ==
    ASSUME IInv, UNCHANGED <<invoice, redeemed, trials>>,
           subscription' \in SubscriptionRow,
           \/ subscription'.plan = subscription.plan
           \/ subscription'.plan = Free,
           Existing => subscription'.status # "none",
           DeadlineMatchesStatus',
           request' \in [Requests -> Request], TrialsAllowed',
           job' \in [Workers -> Job], JobReadsHold'
    PROVE  IInv'
<1>1. TypeOK'
  BY DEF IInv, TypeOK
<1>2. PlanAccountedFor'
  BY DEF IInv, PlanAccountedFor, AccountedFor
<1>3. TrialLeavesRow'
  BY DEF IInv, TrialLeavesRow, Existing
<1> QED
  BY <1>1, <1>2, <1>3 DEF IInv

(* A request goes on, and is not about to start a trial.                    *)
LEMMA RequestMoves ==
    ASSUME IInv, NEW r \in Requests, NEW q \in Request, q.pc # "trial",
           request' = [request EXCEPT ![r] = q]
    PROVE  request' \in [Requests -> Request] /\ TrialsAllowed'
  BY DEF IInv, TypeOK, TrialsAllowed

-----------------------------------------------------------------------------
(* The steps of requests                                                    *)

LEMMA RequestOnly ==
    ASSUME IInv, UNCHANGED <<subscription, invoice, redeemed, trials, job>>,
           request' \in [Requests -> Request], TrialsAllowed'
    PROVE  IInv'
<1>1. DeadlineMatchesStatus' /\ JobReadsHold'
  BY DEF IInv, DeadlineMatchesStatus, JobReadsHold
<1>2. subscription' \in SubscriptionRow /\ job' \in [Workers -> Job]
  BY DEF IInv, TypeOK
<1> QED
  BY <1>1, <1>2, RowReplaced DEF Existing

LEMMA CheckoutPlanHolds ==
    ASSUME IInv, NEW r \in Requests, CheckoutPlan(r)
    PROVE  IInv'
<1>1. PICK plan \in Plans :
        request' = [request EXCEPT
          ![r] = [pc |-> IF ~Existing /\ plan \in TrialPlans THEN "trial" ELSE "quote",
                  plan |-> plan]]
  BY DEF CheckoutPlan
<1> DEFINE q == [pc |-> IF ~Existing /\ plan \in TrialPlans THEN "trial" ELSE "quote",
                 plan |-> plan]
<1>2. q \in Request /\ (q.pc = "trial" => q.plan \in TrialPlans)
  BY DEF Request
<1>3. request' = [request EXCEPT ![r] = q]
  BY <1>1
<1> HIDE DEF q
<1>4. request' \in [Requests -> Request] /\ TrialsAllowed'
  BY <1>2, <1>3 DEF IInv, TypeOK, TrialsAllowed
<1> QED
  BY <1>4, RequestOnly DEF CheckoutPlan

LEMMA AskingHolds ==
    ASSUME IInv, NEW r \in Requests, Cancel(r) \/ Resume(r) \/ LoseRequest(r)
    PROVE  IInv'
<1>1. PICK q \in Request : q.pc # "trial" /\ request' = [request EXCEPT ![r] = q]
  <2>1. CASE Cancel(r)
    <3>1. PICK pc \in {"cancel", "cancelNow"} :
            request' = [request EXCEPT ![r] = [pc |-> pc, plan |-> Free]]
      BY <2>1 DEF Cancel
    <3>2. [pc |-> pc, plan |-> Free] \in Request
      BY DEF Request
    <3> QED
      BY <3>1, <3>2
  <2>2. CASE Resume(r)
    <3>1. [pc |-> "resume", plan |-> Free] \in Request
      BY DEF Request
    <3> QED
      BY <2>2, <3>1 DEF Resume
  <2>3. CASE LoseRequest(r)
    BY <2>3, IdleIsTyped DEF LoseRequest, Idle
  <2> QED
    BY <2>1, <2>2, <2>3
<1>2. UNCHANGED <<subscription, invoice, redeemed, trials, job>>
  BY DEF Cancel, Resume, LoseRequest
<1> QED
  BY <1>1, <1>2, RequestMoves, RequestOnly

(* A request writes the row of a running subscription, or the free plan's.  *)
LEMMA WritingHolds ==
    ASSUME IInv, NEW r \in Requests,
           \/ CheckoutFree(r) \/ CancelAtPeriodEnd(r) \/ CancelNow(r)
           \/ DowngradeToFree(r) \/ UndoCancel(r)
    PROVE  IInv'
<1>0. /\ subscription \in SubscriptionRow /\ job \in [Workers -> Job]
      /\ request \in [Requests -> Request] /\ TrialsAllowed /\ DeadlineMatchesStatus
      /\ JobReadsHold
  BY DEF IInv, TypeOK
<1>1. UNCHANGED <<invoice, redeemed, trials, job>>
  BY DEF CheckoutFree, CancelAtPeriodEnd, CancelNow, DowngradeToFree, UndoCancel
<1>2. request' \in [Requests -> Request] /\ TrialsAllowed'
  <2>1. CASE CheckoutFree(r)
    BY <1>0, <2>1 DEF CheckoutFree, TrialsAllowed
  <2>2. CASE CancelNow(r)
    <3> DEFINE q == [request[r] EXCEPT !.pc = "downgrade"]
    <3>1. request[r] \in Request
      BY <1>0
    <3>2. q \in Request /\ q.pc # "trial"
      BY <3>1 DEF Request
    <3>3. request' = [request EXCEPT ![r] = q]
      BY <1>0, <2>2 DEF CancelNow
    <3> HIDE DEF q
    <3> QED
      BY <3>2, <3>3, RequestMoves
  <2>3. CASE CancelAtPeriodEnd(r) \/ DowngradeToFree(r) \/ UndoCancel(r)
    <3>1. request' = [request EXCEPT ![r] = Idle] /\ Idle.pc # "trial"
      BY <2>3 DEF CancelAtPeriodEnd, DowngradeToFree, UndoCancel, Idle
    <3> QED
      BY <3>1, IdleIsTyped, RequestMoves
  <2> QED
    BY <2>1, <2>2, <2>3
<1>3. CASE subscription' = FreeRow
  <2>1. /\ subscription' \in SubscriptionRow /\ subscription'.plan = Free
        /\ subscription'.status = "active" /\ subscription'.graceEnd = Never
    BY <1>3, RowsAreTyped DEF IInv
  <2>2. DeadlineMatchesStatus' /\ JobReadsHold'
    BY <1>0, <1>1, <2>1 DEF DeadlineMatchesStatus, JobReadsHold
  <2> QED
    BY <1>0, <1>1, <1>2, <2>1, <2>2, RowReplaced
<1>4. CASE CancelAtPeriodEnd(r) \/ UndoCancel(r)
  <2>1. PICK cancel \in BOOLEAN :
          subscription' = [subscription EXCEPT !.cancelAtPeriodEnd = cancel]
    BY <1>4 DEF CancelAtPeriodEnd, UndoCancel
  <2>2. /\ subscription' \in SubscriptionRow /\ subscription'.plan = subscription.plan
        /\ subscription'.status = subscription.status
        /\ subscription'.graceEnd = subscription.graceEnd
    BY <1>0, <2>1 DEF SubscriptionRow
  <2>3. DeadlineMatchesStatus' /\ JobReadsHold'
    BY <1>0, <1>1, <2>2 DEF DeadlineMatchesStatus, JobReadsHold
  <2> QED
    BY <1>0, <1>1, <1>2, <2>2, <2>3, RowReplaced DEF Existing
<1>5. CASE CancelNow(r)
  <2>1. subscription' = [subscription EXCEPT
          !.status = "canceled", !.cancelAtPeriodEnd = FALSE, !.periodEnd = 0]
    BY <1>5 DEF CancelNow
  <2>2. /\ subscription' \in SubscriptionRow /\ subscription'.plan = subscription.plan
        /\ subscription'.status = "canceled"
    BY <1>0, <2>1 DEF SubscriptionRow, Statuses, Days
  <2>3. DeadlineMatchesStatus' /\ JobReadsHold'
    BY <1>0, <1>1, <2>2 DEF DeadlineMatchesStatus, JobReadsHold
  <2> QED
    BY <1>0, <1>1, <1>2, <2>2, <2>3, RowReplaced
<1> QED
  BY <1>3, <1>4, <1>5 DEF CheckoutFree, DowngradeToFree

(* A trial is granted when there is no row, and there was none before it.   *)
LEMMA StartTrialHolds ==
    ASSUME IInv, NEW r \in Requests, StartTrial(r)
    PROVE  IInv'
<1>0. request \in [Requests -> Request] /\ request[r] \in Request
  BY DEF IInv, TypeOK
<1> DEFINE plan == request[r].plan
<1>1. plan \in Plans \cup {Free} /\ plan \in TrialPlans
  BY <1>0 DEF IInv, TrialsAllowed, StartTrial, Request
<1>2. request' \in [Requests -> Request] /\ TrialsAllowed'
  <2>1. request' = [request EXCEPT ![r] = Idle] /\ Idle.pc # "trial"
    BY DEF StartTrial, Idle
  <2> QED
    BY <2>1, IdleIsTyped, RequestMoves
<1>3. UNCHANGED <<invoice, redeemed, job>>
  BY DEF StartTrial
<1>4. CASE Existing
  BY <1>2, <1>3, <1>4, RequestOnly DEF StartTrial, CreateTrial
<1>5. CASE ~Existing
  <2>1. subscription' = TrialRow(plan) /\ trials' = trials + 1
    BY <1>5 DEF StartTrial, CreateTrial
  <2> HIDE DEF plan
  <2>2. /\ subscription' \in SubscriptionRow /\ subscription'.status = "trialing"
        /\ subscription'.plan = plan /\ subscription'.graceEnd = Never
    BY <1>1, <2>1, RowsAreTyped DEF IInv
  <2>3. trials = 0 /\ trials' = 1
    BY <1>5, <2>1 DEF IInv, TrialLeavesRow
  <2>4. TypeOK'
    BY <1>2, <1>3, <2>2, <2>3 DEF IInv, TypeOK
  <2>5. PlanAccountedFor' /\ TrialLeavesRow'
    BY <1>1, <2>2, <2>3 DEF PlanAccountedFor, AccountedFor, TrialLeavesRow, Existing
  <2>6. DeadlineMatchesStatus' /\ JobReadsHold'
    BY <1>3, <2>2 DEF IInv, DeadlineMatchesStatus, JobReadsHold
  <2> QED
    BY <1>2, <2>4, <2>5, <2>6 DEF IInv
<1> QED
  BY <1>4, <1>5

-----------------------------------------------------------------------------
(* The steps of invoices                                                    *)

(* An invoice is issued or settled; one that was paid and applied is left.  *)
LEMMA InvoicesHold ==
    ASSUME IInv, UNCHANGED <<subscription, redeemed, trials, job>>,
           invoice' \in [Invoices -> InvoiceRow],
           \A i \in Invoices : invoice[i].status = "paid" => invoice'[i] = invoice[i],
           request' \in [Requests -> Request], TrialsAllowed'
    PROVE  IInv'
<1>1. TypeOK'
  BY DEF IInv, TypeOK
<1>2. PlanAccountedFor' /\ TrialLeavesRow'
  BY DEF IInv, PlanAccountedFor, AccountedFor, TrialLeavesRow, Existing
<1>3. DeadlineMatchesStatus' /\ JobReadsHold'
  BY DEF IInv, DeadlineMatchesStatus, JobReadsHold
<1> QED
  BY <1>1, <1>2, <1>3 DEF IInv

LEMMA IssueInvoiceHolds ==
    ASSUME IInv, NEW r \in Requests, IssueInvoice(r)
    PROVE  IInv'
<1>0. invoice \in [Invoices -> InvoiceRow] /\ request[r] \in Request
  BY DEF IInv, TypeOK
<1>1. PICK coupon \in BOOLEAN, nothingDue \in BOOLEAN :
        invoice' = [invoice EXCEPT
          ![NewInvoice] = [status |-> IF nothingDue THEN "paid" ELSE "open",
                           plan |-> request[r].plan, coupon |-> coupon, applied |-> FALSE]]
  BY DEF IssueInvoice
<1>2. [status |-> IF nothingDue THEN "paid" ELSE "open",
       plan |-> request[r].plan, coupon |-> coupon, applied |-> FALSE] \in InvoiceRow
  BY <1>0 DEF InvoiceRow, Request
<1>3. NewInvoice \in Invoices /\ invoice[NewInvoice].status = "none"
  BY NewInvoiceIsFresh DEF IssueInvoice
<1>4. /\ invoice' \in [Invoices -> InvoiceRow]
      /\ \A i \in Invoices : invoice[i].status = "paid" => invoice'[i] = invoice[i]
  BY <1>0, <1>1, <1>2, <1>3
<1>5. request' \in [Requests -> Request] /\ TrialsAllowed'
  <2>1. request' = [request EXCEPT ![r] = Idle] /\ Idle.pc # "trial"
    BY DEF IssueInvoice, Idle
  <2> QED
    BY <2>1, IdleIsTyped, RequestMoves
<1> QED
  BY <1>4, <1>5, InvoicesHold DEF IssueInvoice

LEMMA MarkInvoicePaidHolds ==
    ASSUME IInv, NEW i \in Invoices, MarkInvoicePaid(i)
    PROVE  IInv'
<1>0. invoice \in [Invoices -> InvoiceRow] /\ invoice[i] \in InvoiceRow
  BY DEF IInv, TypeOK
<1> DEFINE after == [invoice[i] EXCEPT !.status = "paid"]
<1>1. after \in InvoiceRow
  BY <1>0 DEF InvoiceRow
<1>2. invoice' = [invoice EXCEPT ![i] = after] /\ invoice[i].status = "open"
  BY <1>0 DEF MarkInvoicePaid
<1> HIDE DEF after
<1>3. /\ invoice' \in [Invoices -> InvoiceRow]
      /\ \A k \in Invoices : invoice[k].status = "paid" => invoice'[k] = invoice[k]
  BY <1>0, <1>1, <1>2
<1>4. request' \in [Requests -> Request] /\ TrialsAllowed'
  BY DEF MarkInvoicePaid, IInv, TypeOK, TrialsAllowed
<1> QED
  BY <1>3, <1>4, InvoicesHold DEF MarkInvoicePaid

LEMMA ApplyPaidInvoiceHolds ==
    ASSUME IInv, NEW i \in Invoices, ApplyPaidInvoice(i)
    PROVE  IInv'
<1>0. invoice \in [Invoices -> InvoiceRow] /\ invoice[i] \in InvoiceRow
  BY DEF IInv, TypeOK
<1> DEFINE after == [invoice[i] EXCEPT !.applied = TRUE]
<1>1. /\ after \in InvoiceRow /\ after.applied = TRUE /\ after.status = invoice[i].status
      /\ after.plan = invoice[i].plan
  BY <1>0 DEF InvoiceRow
<1>2. invoice' = [invoice EXCEPT ![i] = after] /\ invoice[i].status = "paid"
  BY <1>0 DEF ApplyPaidInvoice, Appliable
<1> HIDE DEF after
<1>3. /\ invoice' \in [Invoices -> InvoiceRow] /\ invoice'[i].status = "paid"
      /\ invoice'[i].applied /\ invoice'[i].plan = invoice[i].plan
  BY <1>0, <1>1, <1>2
<1>4. /\ subscription' \in SubscriptionRow /\ subscription'.status = "active"
      /\ subscription'.plan = invoice[i].plan /\ subscription'.graceEnd = Never
  BY RowsAreTyped DEF ApplyPaidInvoice, IInv
<1>5. UNCHANGED <<trials, request, job>>
  BY DEF ApplyPaidInvoice
<1>6. redeemed' \in BOOLEAN
  BY <1>0 DEF ApplyPaidInvoice, IInv, TypeOK, InvoiceRow
<1>7. TypeOK'
  BY <1>3, <1>4, <1>5, <1>6 DEF IInv, TypeOK
<1>8. PlanAccountedFor'
  BY <1>3, <1>4 DEF PlanAccountedFor, AccountedFor
<1>9. TrialLeavesRow' /\ TrialsAllowed'
  BY <1>4, <1>5 DEF IInv, TrialLeavesRow, TrialsAllowed, Existing
<1>10. DeadlineMatchesStatus' /\ JobReadsHold'
  BY <1>4, <1>5 DEF IInv, DeadlineMatchesStatus, JobReadsHold
<1> QED
  BY <1>7, <1>8, <1>9, <1>10 DEF IInv

-----------------------------------------------------------------------------
(* The worker's steps, and the passing of days                              *)

LEMMA JobsAreTyped ==
    ASSUME TypeOK, NEW w \in Workers
    PROVE  /\ NoJob \in Job /\ NoJob.pc = "none"
           /\ Ends(w) =>
                /\ job' \in [Workers -> Job] /\ job'[w] = NoJob
                /\ \A v \in Workers \ {w} : job'[v] = job[v]
           /\ \A pc \in {"renew", "expire"} : Starts(w, pc) =>
                /\ job' \in [Workers -> Job] /\ job'[w].pc = pc
                /\ \A v \in Workers \ {w} : job'[v] = job[v]
<1>0. job \in [Workers -> Job] /\ subscription.periodEnd \in Days
  BY DEF TypeOK, SubscriptionRow
<1>1. NoJob \in Job /\ NoJob.pc = "none"
  BY DEF NoJob, Job, Days
<1>2. ASSUME NEW pc \in {"renew", "expire"}, Starts(w, pc)
      PROVE  /\ job' \in [Workers -> Job] /\ job'[w].pc = pc
             /\ \A v \in Workers \ {w} : job'[v] = job[v]
  <2> DEFINE taken == [NoJob EXCEPT
                         !.pc = pc,
                         !.periodEnd = IF pc = "renew" THEN subscription.periodEnd ELSE Never]
  <2>1. taken \in Job /\ taken.pc = pc
    BY <1>0 DEF NoJob, Job, Days
  <2>2. job' = [job EXCEPT ![w] = taken]
    BY <1>2 DEF Starts
  <2> HIDE DEF taken
  <2> QED
    BY <1>0, <2>1, <2>2
<1> QED
  BY <1>0, <1>1, <1>2 DEF Ends

LEMMA ScansHold ==
    ASSUME IInv, NEW w \in Workers,
           ScanDue(w) \/ NotifyUpcomingRenewal(w) \/ ScanOverdue(w)
    PROVE  IInv'
<1>0. subscription \in SubscriptionRow /\ job \in [Workers -> Job] /\ TypeOK
  BY DEF IInv, TypeOK
<1>1. UNCHANGED <<subscription, invoice, redeemed, trials, request>>
  BY DEF ScanDue, NotifyUpcomingRenewal, ScanOverdue
<1>2. /\ job' \in [Workers -> Job]
      /\ \A v \in Workers \ {w} : job'[v] = job[v]
      /\ job'[w].pc = "expire" => subscription.graceEnd = 0
  <2>1. CASE ScanDue(w)
    BY <1>0, <2>1, JobsAreTyped DEF ScanDue
  <2>2. CASE NotifyUpcomingRenewal(w)
    BY <1>0, <2>2, JobsAreTyped DEF NotifyUpcomingRenewal
  <2>3. CASE ScanOverdue(w)
    <3>1. subscription.graceEnd = 0
      BY <1>0, <2>3, SubscriptionsAssumption DEF ScanOverdue, AtMost, SubscriptionRow, Days
    <3> QED
      BY <1>0, <2>3, <3>1, JobsAreTyped DEF ScanOverdue
  <2> QED
    BY <2>1, <2>2, <2>3
<1>3. JobReadsHold'
  BY <1>1, <1>2 DEF IInv, JobReadsHold
<1>4. DeadlineMatchesStatus' /\ TrialsAllowed' /\ request' \in [Requests -> Request]
  BY <1>1 DEF IInv, TypeOK, DeadlineMatchesStatus, TrialsAllowed
<1> QED
  BY <1>0, <1>1, <1>2, <1>3, <1>4, RowReplaced DEF Existing

LEMMA GraceHolds ==
    ASSUME IInv, NEW w \in Workers, EnterGracePeriod(w)
    PROVE  IInv'
<1>0. subscription \in SubscriptionRow /\ job \in [Workers -> Job]
  BY DEF IInv, TypeOK
<1>1. UNCHANGED <<invoice, redeemed, trials, request>>
  BY DEF EnterGracePeriod
<1>2. /\ job' \in [Workers -> Job]
      /\ job'[w].pc = "none"
      /\ \A v \in Workers \ {w} :
           /\ job'[v].pc = job[v].pc
           /\ job'[v].regraced = (job[v].regraced \/ (job[v].pc = "expire" /\ StillRunning))
  <2> DEFINE noted(v) ==
        [job[v] EXCEPT !.regraced = @ \/ (job[v].pc = "expire" /\ StillRunning)]
  <2>1. NoJob \in Job /\ NoJob.pc = "none"
    BY <1>0, JobsAreTyped DEF IInv
  <2>2. \A v \in Workers :
          /\ noted(v) \in Job /\ noted(v).pc = job[v].pc
          /\ noted(v).regraced = (job[v].regraced \/ (job[v].pc = "expire" /\ StillRunning))
    BY <1>0 DEF Job
  <2>3. job' = [v \in Workers |-> IF v = w THEN NoJob ELSE noted(v)]
    BY DEF EnterGracePeriod
  <2> HIDE DEF noted
  <2> QED
    BY <2>1, <2>2, <2>3
<1>3. /\ subscription' \in SubscriptionRow /\ subscription'.plan = subscription.plan
      /\ Existing => subscription'.status # "none"
      /\ DeadlineMatchesStatus'
  <2>1. CASE StillRunning
    <3>1. subscription' = [subscription EXCEPT !.status = "past_due", !.graceEnd = GraceDays]
      BY <2>1 DEF EnterGracePeriod
    <3>2. GraceDays \in Days /\ GraceDays # Never
      BY SubscriptionsAssumption DEF Days
    <3>3. /\ subscription' \in SubscriptionRow /\ subscription'.plan = subscription.plan
          /\ subscription'.status = "past_due" /\ subscription'.graceEnd = GraceDays
      BY <1>0, <3>1, <3>2 DEF SubscriptionRow, Statuses
    <3> QED
      BY <3>2, <3>3 DEF DeadlineMatchesStatus
  <2>2. CASE ~StillRunning
    <3>1. subscription' = subscription
      BY <2>2 DEF EnterGracePeriod
    <3> QED
      BY <1>0, <3>1 DEF IInv, DeadlineMatchesStatus, Existing
  <2> QED
    BY <2>1, <2>2
<1>4. JobReadsHold'
  <2>1. CASE StillRunning
    BY <1>2, <2>1 DEF JobReadsHold
  <2>2. CASE ~StillRunning
    <3>1. subscription' = subscription
      BY <2>2 DEF EnterGracePeriod
    <3> QED
      BY <1>2, <3>1 DEF IInv, JobReadsHold
  <2> QED
    BY <2>1, <2>2
<1>5. TrialsAllowed' /\ request' \in [Requests -> Request]
  BY <1>1 DEF IInv, TypeOK, TrialsAllowed
<1> QED
  BY <1>1, <1>2, <1>3, <1>4, <1>5, RowReplaced

LEMMA ExpireHolds ==
    ASSUME IInv, NEW w \in Workers, Expire(w)
    PROVE  IInv'
<1>0. subscription \in SubscriptionRow /\ job \in [Workers -> Job]
  BY DEF IInv, TypeOK
<1>1. UNCHANGED <<invoice, redeemed, trials, request>>
  BY DEF Expire
<1>2. /\ job' \in [Workers -> Job] /\ job'[w].pc = "none"
      /\ \A v \in Workers \ {w} : job'[v] = job[v]
  BY JobsAreTyped DEF Expire, IInv
<1>3. /\ subscription' \in SubscriptionRow
      /\ subscription'.plan = subscription.plan \/ subscription'.plan = Free
      /\ Existing => subscription'.status # "none"
      /\ DeadlineMatchesStatus'
  <2>1. CASE StillOverdue
    <3>1. subscription' = [FreeRow EXCEPT !.cancelAtPeriodEnd = subscription.cancelAtPeriodEnd]
      BY <2>1 DEF Expire
    <3>2. /\ FreeRow \in SubscriptionRow /\ FreeRow.status = "active"
          /\ FreeRow.plan = Free /\ FreeRow.graceEnd = Never
      BY RowsAreTyped DEF IInv
    <3>3. /\ subscription' \in SubscriptionRow /\ subscription'.plan = Free
          /\ subscription'.status = "active" /\ subscription'.graceEnd = Never
      BY <1>0, <3>1, <3>2 DEF SubscriptionRow
    <3> QED
      BY <3>3 DEF DeadlineMatchesStatus
  <2>2. CASE ~StillOverdue
    <3>1. subscription' = subscription
      BY <2>2 DEF Expire
    <3> QED
      BY <1>0, <3>1 DEF IInv, DeadlineMatchesStatus, Existing
  <2> QED
    BY <2>1, <2>2
<1>4. JobReadsHold'
  <2>1. CASE StillOverdue
    <3>1. subscription' = [FreeRow EXCEPT !.cancelAtPeriodEnd = subscription.cancelAtPeriodEnd]
      BY <2>1 DEF Expire
    <3>2. FreeRow \in SubscriptionRow /\ FreeRow.status = "active"
      BY RowsAreTyped DEF IInv
    <3>3. subscription'.status # "past_due"
      BY <3>1, <3>2 DEF SubscriptionRow
    <3> QED
      BY <3>3 DEF JobReadsHold
  <2>2. CASE ~StillOverdue
    <3>1. subscription' = subscription
      BY <2>2 DEF Expire
    <3> QED
      BY <1>2, <3>1 DEF IInv, JobReadsHold
  <2> QED
    BY <2>1, <2>2
<1>5. TrialsAllowed' /\ request' \in [Requests -> Request]
  BY <1>1 DEF IInv, TypeOK, TrialsAllowed
<1> QED
  BY <1>1, <1>2, <1>3, <1>4, <1>5, RowReplaced

LEMMA TickHolds ==
    ASSUME IInv, Tick
    PROVE  IInv'
<1>0. /\ subscription \in SubscriptionRow /\ job \in [Workers -> Job]
      /\ subscription.periodEnd \in Days /\ subscription.graceEnd \in Days
      /\ \A w \in Workers : job[w].periodEnd \in Days
  BY DEF IInv, TypeOK, SubscriptionRow, Job
<1>1. UNCHANGED <<invoice, redeemed, trials, request>>
  BY DEF Tick
<1>2. /\ DayLess(subscription.periodEnd) \in Days /\ DayLess(subscription.graceEnd) \in Days
      /\ \A w \in Workers : DayLess(job[w].periodEnd) \in Days
      /\ DayLess(subscription.graceEnd) = Never <=> subscription.graceEnd = Never
      /\ subscription.graceEnd = 0 => DayLess(subscription.graceEnd) = 0
  BY <1>0, DaysPass
<1>3. /\ subscription' = [subscription EXCEPT !.periodEnd = DayLess(subscription.periodEnd),
                                             !.graceEnd = DayLess(subscription.graceEnd)]
      /\ job' = [w \in Workers |-> [job[w] EXCEPT !.periodEnd = DayLess(job[w].periodEnd)]]
  BY DEF Tick
<1>4. /\ subscription' \in SubscriptionRow /\ subscription'.plan = subscription.plan
      /\ subscription'.status = subscription.status
      /\ subscription'.graceEnd = DayLess(subscription.graceEnd)
  BY <1>0, <1>2, <1>3 DEF SubscriptionRow
<1>5. /\ job' \in [Workers -> Job]
      /\ \A w \in Workers : job'[w].pc = job[w].pc /\ job'[w].regraced = job[w].regraced
  <2> DEFINE later(w) == [job[w] EXCEPT !.periodEnd = DayLess(job[w].periodEnd)]
  <2>1. \A w \in Workers :
          later(w) \in Job /\ later(w).pc = job[w].pc /\ later(w).regraced = job[w].regraced
    BY <1>0, <1>2 DEF Job
  <2>2. job' = [w \in Workers |-> later(w)]
    BY <1>3
  <2> HIDE DEF later
  <2> QED
    BY <2>1, <2>2
<1>6. DeadlineMatchesStatus' /\ JobReadsHold'
  BY <1>2, <1>4, <1>5 DEF IInv, DeadlineMatchesStatus, JobReadsHold
<1>7. TrialsAllowed' /\ request' \in [Requests -> Request]
  BY <1>1 DEF IInv, TypeOK, TrialsAllowed
<1> QED
  BY <1>1, <1>4, <1>5, <1>6, <1>7, RowReplaced DEF Existing

-----------------------------------------------------------------------------
(* The theorems                                                             *)

LEMMA InitHolds ==
    Init => IInv
<1> SUFFICES ASSUME Init
             PROVE  IInv
  OBVIOUS
<1>1. subscription \in SubscriptionRow
  BY DEF Init, SubscriptionRow, Statuses, Days
<1>2. invoice \in [Invoices -> InvoiceRow] /\ job \in [Workers -> Job]
  BY DEF Init, InvoiceRow, Job, NoJob, Days
<1>3. request \in [Requests -> Request] /\ redeemed \in BOOLEAN /\ trials \in Nat
  BY IdleIsTyped DEF Init
<1>4. PlanAccountedFor /\ TrialsAllowed /\ TrialLeavesRow /\ DeadlineMatchesStatus /\ JobReadsHold
  BY DEF Init, PlanAccountedFor, TrialsAllowed, TrialLeavesRow, DeadlineMatchesStatus,
         JobReadsHold, NoJob, Idle
<1> QED
  BY <1>1, <1>2, <1>3, <1>4 DEF IInv, TypeOK

LEMMA StepHolds ==
    IInv /\ [Next]_vars => IInv'
<1> SUFFICES ASSUME IInv, [Next]_vars
             PROVE  IInv'
  OBVIOUS
<1>1. CASE Next
  BY <1>1, CheckoutPlanHolds, AskingHolds, WritingHolds, StartTrialHolds, IssueInvoiceHolds,
     MarkInvoicePaidHolds, ApplyPaidInvoiceHolds, ScansHold, GraceHolds, ExpireHolds, TickHolds
     DEF Next, RequestStep, WorkerStep
<1>2. CASE UNCHANGED vars
  <2>1. request' \in [Requests -> Request] /\ TrialsAllowed'
    BY <1>2 DEF vars, IInv, TypeOK, TrialsAllowed
  <2> QED
    BY <1>2, <2>1, RequestOnly DEF vars
<1> QED
  BY <1>1, <1>2

(* The subscription, its trial, its deadline and the worker's job are as    *)
(* the definitions above say in every state.                                *)
THEOREM InvariantHolds == Spec => []IInv
  BY InitHolds, StepHolds, PTL DEF Spec

(* Every column and every local holds a value of its type. *)
THEOREM TypeCorrect == Spec => []TypeOK
<1>1. IInv => TypeOK
  BY DEF IInv
<1> QED
  BY <1>1, InvariantHolds, PTL

(* docs/billing/subscriptions.md, 1: a paid plan is served in the one trial *)
(* or on behalf of an invoice for it that was paid and applied.             *)
THEOREM PlansArePaidFor == Spec => []NoPlanWithoutPaymentOrTrial
<1>1. IInv => NoPlanWithoutPaymentOrTrial
  BY DEF IInv, PlanAccountedFor, AccountedFor, NoPlanWithoutPaymentOrTrial
<1> QED
  BY <1>1, InvariantHolds, PTL

(* checkout: the trial is granted once, however many requests found no      *)
(* subscription.                                                            *)
THEOREM OneTrial == Spec => []TrialOnce
<1>1. IInv => TrialOnce
  BY DEF IInv, TrialLeavesRow, TrialOnce
<1> QED
  BY <1>1, InvariantHolds, PTL

(* What is past due has the deadline the expiry scan looks for.             *)
THEOREM DeadlineKept == Spec => []DeadlineMatchesStatus
<1>1. IInv => DeadlineMatchesStatus
  BY DEF IInv
<1> QED
  BY <1>1, InvariantHolds, PTL

LEMMA DowngradesAreExpiries ==
    ASSUME IInv, [Next]_vars, NEW w \in Workers, Downgrades(w)
    PROVE  Expire(w)
<1>1. job[w].pc = "expire" /\ job'[w].pc = "none" /\ job'[w] # job[w]
  BY DEF Downgrades
<1>2. ASSUME NEW v \in Workers, ScanDue(v) \/ ScanOverdue(v) \/ NotifyUpcomingRenewal(v)
      PROVE  FALSE
  BY <1>2 DEF ScanDue, ScanOverdue, NotifyUpcomingRenewal, Downgrades
<1>3. ASSUME NEW v \in Workers, EnterGracePeriod(v)
      PROVE  FALSE
  <2>1. v # w
    BY <1>1, <1>3 DEF EnterGracePeriod
  <2>2. job'[w] = [job[w] EXCEPT !.regraced = @ \/ (job[w].pc = "expire" /\ StillRunning)]
    BY <1>3, <2>1 DEF EnterGracePeriod
  <2>3. job[w] \in Job
    BY DEF IInv, TypeOK
  <2>4. job'[w].pc = job[w].pc
    BY <2>2, <2>3 DEF Job
  <2> QED
    BY <1>1, <2>4
<1>4. ASSUME NEW v \in Workers, Expire(v)
      PROVE  Expire(w)
  <2>1. job \in [Workers -> Job]
    BY DEF IInv, TypeOK
  <2>2. v = w
    BY <1>1, <1>4, <2>1 DEF Expire, Ends
  <2> QED
    BY <1>4, <2>2
<1>5. CASE Tick
  <2>1. job[w] \in Job /\ job'[w] = [job[w] EXCEPT !.periodEnd = DayLess(@)]
    BY <1>5 DEF Tick, IInv, TypeOK
  <2>2. job'[w].pc = job[w].pc
    BY <2>1 DEF Job
  <2> QED
    BY <1>1, <2>2
<1>6. CASE UNCHANGED job
  BY <1>1, <1>6
<1> QED
  BY <1>2, <1>3, <1>4, <1>5, <1>6
     DEF Next, vars, RequestStep, WorkerStep, CheckoutFree, CheckoutPlan, StartTrial,
         IssueInvoice, Cancel, CancelAtPeriodEnd, CancelNow, DowngradeToFree, Resume,
         UndoCancel, LoseRequest, MarkInvoicePaid, ApplyPaidInvoice

LEMMA DowngradedWasOverdue ==
    ASSUME IInv, [Next]_vars, NEW w \in Workers, Downgrades(w)
    PROVE  /\ subscription.status = "past_due"
           /\ subscription.graceEnd = 0 \/ job[w].regraced
<1>1. Expire(w) /\ subscription' # subscription
  BY DowngradesAreExpiries DEF Downgrades
<1>2. subscription.status = "past_due"
  BY <1>1 DEF Expire, StillOverdue
<1> QED
  BY <1>1, <1>2 DEF Expire, IInv, JobReadsHold

(* handleBillingExpirations, with any number of worker processes: what was  *)
(* paid for since the row was read stays, and only a grace period that      *)
(* another worker has begun since is cut short.                             *)
THEOREM GraceIsGiven == Spec => EarlyDowngradeWasRegraced
<1>1. IInv /\ [Next]_vars =>
        [\A w \in Workers :
           Downgrades(w) =>
              /\ subscription.status = "past_due"
              /\ subscription.graceEnd = 0 \/ job[w].regraced]_vars
  BY DowngradedWasOverdue
<1> QED
  BY <1>1, InvariantHolds, PTL DEF Spec, EarlyDowngradeWasRegraced

(* Nobody begins a grace period beside the only worker's expiry. *)
NeverRegraced == \A w \in Workers : ~job[w].regraced

LEMMA OneWorkerNeverRegraces ==
    ASSUME \A v, w \in Workers : v = w
    PROVE  Spec => []NeverRegraced
<1>1. Init => NeverRegraced
  BY DEF Init, NeverRegraced, NoJob
<1>2. ASSUME TypeOK, NeverRegraced, [Next]_vars
      PROVE  NeverRegraced'
  <2>0. job \in [Workers -> Job] /\ ~NoJob.regraced
    BY <1>2 DEF TypeOK, NoJob
  <2>1. ASSUME NEW w \in Workers, NEW pc \in {"renew", "expire"}, Starts(w, pc)
        PROVE  NeverRegraced'
    <3>1. ~job'[w].regraced /\ job' \in [Workers -> Job]
      BY <2>0, <2>1, JobsAreTyped, <1>2 DEF Starts, NoJob
    <3> QED
      BY <3>1 DEF NeverRegraced
  <2>2. ASSUME NEW w \in Workers, Ends(w) \/ EnterGracePeriod(w)
        PROVE  NeverRegraced'
    BY <2>0, <2>2 DEF Ends, EnterGracePeriod, NeverRegraced
  <2>3. CASE Tick
    <3>1. ASSUME NEW w \in Workers
          PROVE  ~job'[w].regraced
      <4>1. job[w] \in Job /\ job'[w] = [job[w] EXCEPT !.periodEnd = DayLess(@)]
        BY <2>0, <2>3 DEF Tick
      <4> QED
        BY <1>2, <4>1 DEF Job, NeverRegraced
    <3> QED
      BY <3>1 DEF NeverRegraced
  <2>4. CASE UNCHANGED job
    BY <1>2, <2>4 DEF NeverRegraced
  <2> QED
    BY <1>2, <2>1, <2>2, <2>3, <2>4
       DEF Next, vars, RequestStep, WorkerStep, CheckoutFree, CheckoutPlan, StartTrial,
           IssueInvoice, Cancel, CancelAtPeriodEnd, CancelNow, DowngradeToFree, Resume,
           UndoCancel, LoseRequest, MarkInvoicePaid, ApplyPaidInvoice, ScanDue, ScanOverdue,
           NotifyUpcomingRenewal, Expire
<1> QED
  BY <1>1, <1>2, TypeCorrect, PTL DEF Spec

(* main.ts:235, of a deployment with one worker process: its renewals and   *)
(* expiries take turns, and no plan is taken before its grace is over.      *)
THEOREM OneWorkerGivesGrace ==
    ASSUME \A v, w \in Workers : v = w
    PROVE  Spec => NoDowngradeWithinGrace
<1>1. IInv /\ NeverRegraced /\ [Next]_vars =>
        [\A w \in Workers : Downgrades(w) => subscription.graceEnd = 0]_vars
  BY DowngradedWasOverdue DEF NeverRegraced
<1> QED
  BY <1>1, InvariantHolds, OneWorkerNeverRegraces, PTL DEF Spec, NoDowngradeWithinGrace

-----------------------------------------------------------------------------
(* Together with the payment flow                                           *)

(* A step of the two is a step of the subscription, or leaves it alone.     *)
LEMMA BillingStepIsStep ==
    [BillingNext]_billingVars => [Next]_vars
  BY DEF BillingNext, BillCheckout, TakeMoney, ConfirmInvoice, Unbilled, Next, RequestStep,
         billingVars, vars

(* The composition restricts Subscriptions and adds nothing to it, so that   *)
(* whatever is proved of Subscriptions holds of it.                          *)
THEOREM BillingImplementsSubscriptions == BillingSpec => Spec
<1>1. BillingInit => Init
  BY DEF BillingInit
<1> QED
  BY <1>1, BillingStepIsStep, PTL DEF BillingSpec, Spec

(* What an issue does to the books. *)
LEMMA CheckoutBills ==
    ASSUME TypeOK, BooksHold, NEW r \in Requests, BillCheckout(r)
    PROVE  \E i \in Invoices, s \in {"paid", "open"} :
              /\ invoice[i].status = "none"
              /\ invoice' \in [Invoices -> InvoiceRow]
              /\ invoice'[i].status = s
              /\ \A k \in Invoices \ {i} : invoice'[k] = invoice[k]
              /\ zeroDue' = IF s = "paid" THEN zeroDue \cup {i} ELSE zeroDue
              /\ collected' = collected
<1>0. invoice \in [Invoices -> InvoiceRow] /\ request[r] \in Request
  BY DEF TypeOK
<1>1. PICK coupon \in BOOLEAN, free \in BOOLEAN :
        invoice' = [invoice EXCEPT
          ![NewInvoice] = [status |-> IF free THEN "paid" ELSE "open",
                           plan |-> request[r].plan, coupon |-> coupon, applied |-> FALSE]]
  BY DEF BillCheckout, IssueInvoice
<1> DEFINE s == IF free THEN "paid" ELSE "open"
           row == [status |-> s, plan |-> request[r].plan, coupon |-> coupon, applied |-> FALSE]
<1>2. row \in InvoiceRow /\ row.status = s /\ s \in {"paid", "open"}
  BY <1>0 DEF InvoiceRow, Request
<1>3. invoice' = [invoice EXCEPT ![NewInvoice] = row]
  BY <1>1
<1> HIDE DEF row, s
<1>4. NewInvoice \in Invoices /\ invoice[NewInvoice].status = "none"
  BY NewInvoiceIsFresh DEF BillCheckout, IssueInvoice
<1>5. /\ invoice' \in [Invoices -> InvoiceRow]
      /\ invoice'[NewInvoice].status = s
      /\ \A k \in Invoices \ {NewInvoice} : invoice'[k] = invoice[k]
  BY <1>0, <1>2, <1>3, <1>4
<1>6. {i \in FreshInvoices : invoice'[i].status = "paid"} =
        IF s = "paid" THEN {NewInvoice} ELSE {}
  BY <1>4, <1>5 DEF FreshInvoices
<1>7. /\ zeroDue' = IF s = "paid" THEN zeroDue \cup {NewInvoice} ELSE zeroDue
      /\ collected' = collected
  BY <1>6 DEF BillCheckout
<1> QED
  BY <1>2, <1>4, <1>5, <1>7

LEMMA ConfirmationSettles ==
    ASSUME TypeOK, NEW i \in Invoices, ConfirmInvoice(i)
    PROVE  /\ invoice[i].status = "open" /\ i \in collected
           /\ invoice'[i].status = "paid"
           /\ \A k \in Invoices \ {i} : invoice'[k] = invoice[k]
           /\ UNCHANGED <<zeroDue, collected>>
  BY DEF TypeOK, ConfirmInvoice, MarkInvoicePaid, InvoiceRow

LEMMA BooksStepHolds ==
    ASSUME TypeOK, BooksHold, [BillingNext]_billingVars
    PROVE  BooksHold'
<1>1. ASSUME NEW r \in Requests, BillCheckout(r)
      PROVE  BooksHold'
  BY <1>1, CheckoutBills DEF BooksHold
<1>2. ASSUME NEW i \in Invoices, TakeMoney(i)
      PROVE  BooksHold'
  BY <1>2 DEF TakeMoney, Books!Collect, BooksHold, vars
<1>3. ASSUME NEW i \in Invoices, ConfirmInvoice(i)
      PROVE  BooksHold'
  BY <1>3, ConfirmationSettles DEF BooksHold
<1>4. CASE Unbilled
  BY <1>4 DEF Unbilled, BooksHold
<1>5. CASE UNCHANGED billingVars
  BY <1>5 DEF billingVars, BooksHold
<1> QED
  BY <1>1, <1>2, <1>3, <1>4, <1>5 DEF BillingNext

LEMMA BooksAlwaysHold == BillingSpec => [](TypeOK /\ BooksHold)
<1>1. BillingInit => BooksHold
  BY DEF BillingInit, BooksHold, Init
<1>2. BillingSpec => []TypeOK
  BY BillingImplementsSubscriptions, TypeCorrect, PTL
<1>3. TypeOK /\ BooksHold /\ [BillingNext]_billingVars => BooksHold'
  BY BooksStepHolds
<1> QED
  BY <1>1, <1>2, <1>3, PTL DEF BillingSpec

(* docs/billing/subscriptions.md, 1, over both services: nobody is served a  *)
(* paid plan beyond the trial but for an invoice that asked for nothing or   *)
(* whose money the gateway took.                                             *)
THEOREM MoneyBehindEveryPlan == BillingSpec => []NoPlanWithoutMoneyOrTrial
<1>1. BillingSpec => []NoPlanWithoutPaymentOrTrial
  BY BillingImplementsSubscriptions, PlansArePaidFor, PTL
<1>2. NoPlanWithoutPaymentOrTrial /\ BooksHold => NoPlanWithoutMoneyOrTrial
  BY DEF NoPlanWithoutPaymentOrTrial, BooksHold, NoPlanWithoutMoneyOrTrial
<1> QED
  BY <1>1, <1>2, BooksAlwaysHold, PTL

LEMMA BooksStepImplements ==
    ASSUME TypeOK, BooksHold, [BillingNext]_billingVars
    PROVE  Books!SettlementNext \/ UNCHANGED Books!settlementVars
<1>1. ASSUME NEW r \in Requests, BillCheckout(r)
      PROVE  Books!SettlementNext
  <2>1. PICK i \in Invoices, s \in {"paid", "open"} :
              /\ invoice[i].status = "none"
              /\ invoice'[i].status = s
              /\ \A k \in Invoices \ {i} : invoice'[k] = invoice[k]
              /\ zeroDue' = IF s = "paid" THEN zeroDue \cup {i} ELSE zeroDue
              /\ collected' = collected
    BY <1>1, CheckoutBills
  <2>2. PICK t \in {"open", "free"} : t = IF s = "paid" THEN "free" ELSE "open"
    OBVIOUS
  <2>3. Standing(i) = "none" /\ Standing(i)' = t
    BY <2>1, <2>2 DEF Standing, BooksHold
  <2>4. \A k \in Invoices \ {i} : Standing(k)' = Standing(k)
    BY <2>1 DEF Standing
  <2>5. [k \in Invoices |-> Standing(k)'] =
          [[k \in Invoices |-> Standing(k)] EXCEPT ![i] = t]
    BY <2>3, <2>4
  <2>6. Books!IssueAs(i, t)
    BY <2>1, <2>3, <2>5 DEF Books!IssueAs
  <2> QED
    BY <2>6 DEF Books!SettlementNext
<1>2. ASSUME NEW i \in Invoices, TakeMoney(i)
      PROVE  Books!SettlementNext
  BY <1>2 DEF TakeMoney, Books!SettlementNext
<1>3. ASSUME NEW i \in Invoices, ConfirmInvoice(i)
      PROVE  Books!SettlementNext
  <2>1. Standing(i) = "open" /\ Standing(i)' = "paid"
    BY <1>3, ConfirmationSettles DEF Standing, BooksHold
  <2>2. \A k \in Invoices \ {i} : Standing(k)' = Standing(k)
    BY <1>3, ConfirmationSettles DEF Standing
  <2>3. [k \in Invoices |-> Standing(k)'] =
          [[k \in Invoices |-> Standing(k)] EXCEPT ![i] = "paid"]
    BY <2>1, <2>2
  <2>4. Books!SettleInvoice(i)
    BY <1>3, <2>1, <2>3, ConfirmationSettles DEF Books!SettleInvoice
  <2> QED
    BY <2>4 DEF Books!SettlementNext
<1>4. CASE Unbilled
  <2>1. \A k \in Invoices : Standing(k)' = Standing(k)
    BY <1>4 DEF Unbilled, Standing
  <2> QED
    BY <1>4, <2>1 DEF Unbilled, Books!settlementVars
<1>5. CASE UNCHANGED billingVars
  BY <1>5 DEF billingVars, Books!settlementVars, Standing
<1> QED
  BY <1>1, <1>2, <1>3, <1>4, <1>5 DEF BillingNext

(* The composition keeps the promise Payments is shown to implement: what    *)
(* Subscriptions takes the payment flow for is what it is.                   *)
THEOREM BillingKeepsTheBooks == BillingSpec => ImplementsBooks
<1>1. BillingInit => Books!SettlementInit
  BY DEF BillingInit, Init, Books!SettlementInit, Standing
<1>2. TypeOK /\ BooksHold /\ [BillingNext]_billingVars
        => [Books!SettlementNext]_(Books!settlementVars)
  BY BooksStepImplements
<1> QED
  BY <1>1, <1>2, BooksAlwaysHold, PTL
     DEF BillingSpec, ImplementsBooks, Books!SettlementSpec
=============================================================================
