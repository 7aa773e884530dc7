------------------------------ MODULE Billing ------------------------------
(***************************************************************************)
(* Subscriptions together with the payment flow it depends on.  Of that    *)
(* flow it takes what Payments is shown to implement, Settlement: the two  *)
(* share the status of the invoices and take the steps that change one     *)
(* together, so that here an invoice is settled only when the gateway took *)
(* money for it.                                                           *)
(***************************************************************************)
EXTENDS Subscriptions

VARIABLES
    zeroDue,     \* the invoices issued with totalBaisa = 0
    collected    \* the invoices the gateway took money for

billingVars == <<subscription, invoice, redeemed, trials, request, job, zeroDue, collected>>

(* How the payment flow sees an invoice. *)
Standing(i) ==
    IF i \in zeroDue THEN "free" ELSE invoice[i].status

Books == INSTANCE Settlement WITH
    status <- [i \in Invoices |-> Standing(i)]

BillingInit == Init /\ zeroDue = {} /\ collected = {}

(* checkout: an invoice that asks for nothing is marked paid as it is issued. *)
BillCheckout(r) ==
    /\ IssueInvoice(r)
    /\ zeroDue' = zeroDue \cup {i \in FreshInvoices : invoice'[i].status = "paid"}
    /\ UNCHANGED collected

(* A customer pays at the gateway, for whichever session of the invoice. *)
TakeMoney(i) ==
    /\ UNCHANGED <<vars, zeroDue>>
    /\ Books!Collect(i)

(* confirmPayment: the gateway is asked before the invoice is marked. *)
ConfirmInvoice(i) ==
    /\ i \in collected
    /\ MarkInvoicePaid(i)
    /\ UNCHANGED <<zeroDue, collected>>

(* Whatever else an organisation and the worker do to the subscription. *)
Unbilled ==
    /\ \/ \E r \in Requests : RequestStep(r)
       \/ \E i \in Invoices : ApplyPaidInvoice(i)
       \/ \E w \in Workers : WorkerStep(w)
       \/ Tick
    /\ \A i \in Invoices : invoice'[i].status = invoice[i].status
    /\ UNCHANGED <<zeroDue, collected>>

BillingNext ==
    \/ \E r \in Requests : BillCheckout(r)
    \/ \E i \in Invoices : TakeMoney(i) \/ ConfirmInvoice(i)
    \/ Unbilled

BillingSpec == BillingInit /\ [][BillingNext]_billingVars

-----------------------------------------------------------------------------
(* Properties                                                               *)

(* The sets hold invoices; what asks for nothing was settled at issue, and   *)
(* whatever else is settled was collected.                                   *)
BooksHold ==
    /\ zeroDue \subseteq Invoices
    /\ collected \subseteq Invoices
    /\ \A i \in Invoices :
         /\ i \in zeroDue => invoice[i].status = "paid"
         /\ invoice[i].status = "paid" => i \in zeroDue \cup collected

(* docs/billing/subscriptions.md, 1, from the customer to the plan: a paid   *)
(* plan is served only in the one trial, or on behalf of an invoice for that *)
(* plan that asked for nothing or that the gateway took money for, whatever  *)
(* sessions, confirmations, checkouts and cancellations overlapped.  Neither *)
(* service looks at both ends: applyPaidInvoice reads the invoice only.      *)
NoPlanWithoutMoneyOrTrial ==
    (Entitled /\ subscription.plan # Free) =>
        \/ trials > 0 /\ subscription.plan \in TrialPlans
        \/ \E i \in zeroDue \cup collected :
             /\ invoice[i].status = "paid"
             /\ invoice[i].plan = subscription.plan
             /\ invoice[i].applied

(* What Subscriptions takes the payment flow for is what Payments promises. *)
ImplementsBooks == Books!SettlementSpec
=============================================================================
