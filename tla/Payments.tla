------------------------------ MODULE Payments ------------------------------
(***************************************************************************)
(* Invoices, checkout sessions and their confirmation:                     *)
(* apps/api/src/billing/invoices.service.ts, the routes that reach it      *)
(* (billing.controller.ts, billing-webhook.controller.ts), the gateway     *)
(* adapter (providers/thawani.provider.ts) and the worker job that closes  *)
(* stale payments (apps/worker/src/billing/cycle-handler.ts).              *)
(*                                                                         *)
(* One organisation.  Each database transaction, and each call of the      *)
(* gateway, is one step of a request; requests interleave between steps,   *)
(* and a request may be lost at any of them (process stop, time-out).      *)
(***************************************************************************)
EXTENDS Pricing, FiniteSets

CONSTANTS
    Invoices,      \* identities of invoice rows
    PaymentIds,    \* identities of payment rows; also their client references
    Requests,      \* API requests in flight at the same time
    Offers,        \* invoice lines with their coupon: [unit, quantity, coupon]
    SessionTTL,    \* SESSION_TTL_MS
    RlsEnforced,   \* the worker's database role is subject to row security
    Declines,      \* ways a session ends unpaid: within {"failed", "canceled"}
    MaxTime,       \* bound: no step needs the clock beyond it
    NoInvoice,     \* null invoice of a request
    NoPayment      \* null payment of a request

ASSUME PaymentsAssumption ==
    /\ Offers \subseteq [unit : Nat, quantity : Nat, coupon : Coupon]
    /\ SessionTTL \in Nat
    /\ RlsEnforced \in BOOLEAN
    /\ Declines \subseteq {"failed", "canceled"}
    /\ MaxTime \in Nat
    /\ NoInvoice \notin Invoices
    /\ NoPayment \notin PaymentIds
    /\ IsFiniteSet(PaymentIds)
    /\ IsFiniteSet(Requests)

VARIABLES
    now,        \* the database clock
    invoice,    \* invoices table
    payment,    \* payments table
    gateway,    \* the gateway's side of each payment's checkout session
    request     \* control state of each request

vars == <<now, invoice, payment, gateway, request>>

NullTime == -1

InvoiceStatus == {"none", "open", "paid"}

ProviderPaymentStatus == {"pending", "paid", "failed", "canceled"}

InvoiceRow ==
    [status : InvoiceStatus, lineTotal : Nat, total : Int, amountPaid : Int]

PaymentRow ==
    [status : {"none"} \cup ProviderPaymentStatus,
     invoice : Invoices \cup {NoInvoice},
     amount : Int,
     session : BOOLEAN,
     expiresAt : Int]

GatewaySession ==
    [status : {"none"} \cup ProviderPaymentStatus, charge : Nat, expiresAt : Int]

Request ==
    [pc : {"idle", "session", "provider", "store", "query", "settle", "apply"},
     invoice : Invoices \cup {NoInvoice},
     payment : PaymentIds \cup {NoPayment},
     answer : ProviderPaymentStatus]

Idle ==
    [pc |-> "idle", invoice |-> NoInvoice, payment |-> NoPayment, answer |-> "pending"]

At(pc, i, p, answer) ==
    [pc |-> pc, invoice |-> i, payment |-> p, answer |-> answer]

Init ==
    /\ now = 0
    /\ invoice = [i \in Invoices |->
                    [status |-> "none", lineTotal |-> 0, total |-> 0, amountPaid |-> 0]]
    /\ payment = [p \in PaymentIds |->
                    [status |-> "none", invoice |-> NoInvoice, amount |-> 0,
                     session |-> FALSE, expiresAt |-> NullTime]]
    /\ gateway = [p \in PaymentIds |->
                    [status |-> "none", charge |-> 0, expiresAt |-> NullTime]]
    /\ request = [r \in Requests |-> Idle]

-----------------------------------------------------------------------------
(* Issuing an invoice, and opening a checkout session for it.              *)

(* Rows get fresh identities; which of the unused ones makes no difference. *)
AnyInvoices == Invoices

FreshInvoices == {i \in Invoices : invoice[i].status = "none"}

NewInvoice == CHOOSE i \in FreshInvoices : TRUE

FreshPayments == {p \in PaymentIds : payment[p].status = "none"}

NewPayment == CHOOSE p \in FreshPayments : TRUE

LineTotal(offer) == offer.unit * offer.quantity

(* An invoice of nothing is settled as it is issued. *)
Issued(offer) ==
    LET amounts == ComputeInvoiceAmounts(LineTotal(offer), offer.coupon, VatRateBps)
    IN  [status |-> IF amounts.total = 0 THEN "paid" ELSE "open",
         lineTotal |-> LineTotal(offer),
         total |-> amounts.total,
         amountPaid |-> 0]

(* subscriptions.checkout: issue, then apply at once or go and open a session. *)
IssueInvoice(r) ==
    /\ request[r].pc = "idle"
    /\ FreshInvoices # {}
    /\ \E offer \in Offers :
        /\ invoice' = [invoice EXCEPT ![NewInvoice] = Issued(offer)]
        /\ request' = [request EXCEPT
             ![r] = At(IF Issued(offer).total = 0 THEN "apply" ELSE "session",
                       NewInvoice, NoPayment, "pending")]
    /\ UNCHANGED <<now, payment, gateway>>

NeverReusable(p, i) == FALSE

(* The session a checkout may hand out again instead of opening another. *)
Reusable(p, i) ==
    /\ payment[p].invoice = i
    /\ payment[p].status = "pending"
    /\ payment[p].expiresAt > now

(* createCheckout up to the call of the gateway: its read of the invoice    *)
(* with a payment to reuse, and the insertion of a payment if there is      *)
(* none.  They are two transactions, but one step is as good as two: until  *)
(* its session is stored the new row (expiresAt null, no session) is found  *)
(* by no other read.                                                        *)
CreateCheckout(r, i) ==
    \/ /\ \E p \in PaymentIds : Reusable(p, i)
       /\ request' = [request EXCEPT ![r] = Idle]
       /\ UNCHANGED payment
    \/ /\ ~\E p \in PaymentIds : Reusable(p, i)
       /\ FreshPayments # {}
       /\ payment' = [payment EXCEPT
            ![NewPayment] = [status |-> "pending",
                             invoice |-> i,
                             amount |-> invoice[i].total,
                             session |-> FALSE,
                             expiresAt |-> NullTime]]
       /\ request' = [request EXCEPT ![r] = At("provider", i, NewPayment, "pending")]

(* subscriptions.checkout goes on with the invoice it issued. *)
CheckoutIssued(r) ==
    /\ request[r].pc = "session"
    /\ CreateCheckout(r, request[r].invoice)
    /\ UNCHANGED <<now, invoice, gateway>>

(* POST invoices/:id/checkout: any invoice, whatever its status. *)
PayInvoice(r) ==
    /\ request[r].pc = "idle"
    /\ \E i \in Invoices :
        /\ invoice[i].status # "none"
        /\ CreateCheckout(r, i)
    /\ UNCHANGED <<now, invoice, gateway>>

(* The gateway opens a session for the invoice lines.  It may be paid from  *)
(* now on, although our side has not stored it yet.                         *)
OpenSession(r) ==
    LET i == request[r].invoice
    IN  /\ request[r].pc = "provider"
        /\ now + SessionTTL < MaxTime
        /\ gateway' = [gateway EXCEPT
             ![request[r].payment] = [status |-> "pending",
                                      charge |-> invoice[i].lineTotal,
                                      expiresAt |-> now + SessionTTL]]
        /\ request' = [request EXCEPT ![r].pc = "store"]
        /\ UNCHANGED <<now, invoice, payment>>

(* Its identity and its address are stored, in a transaction of their own. *)
StoreSession(r) ==
    LET p == request[r].payment
    IN  /\ request[r].pc = "store"
        /\ payment' = [payment EXCEPT
             ![p] = [@ EXCEPT !.session = TRUE, !.expiresAt = gateway[p].expiresAt]]
        /\ request' = [request EXCEPT ![r] = Idle]
        /\ UNCHANGED <<now, invoice, gateway>>

(* One catch block for the whole: the gateway refuses, or its answer is     *)
(* lost, or storing it fails.  In the last two the session is open.         *)
RefuseSession(r) ==
    /\ request[r].pc \in {"provider", "store"}
    /\ payment' = [payment EXCEPT ![request[r].payment].status = "failed"]
    /\ request' = [request EXCEPT ![r] = Idle]
    /\ UNCHANGED <<now, invoice, gateway>>

-----------------------------------------------------------------------------
(* Confirmation: the browser's return and the gateway's callback, in any    *)
(* order and number, for any reference the service ever gave out.           *)

(* payment_target_by_reference and the read of the payment.  References of  *)
(* payments that are neither paid nor waiting with a session end here.      *)
ConfirmPayment(r) ==
    /\ request[r].pc = "idle"
    /\ \E p \in PaymentIds :
        \/ /\ payment[p].status = "paid"
           /\ request' = [request EXCEPT ![r] = At("apply", payment[p].invoice, p, "paid")]
        \/ /\ payment[p].status = "pending"
           /\ payment[p].session
           /\ request' = [request EXCEPT ![r] = At("query", payment[p].invoice, p, "pending")]
    /\ UNCHANGED <<now, invoice, payment, gateway>>

TrustCallback(p) == "paid"

(* The status of a session as the gateway tells it; the caller's word is    *)
(* never taken for it.                                                      *)
GetPaymentStatus(p) == gateway[p].status

QueryGateway(r) ==
    LET answer == GetPaymentStatus(request[r].payment)
    IN  /\ request[r].pc = "query"
        /\ request' = [request EXCEPT
             ![r] = IF answer = "pending"
                    THEN Idle
                    ELSE At("settle", @.invoice, @.payment, answer)]
        /\ UNCHANGED <<now, invoice, payment, gateway>>

MarkDraftPaid(i, amount) ==
    IF invoice[i].status = "draft"
    THEN [invoice EXCEPT ![i] = [@ EXCEPT !.status = "paid", !.amountPaid = amount]]
    ELSE invoice

(* updateMany where status = 'open': a second settlement changes nothing. *)
MarkInvoicePaid(i, amount) ==
    IF invoice[i].status = "open"
    THEN [invoice EXCEPT ![i] = [@ EXCEPT !.status = "paid", !.amountPaid = amount]]
    ELSE invoice

(* The payment is written as read before the gateway was asked: by identity, *)
(* whatever its status is by now.  An amount below what is due is logged.    *)
(* (The INVOICE_PAID event of the same transaction is an Outbox matter.)     *)
SettlePaid(r) ==
    LET p == request[r].payment
        i == request[r].invoice
    IN  /\ request[r].pc = "settle"
        /\ request[r].answer = "paid"
        /\ payment' = [payment EXCEPT ![p].status = "paid"]
        /\ invoice' = MarkInvoicePaid(i, payment[p].amount)
        /\ request' = [request EXCEPT ![r] = At("apply", i, p, "paid")]
        /\ UNCHANGED <<now, gateway>>

SettleUnpaid(r) ==
    /\ request[r].pc = "settle"
    /\ request[r].answer # "paid"
    /\ payment' = [payment EXCEPT ![request[r].payment].status = request[r].answer]
    /\ request' = [request EXCEPT ![r] = Idle]
    /\ UNCHANGED <<now, invoice, gateway>>

(* applyPaidInvoice; what it does to the subscription is in Subscriptions. *)
ApplyPaidInvoice(r) ==
    /\ request[r].pc = "apply"
    /\ request' = [request EXCEPT ![r] = Idle]
    /\ UNCHANGED <<now, invoice, payment, gateway>>

(* The process stops, or an exception ends the request between two steps. *)
LoseRequest(r) ==
    /\ request[r].pc # "idle"
    /\ request' = [request EXCEPT ![r] = Idle]
    /\ UNCHANGED <<now, invoice, payment, gateway>>

-----------------------------------------------------------------------------
(* The worker's hourly job, the gateway and the clock.                      *)

StaleWhateverStatus(p) ==
    /\ payment[p].expiresAt # NullTime
    /\ payment[p].expiresAt < now

StaleWithoutSession(p) ==
    /\ payment[p].status = "pending"
    /\ payment[p].expiresAt = NullTime

Stale(p) ==
    /\ payment[p].status = "pending"
    /\ payment[p].expiresAt # NullTime
    /\ payment[p].expiresAt < now

(* Rows a statement sees that names no organisation: with row security none, *)
(* for the policy of payments compares their organisation with null.         *)
SeenWithoutOrganization == IF RlsEnforced THEN {} ELSE PaymentIds

(* One updateMany over every stale payment, outside any organisation's      *)
(* context.  The gateway is not asked.                                      *)
HandleStalePayments ==
    /\ \E p \in SeenWithoutOrganization : Stale(p)
    /\ payment' = [p \in PaymentIds |->
         IF p \in SeenWithoutOrganization /\ Stale(p)
         THEN [payment[p] EXCEPT !.status = "canceled"]
         ELSE payment[p]]
    /\ UNCHANGED <<now, invoice, gateway, request>>

(* The customer pays at the gateway, while it keeps the session open. *)
CustomerPays(p) ==
    /\ gateway[p].status = "pending"
    /\ now <= gateway[p].expiresAt
    /\ gateway' = [gateway EXCEPT ![p].status = "paid"]
    /\ UNCHANGED <<now, invoice, payment, request>>

(* The customer cancels, the bank declines, or the session expires. *)
SessionEnds(p) ==
    /\ gateway[p].status = "pending"
    /\ \E outcome \in Declines :
         gateway' = [gateway EXCEPT ![p].status = outcome]
    /\ UNCHANGED <<now, invoice, payment, request>>

Tick ==
    /\ now < MaxTime
    /\ now' = now + 1
    /\ UNCHANGED <<invoice, payment, gateway, request>>

RequestStep(r) ==
    \/ IssueInvoice(r)
    \/ PayInvoice(r)
    \/ CheckoutIssued(r)
    \/ OpenSession(r)
    \/ StoreSession(r)
    \/ RefuseSession(r)
    \/ ConfirmPayment(r)
    \/ QueryGateway(r)
    \/ SettlePaid(r)
    \/ SettleUnpaid(r)
    \/ ApplyPaidInvoice(r)
    \/ LoseRequest(r)

Next ==
    \/ \E r \in Requests : RequestStep(r)
    \/ \E p \in PaymentIds : CustomerPays(p) \/ SessionEnds(p)
    \/ HandleStalePayments
    \/ Tick

(* The clock runs and BullMQ repeats the stale-payments job; nobody obliges *)
(* a customer to pay or a confirmation to arrive.                           *)
Fairness == WF_vars(Tick) /\ WF_vars(HandleStalePayments)

Spec == Init /\ [][Next]_vars

FairSpec == Spec /\ Fairness

-----------------------------------------------------------------------------
(* Properties                                                               *)

(* Every column and every local of a request holds a value of its type. *)
TypeOK ==
    /\ now \in Nat
    /\ invoice \in [Invoices -> InvoiceRow]
    /\ payment \in [PaymentIds -> PaymentRow]
    /\ gateway \in [PaymentIds -> GatewaySession]
    /\ request \in [Requests -> Request]

(* What the service calls paid, the gateway took and the invoice shows; and  *)
(* a settled invoice that asked for money has such a payment.               *)
PaidIsBacked ==
    /\ \A p \in PaymentIds : payment[p].status = "paid" =>
         /\ gateway[p].status = "paid"
         /\ payment[p].invoice \in Invoices
         /\ invoice[payment[p].invoice].status = "paid"
    /\ \A i \in Invoices : invoice[i].status = "paid" =>
         \/ invoice[i].total = 0
         \/ \E p \in PaymentIds : payment[p].invoice = i /\ payment[p].status = "paid"

(* Money the gateway took, or may yet take, is on record as such, but for    *)
(* two ways of losing sight of it.  A session that was opened and never      *)
(* stored is marked failed with its payment, and no confirmation will ask    *)
(* for it; and the hourly job, where it sees rows at all, writes off what    *)
(* has expired.  No unpaid answer, however late, closes a payment that a     *)
(* customer paid or can pay, and no failure one whose session is stored.     *)
MoneyIsOnRecord ==
    \A p \in PaymentIds : gateway[p].status \in {"pending", "paid"} =>
        \/ payment[p].status \in {"pending", "paid"}
        \/ payment[p].status = "failed" /\ ~payment[p].session
        \/ /\ payment[p].status = "canceled"
           /\ payment[p].expiresAt # NullTime
           /\ payment[p].expiresAt < now
           /\ ~RlsEnforced

(* The three books agree, whatever confirmations, failures and clean-ups    *)
(* overlapped, in both directions: from the service to the gateway, and,    *)
(* with the two exceptions MoneyIsOnRecord names, back.  (confirmPayment    *)
(* reads the gateway, then writes both rows; createCheckout opens a session *)
(* and then stores it; the hourly job writes without asking the gateway.)   *)
BooksAgree == PaidIsBacked /\ MoneyIsOnRecord

(* A subscription is changed only on behalf of a settled invoice, although  *)
(* the confirmation that asks for the change read nothing of the invoice.   *)
AppliesOnlySettled ==
    \A r \in Requests : request[r].pc = "apply" =>
        /\ request[r].invoice \in Invoices
        /\ invoice[request[r].invoice].status = "paid"

(* The gateway charges the lines of an invoice, without tax and before any  *)
(* discount; so what it took falls short of what is due by the tax at most, *)
(* itself within half a baisa of its rate.                                  *)
ShortByTax(due, charge) ==
    2 * BasisPoints * (due.total - charge) <= 2 * VatRateBps * charge + BasisPoints

(* applyPaidInvoice reads nothing of the gateway, and a settlement only logs *)
(* an amount below what is due.  Still, whatever overlapped: an invoice that *)
(* changes a subscription asks for nothing, or is recorded as paid in full   *)
(* and the gateway took what its lines come to, all but the tax.  How much   *)
(* UnderpaidSessionSettlesNothing can be off by.                             *)
AppliedWasCollected ==
    \A r \in Requests : request[r].pc = "apply" =>
        LET due == invoice[request[r].invoice]
        IN  /\ due.status = "paid"
            /\ \/ due.total = 0
               \/ /\ due.amountPaid = due.total
                  /\ \E p \in PaymentIds :
                       /\ payment[p].invoice = request[r].invoice
                       /\ gateway[p].status = "paid"
                       /\ ShortByTax(due, gateway[p].charge)

(* What is paid stays as it is. *)
KeepsPaid ==
    /\ \A p \in PaymentIds :
         payment[p].status = "paid" => payment'[p].status = "paid"
    /\ \A i \in Invoices :
         invoice[i].status = "paid" => invoice'[i] = invoice[i]

(* No step takes back a settlement: not the stale-payments job, not a       *)
(* confirmation that writes by identity what it learnt some steps ago, not  *)
(* a second checkout of the same invoice.                                   *)
PaidIsFinal == [][KeepsPaid]_vars

(* A stored session never leaves its payment pending for ever, which would  *)
(* keep it in the customer's list and, before it expires, keep a new one    *)
(* from being opened: confirmation or the hourly job closes it.  (Of a      *)
(* worker that sees the rows; with RlsEnforced the comment at               *)
(* cycle-handler.ts:147 is what the code does not do.)                      *)
SessionsDoNotPendForever ==
    \A p \in PaymentIds :
        (payment[p].status = "pending" /\ payment[p].session)
            ~> (payment[p].status # "pending")

(* What PaidIsBacked and AppliesOnlySettled rest on, step by step.          *)

(* Rows refer to rows that exist; a session is known to both sides. *)
RowsLinked ==
    \A p \in PaymentIds :
        /\ payment[p].status # "none" =>
             /\ payment[p].invoice \in Invoices
             /\ invoice[payment[p].invoice].status # "none"
        /\ payment[p].status = "none" =>
             ~payment[p].session /\ gateway[p].status = "none"
        /\ payment[p].session => gateway[p].status # "none"

(* An invoice that waits for money asks for some. *)
OpenAsksForMoney ==
    \A i \in Invoices : invoice[i].status = "open" => invoice[i].total # 0

(* What a request carries from an earlier step still holds of the rows. *)
RequestHolds(q) ==
    /\ q.pc # "idle" =>
         q.invoice \in Invoices /\ invoice[q.invoice].status # "none"
    /\ q.pc \in {"provider", "store", "query", "settle"} =>
         /\ q.payment \in PaymentIds
         /\ payment[q.payment].invoice = q.invoice
         /\ payment[q.payment].status # "none"
    /\ q.pc \in {"provider", "store"} =>
         payment[q.payment].status = "pending" /\ ~payment[q.payment].session
    /\ q.pc = "provider" => gateway[q.payment].status = "none"
    /\ q.pc = "store" => gateway[q.payment].status # "none"
    /\ q.pc \in {"query", "settle"} => payment[q.payment].session
    /\ q.pc = "settle" =>
         gateway[q.payment].status = q.answer /\ q.answer # "pending"

LocalsHold == \A r \in Requests : RequestHolds(request[r])

(* Two requests never open a session for the same payment. *)
OneOpener ==
    \A r1, r2 \in Requests :
        (/\ r1 # r2
         /\ request[r1].pc \in {"provider", "store"}
         /\ request[r2].pc \in {"provider", "store"})
            => request[r1].payment # request[r2].payment

(* Without a session there is no expiry to be stale by. *)
UnsentNeverStale ==
    \A p \in PaymentIds : ~payment[p].session => payment[p].expiresAt = NullTime

IInv ==
    /\ TypeOK
    /\ RowsLinked
    /\ OpenAsksForMoney
    /\ LocalsHold
    /\ OneOpener
    /\ UnsentNeverStale
    /\ PaidIsBacked
    /\ AppliesOnlySettled

(* The amounts of the three books: an issued invoice is charged for all but  *)
(* the tax, a settled one is recorded as paid in full, and the rows that     *)
(* refer to an invoice carry its amounts.                                    *)
AmountsHold ==
    /\ \A i \in Invoices :
         /\ invoice[i].status # "none" => ShortByTax(invoice[i], invoice[i].lineTotal)
         /\ invoice[i].status = "paid" =>
              invoice[i].total = 0 \/ invoice[i].amountPaid = invoice[i].total
    /\ \A p \in PaymentIds :
         /\ payment[p].status # "none" =>
              payment[p].amount = invoice[payment[p].invoice].total
         /\ gateway[p].status # "none" =>
              gateway[p].charge = invoice[payment[p].invoice].lineTotal

(* The abstract promise: an invoice maps to its status, one settled because  *)
(* it asks for nothing to "free", and it counts as collected when the        *)
(* gateway took the money of one of its sessions.                            *)
Standing(i) ==
    IF invoice[i].status = "paid" /\ invoice[i].total = 0
    THEN "free"
    ELSE invoice[i].status

CollectedInvoices ==
    {i \in Invoices : \E p \in PaymentIds :
        payment[p].invoice = i /\ gateway[p].status = "paid"}

Promise == INSTANCE Settlement WITH
    status <- [i \in Invoices |-> Standing(i)],
    collected <- CollectedInvoices

(* The detailed payment flow implements the settlement promise. *)
ImplementsSettlement == Promise!SettlementSpec

-----------------------------------------------------------------------------
(* What comments and docs say, and the code does not do                     *)

(* invoices.service.ts:309 says that a session paid below what is due does  *)
(* not settle the invoice.                                                  *)
UnderpaidSessionSettlesNothing ==
    \A p \in PaymentIds :
        (payment[p].status = "paid" /\ gateway[p].charge < payment[p].amount)
            => invoice[payment[p].invoice].status # "paid"

(* cycle-handler.ts:18 and docs/billing/subscriptions.md:122 say that a      *)
(* payment whose confirmation was lost is settled all the same; a payment    *)
(* closed as expired, or failed because its session could not be stored, is  *)
(* never looked at again, so none of them may be one the gateway took money  *)
(* for.  MoneyIsOnRecord says which ones are.                                *)
CollectedMoneyIsNotWrittenOff ==
    \A p \in PaymentIds :
        gateway[p].status = "paid" => payment[p].status \in {"pending", "paid"}

(* Sessions of an invoice that the service would still hand out. *)
LiveSessions(i) ==
    {p \in PaymentIds :
        /\ payment[p].invoice = i
        /\ payment[p].status = "pending"
        /\ payment[p].session
        /\ payment[p].expiresAt > now}

(* invoices.service.ts:151 and docs/billing/subscriptions.md:125 say that a *)
(* session is reused so that an invoice never has two; the reuse is looked  *)
(* for before the session is opened and not again.                          *)
OneLiveSession ==
    \A i \in Invoices : Cardinality(LiveSessions(i)) <= 1

(* The same lines give the reason: so that no invoice is paid twice.        *)
(* createCheckout does not look at the invoice's status, so two sessions,   *)
(* side by side or one after the other, both collect.                       *)
PaidOnce ==
    \A p1, p2 \in PaymentIds :
        (/\ p1 # p2
         /\ payment[p1].status = "paid"
         /\ payment[p1].invoice = payment[p2].invoice)
            => payment[p2].status # "paid"

(* Requests that found no session to reuse and are opening one. *)
Opening(i) ==
    {r \in Requests : request[r].pc \in {"provider", "store"} /\ request[r].invoice = i}

(* How far OneLiveSession can be off: an invoice has no more live sessions  *)
(* than there were requests at a time, however often checkout is repeated.  *)
SessionsBoundedByRequests ==
    \A i \in Invoices :
        Cardinality(LiveSessions(i)) + Cardinality(Opening(i)) <= Cardinality(Requests)
=============================================================================
