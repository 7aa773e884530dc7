--------------------------- MODULE PaymentsProofs ---------------------------
(***************************************************************************)
(* The payment flow for any number of invoices, payments and requests:     *)
(* the amounts of an invoice, type correctness, the agreement of the three *)
(* books, the bound on sessions, the finality of a settlement, and the     *)
(* implementation of Settlement.  Then the amounts again, of any chain of  *)
(* changes of plan: what one asks for, and what it takes over.             *)
(***************************************************************************)
EXTENDS Payments, PlanChange, FiniteSetTheorems, TLAPS

-----------------------------------------------------------------------------
(* Amounts: what an invoice asks for, for every subtotal, coupon and tax    *)
(* rate.                                                                    *)

(* Rounding a natural share in basis points gives a natural, off by at most *)
(* half a baisa.                                                            *)
LEMMA RoundedShare ==
    ASSUME NEW a \in Nat
    PROVE  /\ MathRound(a, BasisPoints) \in Nat
           /\ 20000 * MathRound(a, BasisPoints) <= 2 * a + 10000
           /\ 2 * a + 10000 < 20000 * MathRound(a, BasisPoints) + 20000
  BY DEF MathRound, BasisPoints

LEMMA NatTimesNat ==
    ASSUME NEW a \in Nat, NEW b \in Nat
    PROVE  a * b \in Nat
  BY SMT

(* computeDiscount: whatever the coupon, a discount takes no more than the  *)
(* amount it is taken from and adds nothing to it.                          *)
THEOREM DiscountWithinSubtotal ==
    ASSUME NEW subtotal \in Nat, NEW coupon \in Coupon
    PROVE  ComputeDiscount(subtotal, coupon) \in 0..subtotal
<1>1. coupon.value \in Nat
  BY DEF Coupon
<1>2. RawDiscount(subtotal, coupon) \in Int
  <2> DEFINE share == subtotal * coupon.value
  <2>1. share \in Nat
    BY <1>1, NatTimesNat
  <2>2. RawDiscount(subtotal, coupon) \in {MathRound(share, BasisPoints), coupon.value, 0}
    BY DEF RawDiscount
  <2> HIDE DEF share
  <2>3. MathRound(share, BasisPoints) \in Nat
    BY <2>1, RoundedShare
  <2> QED
    BY <1>1, <2>2, <2>3
<1> QED
  BY <1>2 DEF ComputeDiscount, Least, Greatest

(* computeInvoiceAmounts: an invoice never asks for a negative amount, and  *)
(* it asks for at least what is left of the subtotal after the discount.    *)
THEOREM InvoiceAmounts ==
    ASSUME NEW subtotal \in Nat, NEW coupon \in Coupon, NEW rateBps \in Nat
    PROVE  LET amounts == ComputeInvoiceAmounts(subtotal, coupon, rateBps)
           IN  /\ amounts.subtotal = subtotal
               /\ amounts.discount \in 0..subtotal
               /\ amounts.vat \in Nat
               /\ amounts.total \in Nat
               /\ amounts.total >= subtotal - amounts.discount
<1> DEFINE discount == ComputeDiscount(subtotal, coupon)
           vat == Vat(subtotal, discount, rateBps)
<1>1. discount \in 0..subtotal
  BY DiscountWithinSubtotal
<1>2. vat \in Nat
  <2> DEFINE share == (subtotal - discount) * rateBps
  <2>1. subtotal - discount \in Nat
    BY <1>1
  <2>2. share \in Nat
    BY <2>1, NatTimesNat
  <2>3. vat = MathRound(share, BasisPoints)
    BY DEF Vat
  <2> HIDE DEF share, vat
  <2> QED
    BY <2>2, <2>3, RoundedShare
<1>3. ComputeInvoiceAmounts(subtotal, coupon, rateBps) =
        [subtotal |-> subtotal, discount |-> discount, vat |-> vat,
         total |-> subtotal - discount + vat]
  BY DEF ComputeInvoiceAmounts
<1> HIDE DEF discount, vat
<1> QED
  BY <1>1, <1>2, <1>3

(* computeInvoiceAmounts: the tax is off by at most half a baisa, whatever   *)
(* the amount it is taken of (TaxWithinHalfBaisa of PlanChange, for every   *)
(* invoice).                                                                *)
THEOREM TaxRoundsFairly ==
    ASSUME NEW subtotal \in Nat, NEW discount \in 0..subtotal, NEW rateBps \in Nat
    PROVE  LET error == BasisPoints * Vat(subtotal, discount, rateBps)
                          - rateBps * (subtotal - discount)
           IN  2 * error <= BasisPoints /\ -2 * error <= BasisPoints
<1> DEFINE share == (subtotal - discount) * rateBps
<1>1. subtotal - discount \in Nat
  OBVIOUS
<1>2. share \in Nat /\ share = rateBps * (subtotal - discount)
  <2>1. share \in Nat
    BY <1>1, NatTimesNat
  <2>2. \A a, b \in Nat : a * b = b * a
    BY SMT
  <2> QED
    BY <1>1, <2>1, <2>2
<1>3. Vat(subtotal, discount, rateBps) = MathRound(share, BasisPoints)
  BY DEF Vat
<1> HIDE DEF share
<1>4. /\ MathRound(share, BasisPoints) \in Nat
      /\ 20000 * MathRound(share, BasisPoints) <= 2 * share + 10000
      /\ 2 * share + 10000 < 20000 * MathRound(share, BasisPoints) + 20000
  BY <1>2, RoundedShare
<1> QED
  BY <1>2, <1>3, <1>4 DEF BasisPoints

(* A quotient in seats, multiplied by the seats again. *)
LEMMA RoundedQuotient ==
    ASSUME NEW a \in Nat, NEW b \in Nat \ {0}
    PROVE  /\ MathRound(a, b) \in Nat
           /\ 2 * (b * MathRound(a, b)) <= 2 * a + b
           /\ 2 * a + b < 2 * (b * MathRound(a, b)) + 2 * b
<1> DEFINE n == 2 * a + b
           d == 2 * b
           q == n \div d
<1>1. n \in Nat /\ d \in Nat \ {0}
  OBVIOUS
<1> HIDE DEF n, d
<1>2. q \in Nat /\ d * q <= n /\ n < d * q + d
  BY <1>1, SMTT(30)
<1>3. d * q = 2 * (b * q)
  BY <1>2, SMT DEF d
<1> QED
  BY <1>2, <1>3 DEF MathRound, n, d

(* quoteChange and issue: spread over the seats and multiplied again, what  *)
(* is due is off by at most half a baisa for each seat (SeatsRoundFairly of *)
(* PlanChange, for every invoice).                                          *)
THEOREM SeatsRound ==
    ASSUME NEW price \in Nat, NEW quantity \in Nat \ {0}, NEW credit \in Nat
    PROVE  LET error == quantity * QuoteUnit(price, quantity, credit)
                          - Greatest(0, price * quantity - credit)
           IN  2 * error <= quantity /\ -2 * error <= quantity
<1> DEFINE net == Greatest(0, price * quantity - credit)
           unit == MathRound(net, quantity)
<1>1. price * quantity \in Nat
  BY NatTimesNat
<1>2. net \in Nat
  BY <1>1 DEF Greatest
<1>3. QuoteUnit(price, quantity, credit) = unit
  BY DEF QuoteUnit
<1> HIDE DEF net
<1>4. /\ unit \in Nat
      /\ 2 * (quantity * unit) <= 2 * net + quantity
      /\ 2 * net + quantity < 2 * (quantity * unit) + 2 * quantity
  BY <1>2, RoundedQuotient
<1>5. quantity * unit \in Nat
  BY <1>4, NatTimesNat
<1> HIDE DEF unit
<1> QED
  BY <1>2, <1>3, <1>4, <1>5 DEF net

-----------------------------------------------------------------------------
(* Record types are never opaque below. *)
USE DEF InvoiceRow, InvoiceStatus, PaymentRow, GatewaySession, Request,
        ProviderPaymentStatus

(* Helpers                                                                  *)

LEMMA NewInvoiceIsFresh ==
    ASSUME FreshInvoices # {}
    PROVE  NewInvoice \in Invoices /\ invoice[NewInvoice].status = "none"
<1>1. NewInvoice \in FreshInvoices
  BY DEF NewInvoice
<1> QED
  BY <1>1 DEF FreshInvoices

LEMMA NewPaymentIsFresh ==
    ASSUME FreshPayments # {}
    PROVE  NewPayment \in PaymentIds /\ payment[NewPayment].status = "none"
<1>1. NewPayment \in FreshPayments
  BY DEF NewPayment
<1> QED
  BY <1>1 DEF FreshPayments

(* What issue() writes: a row that is settled exactly if it asks for nothing. *)
LEMMA IssuedRow ==
    ASSUME NEW offer \in Offers
    PROVE  /\ Issued(offer) \in InvoiceRow
           /\ Issued(offer).status # "none"
           /\ Issued(offer).status = "paid" <=> Issued(offer).total = 0
<1> DEFINE amounts == ComputeInvoiceAmounts(LineTotal(offer), offer.coupon, VatRateBps)
<1>1. /\ offer.unit \in Nat
      /\ offer.quantity \in Nat
      /\ offer.coupon \in Coupon
  BY PaymentsAssumption
<1>2. LineTotal(offer) \in Nat
  BY <1>1, NatTimesNat DEF LineTotal
<1>3. amounts.total \in Nat
  BY <1>1, <1>2, InvoiceAmounts, PricingAssumption
<1>4. Issued(offer) =
        [status |-> IF amounts.total = 0 THEN "paid" ELSE "open",
         lineTotal |-> LineTotal(offer),
         total |-> amounts.total,
         amountPaid |-> 0]
  BY DEF Issued
<1> HIDE DEF amounts
<1> QED
  BY <1>2, <1>3, <1>4 DEF InvoiceRow, InvoiceStatus

(* What a settlement does to the invoices: one open row becomes paid. *)
LEMMA MarkedInvoice ==
    ASSUME TypeOK, NEW i \in Invoices, NEW amount \in Int
    PROVE  /\ MarkInvoicePaid(i, amount) \in [Invoices -> InvoiceRow]
           /\ \A j \in Invoices :
                MarkInvoicePaid(i, amount)[j].status =
                  IF j = i /\ invoice[i].status = "open" THEN "paid" ELSE invoice[j].status
<1> DEFINE marked == [invoice[i] EXCEPT !.status = "paid", !.amountPaid = amount]
<1>1. marked \in InvoiceRow /\ marked.status = "paid"
  <2>1. invoice[i] \in InvoiceRow
    BY DEF TypeOK
  <2> QED
    BY <2>1
<1>2. MarkInvoicePaid(i, amount) =
        IF invoice[i].status = "open" THEN [invoice EXCEPT ![i] = marked] ELSE invoice
  BY DEF MarkInvoicePaid
<1> HIDE DEF marked
<1> QED
  BY <1>1, <1>2 DEF TypeOK

-----------------------------------------------------------------------------
(* The inductive invariant.  TypeOK alone is not inductive: the rows that a  *)
(* step writes are the ones its request remembers from earlier steps.        *)

LEMMA IssueInvoiceKeepsIInv ==
    ASSUME IInv, NEW r \in Requests, IssueInvoice(r)
    PROVE  IInv'
<1>1. PICK offer \in Offers :
        /\ invoice' = [invoice EXCEPT ![NewInvoice] = Issued(offer)]
        /\ request' = [request EXCEPT
             ![r] = At(IF Issued(offer).total = 0 THEN "apply" ELSE "session",
                       NewInvoice, NoPayment, "pending")]
  BY DEF IssueInvoice
<1>2. NewInvoice \in Invoices /\ invoice[NewInvoice].status = "none"
  BY NewInvoiceIsFresh DEF IssueInvoice
<1>3. /\ Issued(offer) \in InvoiceRow
      /\ Issued(offer).status # "none"
      /\ Issued(offer).status = "paid" <=> Issued(offer).total = 0
  BY IssuedRow
<1>4. UNCHANGED <<now, payment, gateway>>
  BY DEF IssueInvoice
<1> USE DEF IInv, TypeOK
<1>5. TypeOK'
  BY <1>1, <1>2, <1>3 DEF IssueInvoice, At
<1>6. RowsLinked'
  BY <1>1, <1>2 DEF RowsLinked, IssueInvoice
<1>6a. OpenAsksForMoney'
  BY <1>1, <1>2, <1>3 DEF OpenAsksForMoney, IssueInvoice
<1>7. LocalsHold'
  BY <1>1, <1>2, <1>3 DEF LocalsHold, RequestHolds, IssueInvoice, At
<1>8. OneOpener'
  BY <1>1, <1>2 DEF OneOpener, IssueInvoice, At
<1>9. UnsentNeverStale'
  BY <1>1, <1>2 DEF UnsentNeverStale, IssueInvoice
<1>10. PaidIsBacked'
  BY <1>1, <1>2, <1>3 DEF PaidIsBacked, IssueInvoice
<1>11. AppliesOnlySettled'
  BY <1>1, <1>2, <1>3 DEF AppliesOnlySettled, IssueInvoice, At
<1> HIDE DEF TypeOK
<1> QED
  BY <1>5, <1>6, <1>6a, <1>7, <1>8, <1>9, <1>10, <1>11 DEF IInv

LEMMA CreateCheckoutKeepsIInv ==
    ASSUME IInv, NEW r \in Requests, NEW i \in Invoices, CreateCheckout(r, i),
           invoice[i].status # "none", UNCHANGED <<now, invoice, gateway>>
    PROVE  IInv'
<1>1. UNCHANGED <<now, invoice, gateway>>
  OBVIOUS
<1> USE DEF IInv, TypeOK
<1>2. ASSUME request' = [request EXCEPT ![r] = Idle], UNCHANGED payment
      PROVE  IInv'
  <2>1. TypeOK'
    BY <1>1, <1>2 DEF Idle
  <2>2. RowsLinked'
    BY <1>1, <1>2 DEF RowsLinked
  <2>2a. OpenAsksForMoney'
    BY <1>1 DEF OpenAsksForMoney
  <2>3. LocalsHold'
    BY <1>1, <1>2 DEF LocalsHold, RequestHolds, Idle
  <2>4. OneOpener'
    BY <1>1, <1>2 DEF OneOpener, Idle
  <2>5. UnsentNeverStale'
    BY <1>1, <1>2 DEF UnsentNeverStale
  <2>6. PaidIsBacked'
    BY <1>1, <1>2 DEF PaidIsBacked
  <2>7. AppliesOnlySettled'
    BY <1>1, <1>2 DEF AppliesOnlySettled, Idle
  <2> QED
    BY <2>1, <2>2, <2>2a, <2>3, <2>4, <2>5, <2>6, <2>7 DEF IInv
<1>3. ASSUME FreshPayments # {},
             payment' = [payment EXCEPT
               ![NewPayment] = [status |-> "pending",
                                invoice |-> i,
                                amount |-> invoice[i].total,
                                session |-> FALSE,
                                expiresAt |-> NullTime]],
             request' = [request EXCEPT ![r] = At("provider", i, NewPayment, "pending")]
      PROVE  IInv'
  <2>1. NewPayment \in PaymentIds /\ payment[NewPayment].status = "none"
    BY <1>3, NewPaymentIsFresh
  <2>2. TypeOK'
    BY <1>1, <1>3, <2>1 DEF At, NullTime
  <2>3. RowsLinked'
    BY <1>1, <1>3, <2>1 DEF RowsLinked
  <2>3a. OpenAsksForMoney'
    BY <1>1 DEF OpenAsksForMoney
  <2>4. LocalsHold'
    <3>1. gateway[NewPayment].status = "none" /\ ~payment[NewPayment].session
      BY <2>1 DEF RowsLinked
    <3>2. /\ \A o \in PaymentIds : o # NewPayment => payment'[o] = payment[o]
          /\ payment'[NewPayment] = [status |-> "pending", invoice |-> i,
                                     amount |-> invoice[i].total, session |-> FALSE,
                                     expiresAt |-> NullTime]
      BY <1>3, <2>1
    <3>3. RequestHolds(request[r])'
      BY <1>1, <1>3, <2>1, <3>1, <3>2 DEF RequestHolds, At
    <3>4. ASSUME NEW q \in Requests, q # r
          PROVE  RequestHolds(request[q])'
      <4>1. RequestHolds(request[q]) /\ request'[q] = request[q]
        BY <1>3, <3>4 DEF LocalsHold
      <4>2. request[q].pc \in {"provider", "store", "query", "settle"} =>
              request[q].payment # NewPayment
        BY <2>1, <4>1 DEF RequestHolds
      <4> QED
        BY <1>1, <3>2, <4>1, <4>2 DEF RequestHolds
    <3> QED
      BY <3>3, <3>4 DEF LocalsHold
  <2>5. OneOpener'
    BY <1>1, <1>3, <2>1 DEF LocalsHold, OneOpener, RequestHolds, At
  <2>6. UnsentNeverStale'
    BY <1>1, <1>3, <2>1 DEF UnsentNeverStale
  <2>7. PaidIsBacked'
    BY <1>1, <1>3, <2>1 DEF PaidIsBacked
  <2>8. AppliesOnlySettled'
    BY <1>1, <1>3, <2>1 DEF AppliesOnlySettled, At
  <2> QED
    BY <2>2, <2>3, <2>3a, <2>4, <2>5, <2>6, <2>7, <2>8 DEF IInv
<1> QED
  BY <1>2, <1>3 DEF CreateCheckout

LEMMA OpenSessionKeepsIInv ==
    ASSUME IInv, NEW r \in Requests, OpenSession(r)
    PROVE  IInv'
<1> DEFINE p == request[r].payment
           i == request[r].invoice
           opened == [status |-> "pending", charge |-> invoice[i].lineTotal,
                      expiresAt |-> now + SessionTTL]
<1> USE DEF IInv, TypeOK
<1>0. /\ p \in PaymentIds
      /\ i \in Invoices
      /\ request[r].pc = "provider"
      /\ payment[p].status = "pending"
      /\ ~payment[p].session
      /\ gateway[p].status = "none"
      /\ request' = [request EXCEPT ![r].pc = "store"]
      /\ gateway' = [gateway EXCEPT ![p] = opened]
      /\ UNCHANGED <<now, invoice, payment>>
  BY DEF OpenSession, LocalsHold, RequestHolds
<1>a. opened \in GatewaySession /\ opened.status = "pending"
  <2>1. invoice[i].lineTotal \in Nat /\ now + SessionTTL \in Int
    BY <1>0, PaymentsAssumption DEF InvoiceRow
  <2> QED
    BY <2>1 DEF GatewaySession, ProviderPaymentStatus
<1>b. \A q \in Requests \ {r} :
         request[q].pc \in {"provider", "store"} => request[q].payment # p
  BY <1>0 DEF OneOpener
<1>c. \A o \in PaymentIds : o # p => gateway'[o] = gateway[o]
  BY <1>0
<1>d. gateway'[p].status = "pending"
  BY <1>0, <1>a
<1>e. \A q \in Requests : q # r => request'[q] = request[q]
  BY <1>0
<1>f. [request[r] EXCEPT !.pc = "store"] \in Request
  <2>1. request[r] \in Request
    OBVIOUS
  <2> QED
    BY <2>1 DEF Request
<1>g. request'[r] = [request[r] EXCEPT !.pc = "store"]
  BY <1>0
<1>h. /\ request'[r].pc = "store"
      /\ request'[r].payment = p
      /\ request'[r].invoice = i
  <2>1. request[r] \in Request
    OBVIOUS
  <2> QED
    BY <1>g, <2>1 DEF Request
<1> HIDE DEF p, i, opened
<1>1. TypeOK'
  BY <1>0, <1>a, <1>f
<1>2. RowsLinked'
  BY <1>0, <1>c, <1>d DEF RowsLinked
<1>2a. OpenAsksForMoney'
  BY <1>0 DEF OpenAsksForMoney
<1>3. LocalsHold'
  <2>1. RequestHolds(request[r])'
    <3>1. RequestHolds(request[r])
      BY DEF LocalsHold
    <3> QED
      BY <1>0, <1>d, <1>h, <3>1 DEF RequestHolds, p, i
  <2>2. ASSUME NEW q \in Requests, q # r
        PROVE  RequestHolds(request[q])'
    <3>1. RequestHolds(request[q])
      BY DEF LocalsHold
    <3>2. request[q].pc \in {"provider", "store"} => request[q].payment # p
      BY <1>b, <2>2
    <3>3. request[q].pc = "settle" => request[q].payment # p
      BY <1>0, <3>1 DEF RequestHolds
    <3> QED
      BY <1>0, <1>c, <1>e, <2>2, <3>1, <3>2, <3>3 DEF RequestHolds
  <2> QED
    BY <2>1, <2>2 DEF LocalsHold
<1>4. OneOpener'
  BY <1>0, <1>b, <1>e, <1>h DEF OneOpener
<1>5. UnsentNeverStale'
  BY <1>0 DEF UnsentNeverStale
<1>6. PaidIsBacked'
  BY <1>0, <1>c DEF PaidIsBacked
<1>7. AppliesOnlySettled'
  BY <1>0, <1>e, <1>h DEF AppliesOnlySettled
<1> HIDE DEF TypeOK
<1> QED
  BY <1>1, <1>2, <1>2a, <1>3, <1>4, <1>5, <1>6, <1>7 DEF IInv

LEMMA StoreSessionKeepsIInv ==
    ASSUME IInv, NEW r \in Requests, StoreSession(r)
    PROVE  IInv'
<1> DEFINE p == request[r].payment
           stored == [payment[p] EXCEPT !.session = TRUE, !.expiresAt = gateway[p].expiresAt]
<1> USE DEF IInv, TypeOK
<1>0. /\ p \in PaymentIds
      /\ payment[p].status = "pending"
      /\ gateway[p].status # "none"
      /\ request[r].pc = "store"
      /\ request' = [request EXCEPT ![r] = Idle]
      /\ payment' = [payment EXCEPT ![p] = stored]
      /\ UNCHANGED <<now, invoice, gateway>>
  BY DEF StoreSession, LocalsHold, RequestHolds
<1>a. /\ stored \in PaymentRow
      /\ stored.session
      /\ stored.status = payment[p].status
      /\ stored.invoice = payment[p].invoice
  <2>1. payment[p] \in PaymentRow /\ gateway[p].expiresAt \in Int
    BY <1>0 DEF GatewaySession
  <2> QED
    BY <2>1 DEF PaymentRow
<1>b. \A q \in Requests \ {r} :
         request[q].pc \in {"provider", "store"} => request[q].payment # p
  BY <1>0 DEF OneOpener
<1>c. \A o \in PaymentIds :
         /\ payment'[o].status = payment[o].status
         /\ payment'[o].invoice = payment[o].invoice
         /\ payment[o].session => payment'[o].session
         /\ o # p => payment'[o] = payment[o]
  BY <1>0, <1>a
<1>d. \A q \in Requests : q # r => request'[q] = request[q]
  BY <1>0
<1>e. request'[r] = Idle
  BY <1>0
<1>f. payment' \in [PaymentIds -> PaymentRow] /\ payment'[p] = stored
  BY <1>0, <1>a
<1> HIDE DEF p, stored
<1>1. TypeOK'
  BY <1>0, <1>f, PaymentsAssumption DEF Idle
<1>2. RowsLinked'
  BY <1>0, <1>c DEF RowsLinked
<1>2a. OpenAsksForMoney'
  BY <1>0 DEF OpenAsksForMoney
<1>3. LocalsHold'
  <2>1. RequestHolds(request[r])'
    BY <1>e DEF Idle, RequestHolds
  <2>2. ASSUME NEW q \in Requests, q # r
        PROVE  RequestHolds(request[q])'
    <3>1. RequestHolds(request[q])
      BY DEF LocalsHold
    <3>2. request[q].pc \in {"provider", "store"} => request[q].payment # p
      BY <1>b, <2>2
    <3> QED
      BY <1>0, <1>c, <1>d, <2>2, <3>1, <3>2 DEF RequestHolds
  <2> QED
    BY <2>1, <2>2 DEF LocalsHold
<1>4. OneOpener'
  BY <1>d, <1>e DEF OneOpener, Idle
<1>5. UnsentNeverStale'
  BY <1>a, <1>c, <1>f DEF UnsentNeverStale
<1>6. PaidIsBacked'
  BY <1>0, <1>c DEF PaidIsBacked
<1>7. AppliesOnlySettled'
  BY <1>0, <1>d, <1>e DEF AppliesOnlySettled, Idle
<1> HIDE DEF TypeOK
<1> QED
  BY <1>1, <1>2, <1>2a, <1>3, <1>4, <1>5, <1>6, <1>7 DEF IInv

LEMMA RefuseSessionKeepsIInv ==
    ASSUME IInv, NEW r \in Requests, RefuseSession(r)
    PROVE  IInv'
<1> USE DEF IInv, TypeOK
<1>1. TypeOK'
  <2>1. PICK p \in PaymentIds : payment' = [payment EXCEPT ![p].status = "failed"]
    BY DEF LocalsHold, RequestHolds, RefuseSession
  <2>2. [payment[p] EXCEPT !.status = "failed"] \in PaymentRow
    <3>1. payment[p] \in PaymentRow
      OBVIOUS
    <3> QED
      BY <3>1
  <2>3. payment' \in [PaymentIds -> PaymentRow]
    BY <2>1, <2>2
  <2> QED
    BY <2>3, PaymentsAssumption DEF RefuseSession, Idle
<1>2. RowsLinked'
  BY DEF RowsLinked, LocalsHold, RequestHolds, RefuseSession
<1>2a. OpenAsksForMoney'
  BY DEF OpenAsksForMoney, RefuseSession
<1>3. LocalsHold'
  BY DEF LocalsHold, OneOpener, RequestHolds, RefuseSession, Idle
<1>4. OneOpener'
  BY DEF OneOpener, RefuseSession, Idle
<1>5. UnsentNeverStale'
  BY DEF UnsentNeverStale, RefuseSession
<1>6. PaidIsBacked'
  BY DEF LocalsHold, PaidIsBacked, RequestHolds, RefuseSession
<1>7. AppliesOnlySettled'
  BY DEF AppliesOnlySettled, RefuseSession, Idle
<1> HIDE DEF TypeOK
<1> QED
  BY <1>1, <1>2, <1>2a, <1>3, <1>4, <1>5, <1>6, <1>7 DEF IInv

LEMMA ConfirmPaymentKeepsIInv ==
    ASSUME IInv, NEW r \in Requests, ConfirmPayment(r)
    PROVE  IInv'
<1> USE DEF IInv, TypeOK
<1>0. PICK p \in PaymentIds :
        \/ /\ payment[p].status = "paid"
           /\ request' = [request EXCEPT ![r] = At("apply", payment[p].invoice, p, "paid")]
        \/ /\ payment[p].status = "pending"
           /\ payment[p].session
           /\ request' = [request EXCEPT ![r] = At("query", payment[p].invoice, p, "pending")]
  BY DEF ConfirmPayment
<1>a. /\ payment[p].invoice \in Invoices
      /\ invoice[payment[p].invoice].status # "none"
      /\ UNCHANGED <<now, invoice, payment, gateway>>
  BY <1>0 DEF RowsLinked, ConfirmPayment
<1>1. TypeOK'
  BY <1>0, <1>a DEF At
<1>2. RowsLinked'
  BY DEF RowsLinked, ConfirmPayment
<1>2a. OpenAsksForMoney'
  BY DEF OpenAsksForMoney, ConfirmPayment
<1>3. LocalsHold'
  <2>1. RequestHolds(request[r])'
    BY <1>0, <1>a DEF RequestHolds, At
  <2>2. ASSUME NEW q \in Requests, q # r
        PROVE  RequestHolds(request[q])'
    BY <1>0, <1>a, <2>2 DEF LocalsHold, RequestHolds
  <2> QED
    BY <2>1, <2>2 DEF LocalsHold
<1>4. OneOpener'
  BY DEF ConfirmPayment, At, OneOpener
<1>5. UnsentNeverStale'
  BY DEF UnsentNeverStale, ConfirmPayment
<1>6. PaidIsBacked'
  BY DEF PaidIsBacked, ConfirmPayment
<1>7. AppliesOnlySettled'
  <2>1. ASSUME request'[r].pc = "apply"
        PROVE  /\ request'[r].invoice \in Invoices
               /\ invoice[request'[r].invoice].status = "paid"
    BY <2>1 DEF PaidIsBacked, ConfirmPayment, At
  <2>2. \A q \in Requests \ {r} : request'[q] = request[q]
    BY DEF ConfirmPayment
  <2>3. invoice' = invoice
    BY DEF ConfirmPayment
  <2> QED
    BY <2>1, <2>2, <2>3 DEF AppliesOnlySettled
<1> HIDE DEF TypeOK
<1> QED
  BY <1>1, <1>2, <1>2a, <1>3, <1>4, <1>5, <1>6, <1>7 DEF IInv

LEMMA QueryGatewayKeepsIInv ==
    ASSUME IInv, NEW r \in Requests, QueryGateway(r)
    PROVE  IInv'
<1> USE DEF IInv, TypeOK
<1>1. TypeOK'
  <2>1. request[r].payment \in PaymentIds
    BY DEF QueryGateway, LocalsHold, RequestHolds
  <2>2. gateway[request[r].payment].status \in ProviderPaymentStatus
    BY <2>1 DEF QueryGateway, LocalsHold, RequestHolds, RowsLinked
  <2> QED
    BY <2>2, PaymentsAssumption DEF QueryGateway, GetPaymentStatus, At, Idle
<1>2. RowsLinked'
  BY DEF RowsLinked, QueryGateway
<1>2a. OpenAsksForMoney'
  BY DEF OpenAsksForMoney, QueryGateway
<1>3. LocalsHold'
  BY DEF LocalsHold, RequestHolds, QueryGateway, At, Idle, GetPaymentStatus
<1>4. OneOpener'
  BY DEF OneOpener, QueryGateway, At, Idle
<1>5. UnsentNeverStale'
  BY DEF UnsentNeverStale, QueryGateway
<1>6. PaidIsBacked'
  BY DEF PaidIsBacked, QueryGateway
<1>7. AppliesOnlySettled'
  BY DEF AppliesOnlySettled, QueryGateway, At, Idle
<1> HIDE DEF TypeOK
<1> QED
  BY <1>1, <1>2, <1>2a, <1>3, <1>4, <1>5, <1>6, <1>7 DEF IInv

LEMMA SettlePaidKeepsIInv ==
    ASSUME IInv, NEW r \in Requests, SettlePaid(r)
    PROVE  IInv'
<1> USE DEF IInv, TypeOK
<1>1. TypeOK'
  <2>1. request[r].payment \in PaymentIds /\ request[r].invoice \in Invoices
    BY DEF SettlePaid, LocalsHold, RequestHolds
  <2>2. payment' \in [PaymentIds -> PaymentRow]
    <3>1. payment[request[r].payment] \in PaymentRow
      BY <2>1
    <3>2. [payment[request[r].payment] EXCEPT !.status = "paid"] \in PaymentRow
      BY <3>1
    <3> QED
      BY <2>1, <3>2 DEF SettlePaid
  <2>3. invoice' \in [Invoices -> InvoiceRow]
    BY <2>1, MarkedInvoice DEF SettlePaid
  <2>4. request' \in [Requests -> Request]
    BY <2>1 DEF SettlePaid, At
  <2> QED
    BY <2>2, <2>3, <2>4 DEF SettlePaid
<1>2. RowsLinked'
  BY DEF RowsLinked, LocalsHold, RequestHolds, SettlePaid, MarkInvoicePaid
<1>2a. OpenAsksForMoney'
  BY DEF OpenAsksForMoney, SettlePaid, MarkInvoicePaid, LocalsHold, RequestHolds
<1>3. LocalsHold'
  BY DEF RowsLinked, LocalsHold, RequestHolds, SettlePaid, At, MarkInvoicePaid
<1>4. OneOpener'
  BY DEF OneOpener, SettlePaid, At
<1>5. UnsentNeverStale'
  BY DEF UnsentNeverStale, SettlePaid
<1>6. PaidIsBacked'
  BY DEF LocalsHold, PaidIsBacked, RequestHolds, SettlePaid, MarkInvoicePaid
<1>7. AppliesOnlySettled'
  BY DEF LocalsHold, AppliesOnlySettled, RequestHolds, SettlePaid, At, MarkInvoicePaid
<1> HIDE DEF TypeOK
<1> QED
  BY <1>1, <1>2, <1>2a, <1>3, <1>4, <1>5, <1>6, <1>7 DEF IInv

LEMMA SettleUnpaidKeepsIInv ==
    ASSUME IInv, NEW r \in Requests, SettleUnpaid(r)
    PROVE  IInv'
<1> USE DEF IInv, TypeOK
<1>1. TypeOK'
  <2>1. PICK p \in PaymentIds, answer \in ProviderPaymentStatus :
          payment' = [payment EXCEPT ![p].status = answer]
    BY DEF LocalsHold, RequestHolds, SettleUnpaid
  <2>2. [payment[p] EXCEPT !.status = answer] \in PaymentRow
    <3>1. payment[p] \in PaymentRow
      OBVIOUS
    <3> QED
      BY <3>1
  <2>3. payment' \in [PaymentIds -> PaymentRow]
    BY <2>1, <2>2
  <2> QED
    BY <2>3, PaymentsAssumption DEF SettleUnpaid, Idle
<1>2. RowsLinked'
  BY DEF RowsLinked, LocalsHold, RequestHolds, SettleUnpaid
<1>2a. OpenAsksForMoney'
  BY DEF OpenAsksForMoney, SettleUnpaid
<1>3. LocalsHold'
  BY DEF RowsLinked, LocalsHold, PaidIsBacked, RequestHolds, SettleUnpaid, Idle
<1>4. OneOpener'
  BY DEF OneOpener, SettleUnpaid, Idle
<1>5. UnsentNeverStale'
  BY DEF UnsentNeverStale, SettleUnpaid
<1>6. PaidIsBacked'
  BY DEF LocalsHold, PaidIsBacked, RequestHolds, SettleUnpaid
<1>7. AppliesOnlySettled'
  BY DEF AppliesOnlySettled, SettleUnpaid, Idle
<1> HIDE DEF TypeOK
<1> QED
  BY <1>1, <1>2, <1>2a, <1>3, <1>4, <1>5, <1>6, <1>7 DEF IInv

LEMMA ApplyPaidInvoiceKeepsIInv ==
    ASSUME IInv, NEW r \in Requests, ApplyPaidInvoice(r)
    PROVE  IInv'
<1> USE DEF IInv, TypeOK
<1>1. TypeOK'
  BY DEF ApplyPaidInvoice, Idle
<1>2. RowsLinked'
  BY DEF RowsLinked, ApplyPaidInvoice
<1>2a. OpenAsksForMoney'
  BY DEF OpenAsksForMoney, ApplyPaidInvoice
<1>3. LocalsHold'
  BY DEF LocalsHold, RequestHolds, ApplyPaidInvoice, Idle
<1>4. OneOpener'
  BY DEF OneOpener, ApplyPaidInvoice, Idle
<1>5. UnsentNeverStale'
  BY DEF UnsentNeverStale, ApplyPaidInvoice
<1>6. PaidIsBacked'
  BY DEF PaidIsBacked, ApplyPaidInvoice
<1>7. AppliesOnlySettled'
  BY DEF AppliesOnlySettled, ApplyPaidInvoice, Idle
<1> HIDE DEF TypeOK
<1> QED
  BY <1>1, <1>2, <1>2a, <1>3, <1>4, <1>5, <1>6, <1>7 DEF IInv

LEMMA LoseRequestKeepsIInv ==
    ASSUME IInv, NEW r \in Requests, LoseRequest(r)
    PROVE  IInv'
<1> USE DEF IInv, TypeOK
<1>1. TypeOK'
  BY DEF LoseRequest, Idle
<1>2. RowsLinked'
  BY DEF RowsLinked, LoseRequest
<1>2a. OpenAsksForMoney'
  BY DEF OpenAsksForMoney, LoseRequest
<1>3. LocalsHold'
  BY DEF LocalsHold, RequestHolds, LoseRequest, Idle
<1>4. OneOpener'
  BY DEF OneOpener, LoseRequest, Idle
<1>5. UnsentNeverStale'
  BY DEF UnsentNeverStale, LoseRequest
<1>6. PaidIsBacked'
  BY DEF PaidIsBacked, LoseRequest
<1>7. AppliesOnlySettled'
  BY DEF AppliesOnlySettled, LoseRequest, Idle
<1> HIDE DEF TypeOK
<1> QED
  BY <1>1, <1>2, <1>2a, <1>3, <1>4, <1>5, <1>6, <1>7 DEF IInv

LEMMA CustomerPaysKeepsIInv ==
    ASSUME IInv, NEW p \in PaymentIds, CustomerPays(p)
    PROVE  IInv'
<1> USE DEF IInv, TypeOK
<1>1. TypeOK'
  <2>1. [gateway[p] EXCEPT !.status = "paid"] \in GatewaySession
    <3>1. gateway[p] \in GatewaySession
      OBVIOUS
    <3> QED
      BY <3>1
  <2>2. gateway' \in [PaymentIds -> GatewaySession]
    BY <2>1 DEF CustomerPays
  <2> QED
    BY <2>2 DEF CustomerPays
<1>2. RowsLinked'
  BY DEF RowsLinked, CustomerPays
<1>2a. OpenAsksForMoney'
  BY DEF OpenAsksForMoney, CustomerPays
<1>3. LocalsHold'
  BY DEF LocalsHold, RequestHolds, CustomerPays
<1>4. OneOpener'
  BY DEF OneOpener, CustomerPays
<1>5. UnsentNeverStale'
  BY DEF UnsentNeverStale, CustomerPays
<1>6. PaidIsBacked'
  BY DEF PaidIsBacked, CustomerPays
<1>7. AppliesOnlySettled'
  BY DEF AppliesOnlySettled, CustomerPays
<1> HIDE DEF TypeOK
<1> QED
  BY <1>1, <1>2, <1>2a, <1>3, <1>4, <1>5, <1>6, <1>7 DEF IInv

LEMMA SessionEndsKeepsIInv ==
    ASSUME IInv, NEW p \in PaymentIds, SessionEnds(p)
    PROVE  IInv'
<1> USE DEF IInv, TypeOK
<1>1. TypeOK'
  <2>1. PICK outcome \in Declines :
          gateway' = [gateway EXCEPT ![p].status = outcome]
    BY DEF SessionEnds
  <2>2. [gateway[p] EXCEPT !.status = outcome] \in GatewaySession
    <3>1. gateway[p] \in GatewaySession /\ outcome \in ProviderPaymentStatus
      BY PaymentsAssumption
    <3> QED
      BY <3>1
  <2>3. gateway' \in [PaymentIds -> GatewaySession]
    BY <2>1, <2>2
  <2> QED
    BY <2>3 DEF SessionEnds
<1>2. RowsLinked'
  BY PaymentsAssumption DEF RowsLinked, SessionEnds
<1>2a. OpenAsksForMoney'
  BY DEF OpenAsksForMoney, SessionEnds
<1>3. LocalsHold'
  <2>1. /\ gateway[p].status = "pending"
        /\ gateway'[p].status # "none"
        /\ \A o \in PaymentIds : o # p => gateway'[o] = gateway[o]
        /\ UNCHANGED <<now, invoice, payment, request>>
    BY PaymentsAssumption DEF SessionEnds
  <2>2. ASSUME NEW q \in Requests
        PROVE  RequestHolds(request[q])'
    <3>1. RequestHolds(request[q])
      BY DEF LocalsHold
    <3> QED
      BY <2>1, <3>1 DEF RequestHolds
  <2> QED
    BY <2>2 DEF LocalsHold
<1>4. OneOpener'
  BY DEF OneOpener, SessionEnds
<1>5. UnsentNeverStale'
  BY DEF UnsentNeverStale, SessionEnds
<1>6. PaidIsBacked'
  BY DEF PaidIsBacked, SessionEnds
<1>7. AppliesOnlySettled'
  BY DEF AppliesOnlySettled, SessionEnds
<1> HIDE DEF TypeOK
<1> QED
  BY <1>1, <1>2, <1>2a, <1>3, <1>4, <1>5, <1>6, <1>7 DEF IInv

LEMMA HandleStalePaymentsKeepsIInv ==
    ASSUME IInv, HandleStalePayments
    PROVE  IInv'
<1> USE DEF IInv, TypeOK
<1>1. TypeOK'
  <2>1. ASSUME NEW p \in PaymentIds
        PROVE  [payment[p] EXCEPT !.status = "canceled"] \in PaymentRow
    <3>1. payment[p] \in PaymentRow
      OBVIOUS
    <3> QED
      BY <3>1
  <2>2. payment' \in [PaymentIds -> PaymentRow]
    BY <2>1 DEF HandleStalePayments
  <2> QED
    BY <2>2 DEF HandleStalePayments
<1>2. RowsLinked'
  BY DEF RowsLinked, HandleStalePayments, Stale
<1>2a. OpenAsksForMoney'
  BY DEF OpenAsksForMoney, HandleStalePayments
<1>3. LocalsHold'
  BY DEF LocalsHold, UnsentNeverStale, RequestHolds, HandleStalePayments, Stale
<1>4. OneOpener'
  BY DEF OneOpener, HandleStalePayments
<1>5. UnsentNeverStale'
  BY DEF UnsentNeverStale, HandleStalePayments
<1>6. PaidIsBacked'
  BY DEF PaidIsBacked, HandleStalePayments, Stale
<1>7. AppliesOnlySettled'
  BY DEF AppliesOnlySettled, HandleStalePayments
<1> HIDE DEF TypeOK
<1> QED
  BY <1>1, <1>2, <1>2a, <1>3, <1>4, <1>5, <1>6, <1>7 DEF IInv

LEMMA TickKeepsIInv ==
    ASSUME IInv, Tick
    PROVE  IInv'
<1> USE DEF IInv, TypeOK
<1>1. TypeOK'
  BY DEF Tick
<1>2. RowsLinked'
  BY DEF RowsLinked, Tick
<1>2a. OpenAsksForMoney'
  BY DEF OpenAsksForMoney, Tick
<1>3. LocalsHold'
  BY DEF LocalsHold, RequestHolds, Tick
<1>4. OneOpener'
  BY DEF OneOpener, Tick
<1>5. UnsentNeverStale'
  BY DEF UnsentNeverStale, Tick
<1>6. PaidIsBacked'
  BY DEF PaidIsBacked, Tick
<1>7. AppliesOnlySettled'
  BY DEF AppliesOnlySettled, Tick
<1> HIDE DEF TypeOK
<1> QED
  BY <1>1, <1>2, <1>2a, <1>3, <1>4, <1>5, <1>6, <1>7 DEF IInv

LEMMA InitIInv == Init => IInv
<1> SUFFICES ASSUME Init PROVE IInv
  OBVIOUS
<1> USE DEF Init, Idle
<1>1. TypeOK
  BY PaymentsAssumption DEF TypeOK, NullTime
<1>2. RowsLinked /\ OpenAsksForMoney /\ LocalsHold /\ OneOpener /\ UnsentNeverStale
  BY DEF RowsLinked, OpenAsksForMoney, LocalsHold, RequestHolds, OneOpener, UnsentNeverStale
<1>3. PaidIsBacked /\ AppliesOnlySettled
  BY DEF PaidIsBacked, AppliesOnlySettled
<1> QED
  BY <1>1, <1>2, <1>3 DEF IInv

LEMMA NextKeepsIInv == IInv /\ [Next]_vars => IInv'
<1> SUFFICES ASSUME IInv, [Next]_vars PROVE IInv'
  OBVIOUS
<1>1. ASSUME NEW r \in Requests, RequestStep(r)
      PROVE  IInv'
  <2>1. CASE IssueInvoice(r)
    BY <2>1, IssueInvoiceKeepsIInv
  <2>2. CASE PayInvoice(r)
    BY <2>2, CreateCheckoutKeepsIInv DEF PayInvoice
  <2>3. CASE CheckoutIssued(r)
    <3>1. /\ request[r].invoice \in Invoices
          /\ invoice[request[r].invoice].status # "none"
      BY <2>3 DEF CheckoutIssued, IInv, LocalsHold, RequestHolds
    <3> QED
      BY <2>3, <3>1, CreateCheckoutKeepsIInv DEF CheckoutIssued
  <2>4. CASE OpenSession(r)
    BY <2>4, OpenSessionKeepsIInv
  <2>4a. CASE StoreSession(r)
    BY <2>4a, StoreSessionKeepsIInv
  <2>5. CASE RefuseSession(r)
    BY <2>5, RefuseSessionKeepsIInv
  <2>6. CASE ConfirmPayment(r)
    BY <2>6, ConfirmPaymentKeepsIInv
  <2>7. CASE QueryGateway(r)
    BY <2>7, QueryGatewayKeepsIInv
  <2>8. CASE SettlePaid(r)
    BY <2>8, SettlePaidKeepsIInv
  <2>9. CASE SettleUnpaid(r)
    BY <2>9, SettleUnpaidKeepsIInv
  <2>10. CASE ApplyPaidInvoice(r)
    BY <2>10, ApplyPaidInvoiceKeepsIInv
  <2>11. CASE LoseRequest(r)
    BY <2>11, LoseRequestKeepsIInv
  <2> QED
    BY <1>1, <2>1, <2>2, <2>3, <2>4, <2>4a, <2>5, <2>6, <2>7, <2>8, <2>9, <2>10, <2>11
       DEF RequestStep
<1>2. ASSUME NEW p \in PaymentIds, CustomerPays(p) \/ SessionEnds(p)
      PROVE  IInv'
  BY <1>2, CustomerPaysKeepsIInv, SessionEndsKeepsIInv
<1>3. CASE HandleStalePayments
  BY <1>3, HandleStalePaymentsKeepsIInv
<1>4. CASE Tick
  BY <1>4, TickKeepsIInv
<1>5. CASE UNCHANGED vars
  BY <1>5 DEF vars, IInv, TypeOK, RowsLinked, OpenAsksForMoney, LocalsHold, RequestHolds, OneOpener,
              UnsentNeverStale, PaidIsBacked, AppliesOnlySettled
<1> QED
  BY <1>1, <1>2, <1>3, <1>4, <1>5 DEF Next

(* The strengthened invariant holds of every reachable state. *)
THEOREM IInvAlways == Spec => []IInv
  BY InitIInv, NextKeepsIInv, PTL DEF Spec

(* Every column and every local of a request keeps its type, for any number  *)
(* of invoices, payments and requests.                                       *)
THEOREM TypeCorrect == Spec => []TypeOK
<1>1. IInv => TypeOK
  BY DEF IInv
<1> QED
  BY IInvAlways, <1>1, PTL

(* No payment is paid that the gateway did not take the money for, and no    *)
(* invoice settled that nobody paid for.                                     *)
THEOREM PaidAlwaysBacked == Spec => []PaidIsBacked
<1>1. IInv => PaidIsBacked
  BY DEF IInv
<1> QED
  BY IInvAlways, <1>1, PTL

(* Only settled invoices reach the subscription. *)
THEOREM OnlySettledApplied == Spec => []AppliesOnlySettled
<1>1. IInv => AppliesOnlySettled
  BY DEF IInv
<1> QED
  BY IInvAlways, <1>1, PTL

-----------------------------------------------------------------------------
(* How many sessions one invoice may have                                   *)

Bounded(i) == Cardinality(LiveSessions(i)) + Cardinality(Opening(i)) <= Cardinality(Requests)

LEMMA SessionsAreCounted ==
    ASSUME NEW i \in Invoices
    PROVE  /\ IsFiniteSet(LiveSessions(i)) /\ Cardinality(LiveSessions(i)) \in Nat
           /\ IsFiniteSet(Opening(i)) /\ Cardinality(Opening(i)) \in Nat
           /\ Cardinality(Opening(i)) <= Cardinality(Requests)
           /\ Cardinality(Requests) \in Nat
<1>1. LiveSessions(i) \in SUBSET PaymentIds /\ Opening(i) \in SUBSET Requests
  BY DEF LiveSessions, Opening
<1> QED
  BY <1>1, PaymentsAssumption, FS_Subset, FS_CardinalityType

(* A step after which there are no more of either than before. *)
LEMMA FewerStaysBounded ==
    ASSUME NEW i \in Invoices, Bounded(i),
           LiveSessions(i)' \subseteq LiveSessions(i), Opening(i)' \subseteq Opening(i)
    PROVE  Bounded(i)'
<1>1. /\ Cardinality(LiveSessions(i)') <= Cardinality(LiveSessions(i))
      /\ Cardinality(LiveSessions(i)') \in Nat
  BY SessionsAreCounted, FS_Subset, FS_CardinalityType
<1>2. /\ Cardinality(Opening(i)') <= Cardinality(Opening(i))
      /\ Cardinality(Opening(i)') \in Nat
  BY SessionsAreCounted, FS_Subset, FS_CardinalityType
<1> QED
  BY <1>1, <1>2, SessionsAreCounted DEF Bounded

(* A checkout opens a session only when there is none to hand out again.    *)
LEMMA CheckoutStaysBounded ==
    ASSUME IInv, NEW r \in Requests, NEW j \in Invoices, CreateCheckout(r, j),
           UNCHANGED <<now, invoice, gateway>>, NEW i \in Invoices, Bounded(i)
    PROVE  Bounded(i)'
<1>0. payment \in [PaymentIds -> PaymentRow] /\ request \in [Requests -> Request] /\ now \in Nat
  BY DEF IInv, TypeOK
<1>1. LiveSessions(i)' \subseteq LiveSessions(i)
  <2>1. CASE UNCHANGED payment
    BY <2>1 DEF LiveSessions
  <2>2. CASE /\ FreshPayments # {}
             /\ payment' = [payment EXCEPT
                  ![NewPayment] = [status |-> "pending", invoice |-> j,
                                   amount |-> invoice[j].total, session |-> FALSE,
                                   expiresAt |-> NullTime]]
    BY <1>0, <2>2, NewPaymentIsFresh DEF LiveSessions
  <2> QED
    BY <2>1, <2>2 DEF CreateCheckout
<1>2. CASE request' = [request EXCEPT ![r] = Idle]
  <2>1. Opening(i)' \subseteq Opening(i)
    BY <1>0, <1>2 DEF Opening, Idle
  <2> QED
    BY <1>1, <2>1, FewerStaysBounded
<1>3. CASE /\ request' = [request EXCEPT ![r] = At("provider", j, NewPayment, "pending")]
           /\ ~\E p \in PaymentIds : Reusable(p, j)
  <2>1. CASE i # j
    <3>1. Opening(i)' \subseteq Opening(i)
      BY <1>0, <1>3, <2>1 DEF Opening, At
    <3> QED
      BY <1>1, <3>1, FewerStaysBounded
  <2>2. CASE i = j
    <3>1. LiveSessions(i) = {}
      BY <1>3, <2>2 DEF LiveSessions, Reusable
    <3>2. Cardinality(LiveSessions(i)') = 0
      BY <1>1, <3>1, FS_EmptySet
    <3>3. Opening(i)' \in SUBSET Requests
      BY DEF Opening
    <3>4. Cardinality(Opening(i)') <= Cardinality(Requests) /\ Cardinality(Opening(i)') \in Nat
      BY <3>3, PaymentsAssumption, FS_Subset, FS_CardinalityType
    <3> QED
      BY <3>2, <3>4, SessionsAreCounted DEF Bounded
  <2> QED
    BY <2>1, <2>2
<1> QED
  BY <1>2, <1>3 DEF CreateCheckout

(* The request that stores the session is no longer opening it.             *)
LEMMA StoringStaysBounded ==
    ASSUME IInv, NEW r \in Requests, StoreSession(r), NEW i \in Invoices, Bounded(i)
    PROVE  Bounded(i)'
<1> DEFINE p == request[r].payment
<1>0. payment \in [PaymentIds -> PaymentRow] /\ request \in [Requests -> Request] /\ now \in Nat
  BY DEF IInv, TypeOK
<1>1. /\ p \in PaymentIds /\ ~payment[p].session
      /\ payment[p].invoice = request[r].invoice /\ request[r].pc = "store"
  BY DEF StoreSession, IInv, LocalsHold, RequestHolds
<1>2. /\ request' = [request EXCEPT ![r] = Idle] /\ now' = now
      /\ payment' = [payment EXCEPT
           ![p] = [@ EXCEPT !.session = TRUE, !.expiresAt = gateway[p].expiresAt]]
  BY DEF StoreSession
<1>3. \A q \in PaymentIds \ {p} : payment'[q] = payment[q]
  BY <1>0, <1>2
<1>4. payment'[p].invoice = payment[p].invoice
  BY <1>0, <1>1, <1>2 DEF PaymentRow
<1> HIDE DEF p
<1>5. Opening(i)' = Opening(i) \ {r}
  BY <1>0, <1>2 DEF Opening, Idle
<1>6. LiveSessions(i)' \subseteq LiveSessions(i) \cup {p}
  BY <1>1, <1>2, <1>3 DEF LiveSessions
<1>7. CASE request[r].invoice # i
  <2>1. LiveSessions(i)' \subseteq LiveSessions(i)
    BY <1>1, <1>4, <1>6, <1>7 DEF LiveSessions
  <2> QED
    BY <1>5, <2>1, FewerStaysBounded
<1>8. CASE request[r].invoice = i
  <2>1. r \in Opening(i)
    BY <1>1, <1>8 DEF Opening
  <2>2. /\ Cardinality(Opening(i)') = Cardinality(Opening(i)) - 1
        /\ Cardinality(Opening(i)) \in Nat
    BY <1>5, <2>1, SessionsAreCounted, FS_RemoveElement
  <2>3. /\ IsFiniteSet(LiveSessions(i) \cup {p})
        /\ Cardinality(LiveSessions(i) \cup {p}) =
             IF p \in LiveSessions(i) THEN Cardinality(LiveSessions(i))
             ELSE Cardinality(LiveSessions(i)) + 1
    BY SessionsAreCounted, FS_AddElement
  <2>4. /\ Cardinality(LiveSessions(i)') <= Cardinality(LiveSessions(i) \cup {p})
        /\ Cardinality(LiveSessions(i)') \in Nat
    BY <1>6, <2>3, FS_Subset, FS_CardinalityType
  <2> QED
    BY <2>2, <2>3, <2>4, SessionsAreCounted DEF Bounded
<1> QED
  BY <1>7, <1>8

LEMMA StepStaysBounded ==
    ASSUME IInv, [Next]_vars, NEW i \in Invoices, Bounded(i)
    PROVE  Bounded(i)'
<1>0. payment \in [PaymentIds -> PaymentRow] /\ request \in [Requests -> Request] /\ now \in Nat
  BY DEF IInv, TypeOK
<1> USE DEF LiveSessions, Opening
<1>1. ASSUME NEW r \in Requests, CheckoutIssued(r) \/ PayInvoice(r)
      PROVE  Bounded(i)'
  BY <1>1, CheckoutStaysBounded DEF CheckoutIssued, PayInvoice, IInv, LocalsHold, RequestHolds
<1>2. ASSUME NEW r \in Requests, StoreSession(r)
      PROVE  Bounded(i)'
  BY <1>2, StoringStaysBounded
<1>2a. ASSUME NEW r \in Requests, OpenSession(r)
       PROVE  LiveSessions(i)' \subseteq LiveSessions(i) /\ Opening(i)' \subseteq Opening(i)
  <2>1. /\ request' = [request EXCEPT ![r].pc = "store"]
        /\ request[r].pc = "provider"
        /\ UNCHANGED <<now, payment>>
    BY <1>2a DEF OpenSession
  <2>2. \A q \in Requests :
          /\ request'[q].invoice = request[q].invoice
          /\ request'[q].pc \in {"provider", "store"} => request[q].pc \in {"provider", "store"}
    BY <1>0, <2>1 DEF Request
  <2> QED
    BY <2>1, <2>2
<1>3. ASSUME NEW r \in Requests,
             \/ IssueInvoice(r) \/ ConfirmPayment(r) \/ QueryGateway(r)
             \/ ApplyPaidInvoice(r) \/ LoseRequest(r)
      PROVE  LiveSessions(i)' \subseteq LiveSessions(i) /\ Opening(i)' \subseteq Opening(i)
  BY <1>0, <1>3 DEF IssueInvoice, ConfirmPayment, QueryGateway, ApplyPaidInvoice, LoseRequest,
                    Idle, At
<1>4. ASSUME NEW r \in Requests, RefuseSession(r) \/ SettlePaid(r) \/ SettleUnpaid(r)
      PROVE  LiveSessions(i)' \subseteq LiveSessions(i) /\ Opening(i)' \subseteq Opening(i)
  <2>1. Opening(i)' \subseteq Opening(i)
    BY <1>0, <1>4 DEF RefuseSession, SettlePaid, SettleUnpaid, Idle, At
  <2>2. PICK p \in PaymentIds, status \in {"failed", "paid", "canceled"} :
          payment' = [payment EXCEPT ![p].status = status] /\ now' = now
    <3>1. CASE RefuseSession(r)
      BY <3>1 DEF RefuseSession, IInv, LocalsHold, RequestHolds
    <3>2. CASE SettlePaid(r)
      BY <3>2 DEF SettlePaid, IInv, LocalsHold, RequestHolds
    <3>3. CASE SettleUnpaid(r)
      <4>1. request[r].answer \in {"failed", "canceled"} /\ request[r].payment \in PaymentIds
        BY <1>0, <3>3 DEF SettleUnpaid, IInv, LocalsHold, RequestHolds, Request,
                          ProviderPaymentStatus
      <4> QED
        BY <3>3, <4>1 DEF SettleUnpaid
    <3> QED
      BY <1>4, <3>1, <3>2, <3>3
  <2>3. payment'[p].status # "pending" /\ \A q \in PaymentIds \ {p} : payment'[q] = payment[q]
    BY <1>0, <2>2 DEF PaymentRow
  <2> QED
    BY <2>1, <2>2, <2>3
<1>5. ASSUME NEW p \in PaymentIds, CustomerPays(p) \/ SessionEnds(p)
      PROVE  LiveSessions(i)' \subseteq LiveSessions(i) /\ Opening(i)' \subseteq Opening(i)
  BY <1>5 DEF CustomerPays, SessionEnds
<1>6. ASSUME HandleStalePayments
      PROVE  LiveSessions(i)' \subseteq LiveSessions(i) /\ Opening(i)' \subseteq Opening(i)
  <2>1. \A p \in PaymentIds : payment'[p] = payment[p] \/ payment'[p].status = "canceled"
    BY <1>0, <1>6 DEF HandleStalePayments, PaymentRow
  <2> QED
    BY <1>6, <2>1 DEF HandleStalePayments
<1>7. ASSUME Tick
      PROVE  LiveSessions(i)' \subseteq LiveSessions(i) /\ Opening(i)' \subseteq Opening(i)
  <2>1. \A p \in PaymentIds : payment[p].expiresAt \in Int
    BY <1>0 DEF PaymentRow
  <2> QED
    BY <1>0, <1>7, <2>1 DEF Tick
<1>8. ASSUME UNCHANGED vars
      PROVE  LiveSessions(i)' \subseteq LiveSessions(i) /\ Opening(i)' \subseteq Opening(i)
  BY <1>8 DEF vars
<1> QED
  BY <1>1, <1>2, <1>2a, <1>3, <1>4, <1>5, <1>6, <1>7, <1>8, FewerStaysBounded
     DEF Next, RequestStep

(* createCheckout: however often checkout is repeated, an invoice has no    *)
(* more live sessions, with those being opened, than there are requests at  *)
(* a time.                                                                  *)
THEOREM SessionsBounded == Spec => []SessionsBoundedByRequests
<1>1. Init => SessionsBoundedByRequests
  <2> SUFFICES ASSUME Init, NEW i \in Invoices
               PROVE  Cardinality(LiveSessions(i)) + Cardinality(Opening(i))
                        <= Cardinality(Requests)
    BY DEF SessionsBoundedByRequests
  <2>1. LiveSessions(i) = {} /\ Opening(i) = {}
    BY DEF Init, LiveSessions, Opening, Idle
  <2> QED
    BY <2>1, FS_EmptySet, SessionsAreCounted
<1>2. IInv /\ SessionsBoundedByRequests /\ [Next]_vars => SessionsBoundedByRequests'
  <2> SUFFICES ASSUME IInv, SessionsBoundedByRequests, [Next]_vars, NEW i \in Invoices
               PROVE  Bounded(i)'
    BY DEF SessionsBoundedByRequests, Bounded
  <2>1. Bounded(i)
    BY DEF SessionsBoundedByRequests, Bounded
  <2> QED
    BY <2>1, StepStaysBounded
<1> QED
  BY <1>1, <1>2, IInvAlways, PTL DEF Spec

-----------------------------------------------------------------------------
(* Finality                                                                 *)

LEMMA StepKeepsPaid == IInv /\ [Next]_vars => KeepsPaid \/ UNCHANGED vars
<1> SUFFICES ASSUME IInv, Next PROVE KeepsPaid
  BY DEF vars
<1> USE DEF IInv, TypeOK, KeepsPaid
<1>1. ASSUME NEW r \in Requests, IssueInvoice(r)
      PROVE  KeepsPaid
  BY <1>1, NewInvoiceIsFresh DEF IssueInvoice
<1>2. ASSUME NEW r \in Requests, NEW i \in Invoices, CreateCheckout(r, i),
             UNCHANGED invoice
      PROVE  KeepsPaid
  BY <1>2, NewPaymentIsFresh DEF CreateCheckout
<1>3. ASSUME NEW r \in Requests, RequestStep(r)
      PROVE  KeepsPaid
  <2>1. CASE PayInvoice(r)
    BY <1>2, <2>1 DEF PayInvoice
  <2>2. CASE CheckoutIssued(r)
    BY <1>2, <2>2 DEF CheckoutIssued, LocalsHold, RequestHolds
  <2>3. CASE OpenSession(r)
    BY <2>3 DEF OpenSession
  <2>3a. CASE StoreSession(r)
    BY <2>3a DEF StoreSession, LocalsHold, RequestHolds
  <2>4. CASE RefuseSession(r)
    BY <2>4 DEF RefuseSession, LocalsHold, RequestHolds
  <2>5. CASE SettlePaid(r)
    BY <2>5 DEF SettlePaid, MarkInvoicePaid
  <2>6. CASE SettleUnpaid(r)
    BY <2>6 DEF SettleUnpaid, LocalsHold, RequestHolds, PaidIsBacked
  <2>7. CASE ConfirmPayment(r) \/ QueryGateway(r) \/ ApplyPaidInvoice(r) \/ LoseRequest(r)
    BY <2>7 DEF ConfirmPayment, QueryGateway, ApplyPaidInvoice, LoseRequest
  <2> QED
    BY <1>1, <1>3, <2>1, <2>2, <2>3, <2>3a, <2>4, <2>5, <2>6, <2>7 DEF RequestStep
<1>4. ASSUME NEW p \in PaymentIds, CustomerPays(p) \/ SessionEnds(p)
      PROVE  KeepsPaid
  BY <1>4 DEF CustomerPays, SessionEnds
<1>5. CASE HandleStalePayments
  BY <1>5 DEF HandleStalePayments, Stale
<1>6. CASE Tick
  BY <1>6 DEF Tick
<1> QED
  BY <1>3, <1>4, <1>5, <1>6 DEF Next

(* A payment or an invoice that is paid is never touched again. *)
THEOREM Finality == Spec => PaidIsFinal
<1>1. IInv /\ [Next]_vars => [KeepsPaid]_vars
  BY StepKeepsPaid
<1> QED
  BY IInvAlways, <1>1, PTL DEF Spec, PaidIsFinal

-----------------------------------------------------------------------------
(* Money that was taken                                                     *)

(* MoneyIsOnRecord is preserved because a session and its payment are tied   *)
(* together: whoever marks a payment as refused has stored no session yet,   *)
(* and nobody else will; whoever marks it as unpaid remembers what the       *)
(* gateway still says.                                                       *)
LEMMA StepKeepsRecord ==
    ASSUME IInv, MoneyIsOnRecord, [Next]_vars
    PROVE  MoneyIsOnRecord'
<1> USE DEF IInv, TypeOK, MoneyIsOnRecord
<1>1. ASSUME NEW r \in Requests, NEW i \in Invoices, CreateCheckout(r, i),
             UNCHANGED <<now, invoice, gateway>>
      PROVE  MoneyIsOnRecord'
  <2>1. CASE payment' = payment
    BY <1>1, <2>1
  <2>2. CASE FreshPayments # {} /\ \E new : payment' = [payment EXCEPT ![NewPayment] = new]
    <3>1. NewPayment \in PaymentIds /\ gateway[NewPayment].status = "none"
      BY <2>2, NewPaymentIsFresh DEF RowsLinked
    <3>2. \A p \in PaymentIds : gateway[p].status # "none" => payment'[p] = payment[p]
      BY <2>2, <3>1
    <3> QED
      BY <1>1, <3>2
  <2> QED
    BY <1>1, <2>1, <2>2 DEF CreateCheckout
<1>2. ASSUME NEW r \in Requests, RequestStep(r)
      PROVE  MoneyIsOnRecord'
  <2>1. CASE PayInvoice(r)
    BY <1>1, <2>1 DEF PayInvoice
  <2>2. CASE CheckoutIssued(r)
    BY <1>1, <2>2 DEF CheckoutIssued, LocalsHold, RequestHolds
  <2>3. CASE OpenSession(r)
    <3>1. payment[request[r].payment].status = "pending"
      BY <2>3 DEF OpenSession, LocalsHold, RequestHolds
    <3>2. \A p \in PaymentIds : p # request[r].payment => gateway'[p] = gateway[p]
      BY <2>3 DEF OpenSession
    <3>3. UNCHANGED <<payment, now>>
      BY <2>3 DEF OpenSession
    <3> QED
      BY <3>1, <3>2, <3>3
  <2>3a. CASE StoreSession(r)
    <3>1. /\ request[r].payment \in PaymentIds
          /\ payment[request[r].payment].status = "pending"
      BY <2>3a DEF StoreSession, LocalsHold, RequestHolds
    <3>2. payment'[request[r].payment].status = "pending"
      BY <2>3a, <3>1 DEF StoreSession, PaymentRow
    <3>3. \A p \in PaymentIds : p # request[r].payment => payment'[p] = payment[p]
      BY <2>3a DEF StoreSession
    <3>4. UNCHANGED <<gateway, now>>
      BY <2>3a DEF StoreSession
    <3> QED
      BY <3>2, <3>3, <3>4
  <2>4. CASE RefuseSession(r)
    <3>1. /\ request[r].payment \in PaymentIds
          /\ ~payment[request[r].payment].session
      BY <2>4 DEF RefuseSession, LocalsHold, RequestHolds
    <3>2. /\ payment'[request[r].payment].status = "failed"
          /\ payment'[request[r].payment].session = payment[request[r].payment].session
      BY <2>4, <3>1 DEF RefuseSession, PaymentRow
    <3>3. \A p \in PaymentIds : p # request[r].payment => payment'[p] = payment[p]
      BY <2>4 DEF RefuseSession
    <3>4. UNCHANGED <<gateway, now>>
      BY <2>4 DEF RefuseSession
    <3> QED
      BY <3>1, <3>2, <3>3, <3>4
  <2>5. CASE SettlePaid(r)
    BY <2>5 DEF SettlePaid
  <2>6. CASE SettleUnpaid(r)
    <3>1. gateway[request[r].payment].status \notin {"pending", "paid"}
      BY <2>6 DEF SettleUnpaid, LocalsHold, RequestHolds
    <3> QED
      BY <2>6, <3>1 DEF SettleUnpaid
  <2>7. CASE \/ IssueInvoice(r) \/ ConfirmPayment(r) \/ QueryGateway(r)
             \/ ApplyPaidInvoice(r) \/ LoseRequest(r)
    BY <2>7 DEF IssueInvoice, ConfirmPayment, QueryGateway, ApplyPaidInvoice, LoseRequest
  <2> QED
    BY <1>2, <2>1, <2>2, <2>3, <2>3a, <2>4, <2>5, <2>6, <2>7 DEF RequestStep
<1>3. ASSUME NEW p \in PaymentIds, CustomerPays(p) \/ SessionEnds(p)
      PROVE  MoneyIsOnRecord'
  <2>1. Declines \cap {"pending", "paid"} = {}
    BY PaymentsAssumption
  <2> QED
    BY <1>3, <2>1 DEF CustomerPays, SessionEnds
<1>4. CASE HandleStalePayments
  <2>1. ASSUME NEW p \in PaymentIds, payment'[p] # payment[p]
        PROVE  /\ payment'[p] = [payment[p] EXCEPT !.status = "canceled"]
               /\ Stale(p) /\ ~RlsEnforced
    BY <1>4, <2>1 DEF HandleStalePayments, SeenWithoutOrganization
  <2>2. ASSUME NEW p \in PaymentIds, payment'[p] # payment[p]
        PROVE  /\ payment'[p].status = "canceled"
               /\ payment'[p].expiresAt = payment[p].expiresAt
    BY <2>1, <2>2
  <2> QED
    BY <1>4, <2>1, <2>2 DEF HandleStalePayments, Stale
<1>5. CASE Tick
  BY <1>5 DEF Tick
<1>6. CASE UNCHANGED vars
  BY <1>6 DEF vars
<1> QED
  BY <1>2, <1>3, <1>4, <1>5, <1>6 DEF Next

(* Money the gateway took, or may yet take, is on record as paid or pending, *)
(* unless the hourly job closed the payment as expired, or its session was   *)
(* opened and could not be stored: there is no third way to lose sight of it.*)
THEOREM MoneyStaysOnRecord == Spec => []MoneyIsOnRecord
<1>1. Init => MoneyIsOnRecord
  BY DEF Init, MoneyIsOnRecord
<1>2. IInv /\ MoneyIsOnRecord /\ [Next]_vars => MoneyIsOnRecord'
  BY StepKeepsRecord
<1> QED
  BY IInvAlways, <1>1, <1>2, PTL DEF Spec

(* Payments, the gateway and invoices never disagree about what was paid,    *)
(* however confirmations, refusals and clean-ups interleave.                 *)
THEOREM BooksAlwaysAgree == Spec => []BooksAgree
<1>1. PaidIsBacked /\ MoneyIsOnRecord => BooksAgree
  BY DEF BooksAgree
<1> QED
  BY PaidAlwaysBacked, MoneyStaysOnRecord, <1>1, PTL

-----------------------------------------------------------------------------
(* Amounts of the three books                                               *)

(* What is due for the lines of an offer exceeds them by the tax at most. *)
LEMMA IssuedIsShortByTax ==
    ASSUME NEW offer \in Offers
    PROVE  /\ ShortByTax(Issued(offer), Issued(offer).lineTotal)
           /\ Issued(offer).status = "paid" => Issued(offer).total = 0
<1> DEFINE lines == LineTotal(offer)
           discount == ComputeDiscount(lines, offer.coupon)
           vat == Vat(lines, discount, VatRateBps)
<1>1. lines \in Nat /\ offer.coupon \in Coupon /\ VatRateBps \in Nat
  BY PaymentsAssumption, PricingAssumption, NatTimesNat DEF LineTotal
<1>2. /\ Issued(offer).lineTotal = lines
      /\ Issued(offer).total = lines - discount + vat
      /\ Issued(offer).status = "paid" => Issued(offer).total = 0
  BY DEF Issued, ComputeInvoiceAmounts
<1>3. discount \in 0..lines
  BY <1>1, DiscountWithinSubtotal
<1>4. vat \in Nat
  BY <1>1, InvoiceAmounts DEF ComputeInvoiceAmounts
<1>5. 2 * (BasisPoints * vat - VatRateBps * (lines - discount)) <= BasisPoints
  BY <1>1, <1>3, TaxRoundsFairly
<1>6. VatRateBps * (lines - discount) <= VatRateBps * lines
  <2> HIDE DEF discount, lines
  <2>1. \A a, b, c \in Nat : b <= c => a * b <= a * c
    BY SMT
  <2> QED
    BY <1>1, <1>3, <2>1
<1> HIDE DEF discount, lines, vat
<1>7. PICK share, all \in Int :
        share = VatRateBps * (lines - discount) /\ all = VatRateBps * lines
  BY <1>1, <1>3
<1>8. 2 * BasisPoints * (lines - discount + vat - lines) <= 2 * all + BasisPoints
  BY <1>1, <1>3, <1>4, <1>5, <1>6, <1>7 DEF BasisPoints
<1>9. 2 * VatRateBps * lines = 2 * all
  BY <1>1, <1>7
<1>10. 2 * BasisPoints * (lines - discount + vat - lines)
         <= 2 * VatRateBps * lines + BasisPoints
  BY <1>8, <1>9
<1>11. Issued(offer).total - Issued(offer).lineTotal = lines - discount + vat - lines
  BY <1>1, <1>2, <1>3, <1>4
<1>12. 2 * BasisPoints * (Issued(offer).total - Issued(offer).lineTotal)
         <= 2 * VatRateBps * Issued(offer).lineTotal + BasisPoints
  BY <1>2, <1>10, <1>11, Zenon
<1> QED
  BY <1>2, <1>12, Zenon DEF ShortByTax

(* A step that leaves every invoice as it is, but for settlements in full,   *)
(* and the references and amounts of what is there, keeps the amounts.       *)
LEMMA SameAmounts ==
    ASSUME AmountsHold, RowsLinked,
           \A i \in Invoices :
             /\ invoice'[i].total = invoice[i].total
             /\ invoice'[i].lineTotal = invoice[i].lineTotal
             /\ invoice'[i].status = "none" <=> invoice[i].status = "none"
             /\ invoice'[i].status = "paid" /\ invoice[i].status # "paid" =>
                  invoice'[i].amountPaid = invoice[i].total
             /\ invoice[i].status = "paid" => invoice'[i].amountPaid = invoice[i].amountPaid,
           \A p \in PaymentIds :
             /\ payment'[p].status # "none" => payment[p].status # "none"
             /\ payment[p].status # "none" =>
                  /\ payment'[p].amount = payment[p].amount
                  /\ payment'[p].invoice = payment[p].invoice
             /\ gateway'[p].status # "none" => gateway[p].status # "none"
             /\ gateway[p].status # "none" => gateway'[p].charge = gateway[p].charge
    PROVE  AmountsHold'
  BY DEF AmountsHold, RowsLinked, ShortByTax

LEMMA StepKeepsAmounts ==
    ASSUME IInv, AmountsHold, [Next]_vars
    PROVE  AmountsHold'
<1> USE DEF IInv, TypeOK
<1>1. ASSUME NEW r \in Requests, IssueInvoice(r)
      PROVE  AmountsHold'
  <2>1. PICK offer \in Offers : invoice' = [invoice EXCEPT ![NewInvoice] = Issued(offer)]
    BY <1>1 DEF IssueInvoice
  <2>2. /\ NewInvoice \in Invoices
        /\ invoice[NewInvoice].status = "none"
        /\ UNCHANGED <<payment, gateway>>
    BY <1>1, NewInvoiceIsFresh DEF IssueInvoice
  <2>3. \A i \in Invoices : i # NewInvoice => invoice'[i] = invoice[i]
    BY <2>1
  <2>4. invoice'[NewInvoice] = Issued(offer)
    BY <2>1, <2>2
  <2>5. \A p \in PaymentIds :
          payment[p].status # "none" \/ gateway[p].status # "none" =>
            /\ payment[p].invoice \in Invoices
            /\ payment[p].invoice # NewInvoice
    BY <2>2 DEF RowsLinked
  <2> QED
    BY <2>2, <2>3, <2>4, <2>5, IssuedIsShortByTax DEF AmountsHold, ShortByTax
<1>2. ASSUME NEW r \in Requests, NEW i \in Invoices, CreateCheckout(r, i),
             UNCHANGED <<invoice, gateway>>
      PROVE  AmountsHold'
  <2>1. CASE UNCHANGED payment
    BY <1>2, <2>1, SameAmounts
  <2>2. CASE ~UNCHANGED payment
    <3>1. /\ NewPayment \in PaymentIds
          /\ payment[NewPayment].status = "none"
          /\ payment' = [payment EXCEPT
               ![NewPayment] = [status |-> "pending",
                                invoice |-> i,
                                amount |-> invoice[i].total,
                                session |-> FALSE,
                                expiresAt |-> NullTime]]
      BY <1>2, <2>2, NewPaymentIsFresh DEF CreateCheckout
    <3>2. gateway[NewPayment].status = "none"
      BY <3>1 DEF RowsLinked
    <3>3. \A p \in PaymentIds : p # NewPayment => payment'[p] = payment[p]
      BY <3>1
    <3>4. payment'[NewPayment].invoice = i /\ payment'[NewPayment].amount = invoice[i].total
      BY <3>1
    <3> QED
      BY <1>2, <3>2, <3>3, <3>4 DEF AmountsHold, ShortByTax
  <2> QED
    BY <2>1, <2>2
<1>3. ASSUME NEW r \in Requests, OpenSession(r)
      PROVE  AmountsHold'
  <2> DEFINE p == request[r].payment
  <2>1. /\ p \in PaymentIds
        /\ payment[p].status # "none"
        /\ payment[p].invoice = request[r].invoice
    BY <1>3 DEF OpenSession, LocalsHold, RequestHolds
  <2>2. /\ invoice' = invoice
        /\ gateway' = [gateway EXCEPT
             ![p] = [status |-> "pending",
                     charge |-> invoice[payment[p].invoice].lineTotal,
                     expiresAt |-> now + SessionTTL]]
        /\ payment' = payment
    BY <1>3, <2>1 DEF OpenSession
  <2> HIDE DEF p
  <2>3. \A q \in PaymentIds :
          /\ payment'[q].status = payment[q].status
          /\ payment'[q].amount = payment[q].amount
          /\ payment'[q].invoice = payment[q].invoice
    BY <2>1, <2>2
  <2>4. gateway'[p].charge = invoice[payment[p].invoice].lineTotal
    BY <2>1, <2>2
  <2>5. \A q \in PaymentIds : q # p => gateway'[q] = gateway[q]
    BY <2>2
  <2> QED
    BY <2>1, <2>2, <2>3, <2>4, <2>5 DEF AmountsHold, ShortByTax
<1>3a. ASSUME NEW r \in Requests, StoreSession(r)
       PROVE  AmountsHold'
  <2>1. request[r].payment \in PaymentIds
    BY <1>3a DEF StoreSession, LocalsHold, RequestHolds
  <2>2. \A q \in PaymentIds :
          /\ payment'[q].status = payment[q].status
          /\ payment'[q].amount = payment[q].amount
          /\ payment'[q].invoice = payment[q].invoice
    BY <1>3a, <2>1 DEF StoreSession, PaymentRow
  <2> QED
    BY <1>3a, <2>2, SameAmounts DEF StoreSession
<1>4. ASSUME NEW r \in Requests, SettlePaid(r)
      PROVE  AmountsHold'
  <2> DEFINE p == request[r].payment
             i == request[r].invoice
  <2>1. /\ p \in PaymentIds /\ i \in Invoices
        /\ payment[p].status # "none"
        /\ payment[p].invoice = i
    BY <1>4 DEF SettlePaid, LocalsHold, RequestHolds
  <2>2. /\ payment' = [payment EXCEPT ![p].status = "paid"]
        /\ invoice' = MarkInvoicePaid(i, payment[p].amount)
        /\ gateway' = gateway
    BY <1>4 DEF SettlePaid
  <2>3. payment[p].amount = invoice[i].total
    BY <2>1 DEF AmountsHold
  <2> HIDE DEF p, i
  <2>4. invoice' = IF invoice[i].status = "open"
                   THEN [invoice EXCEPT
                          ![i] = [@ EXCEPT !.status = "paid", !.amountPaid = invoice[i].total]]
                   ELSE invoice
    BY <2>2, <2>3 DEF MarkInvoicePaid
  <2>5. \A j \in Invoices :
          /\ invoice'[j].total = invoice[j].total
          /\ invoice'[j].lineTotal = invoice[j].lineTotal
          /\ invoice'[j].status = "none" <=> invoice[j].status = "none"
          /\ invoice'[j].status = "paid" /\ invoice[j].status # "paid" =>
               invoice'[j].amountPaid = invoice[j].total
          /\ invoice[j].status = "paid" => invoice'[j].amountPaid = invoice[j].amountPaid
    BY <2>1, <2>4
  <2>6. \A q \in PaymentIds :
          /\ payment'[q].status # "none" => payment[q].status # "none"
          /\ payment'[q].amount = payment[q].amount
          /\ payment'[q].invoice = payment[q].invoice
    BY <2>1, <2>2
  <2> QED
    BY <2>2, <2>5, <2>6, SameAmounts
<1>5. ASSUME NEW r \in Requests, RefuseSession(r) \/ SettleUnpaid(r)
      PROVE  AmountsHold'
  <2>1. /\ request[r].payment \in PaymentIds
        /\ payment[request[r].payment].status # "none"
    BY <1>5 DEF RefuseSession, SettleUnpaid, LocalsHold, RequestHolds
  <2>2. PICK s : payment' = [payment EXCEPT ![request[r].payment].status = s]
    BY <1>5, Zenon DEF RefuseSession, SettleUnpaid
  <2>3. UNCHANGED <<invoice, gateway>>
    BY <1>5 DEF RefuseSession, SettleUnpaid
  <2>4. \A q \in PaymentIds :
          /\ payment'[q].status # "none" => payment[q].status # "none"
          /\ payment'[q].amount = payment[q].amount
          /\ payment'[q].invoice = payment[q].invoice
    BY <2>1, <2>2
  <2> QED
    BY <2>3, <2>4, SameAmounts
<1>6. ASSUME NEW r \in Requests, RequestStep(r)
      PROVE  AmountsHold'
  <2>1. CASE PayInvoice(r)
    BY <1>2, <2>1 DEF PayInvoice
  <2>2. CASE CheckoutIssued(r)
    BY <1>2, <2>2 DEF CheckoutIssued, LocalsHold, RequestHolds
  <2>3. CASE ConfirmPayment(r) \/ QueryGateway(r) \/ ApplyPaidInvoice(r) \/ LoseRequest(r)
    BY <2>3, SameAmounts DEF ConfirmPayment, QueryGateway, ApplyPaidInvoice, LoseRequest
  <2> QED
    BY <1>1, <1>3, <1>3a, <1>4, <1>5, <1>6, <2>1, <2>2, <2>3 DEF RequestStep
<1>7. ASSUME NEW p \in PaymentIds, CustomerPays(p) \/ SessionEnds(p)
      PROVE  AmountsHold'
  <2>1. PICK s : gateway' = [gateway EXCEPT ![p].status = s]
    BY <1>7 DEF CustomerPays, SessionEnds
  <2>2. gateway[p].status # "none" /\ UNCHANGED <<invoice, payment>>
    BY <1>7 DEF CustomerPays, SessionEnds
  <2>3. \A q \in PaymentIds :
          /\ gateway'[q].status # "none" => gateway[q].status # "none"
          /\ gateway'[q].charge = gateway[q].charge
    BY <2>1, <2>2
  <2> QED
    BY <2>2, <2>3, SameAmounts
<1>8. CASE HandleStalePayments
  <2>1. \A q \in PaymentIds :
          /\ payment'[q].status # "none" => payment[q].status # "none"
          /\ payment'[q].amount = payment[q].amount
          /\ payment'[q].invoice = payment[q].invoice
    BY <1>8 DEF HandleStalePayments, Stale
  <2> QED
    BY <1>8, <2>1, SameAmounts DEF HandleStalePayments
<1>9. CASE Tick \/ UNCHANGED vars
  BY <1>9, SameAmounts DEF Tick, vars
<1> QED
  BY <1>6, <1>7, <1>8, <1>9 DEF Next

(* Whatever the offers, coupons and tax rate, and whatever overlapped: the   *)
(* invoice that changes a subscription was collected, all but its tax.       *)
THEOREM OnlyCollectedApplied == Spec => []AppliedWasCollected
<1>1. Init => AmountsHold
  BY DEF Init, AmountsHold
<1>2. IInv /\ AmountsHold /\ [Next]_vars => AmountsHold'
  BY StepKeepsAmounts
<1>3. IInv /\ AmountsHold => AppliedWasCollected
  <2> SUFFICES ASSUME IInv, AmountsHold, NEW r \in Requests, request[r].pc = "apply",
                      invoice[request[r].invoice].total # 0
               PROVE  LET due == invoice[request[r].invoice]
                      IN  /\ due.status = "paid"
                          /\ due.amountPaid = due.total
                          /\ \E p \in PaymentIds :
                               /\ payment[p].invoice = request[r].invoice
                               /\ gateway[p].status = "paid"
                               /\ ShortByTax(due, gateway[p].charge)
    BY DEF AppliedWasCollected, IInv, AppliesOnlySettled
  <2>1. PICK i \in Invoices : i = request[r].invoice /\ invoice[i].status = "paid"
    BY DEF IInv, AppliesOnlySettled
  <2>2. PICK p \in PaymentIds : payment[p].invoice = i /\ payment[p].status = "paid"
    BY <2>1 DEF IInv, PaidIsBacked
  <2>3. gateway[p].status = "paid" /\ gateway[p].charge = invoice[i].lineTotal
    BY <2>2 DEF IInv, PaidIsBacked, AmountsHold
  <2> QED
    BY <2>1, <2>2, <2>3 DEF AmountsHold
<1> QED
  BY IInvAlways, <1>1, <1>2, <1>3, PTL DEF Spec

-----------------------------------------------------------------------------
(* Refinement: an invoice's status, and whether the gateway took money for   *)
(* it, change only as Settlement allows.                                     *)

(* A step that keeps these keeps the abstract state. *)
LEMMA AbstractStutter ==
    ASSUME invoice' = invoice, CollectedInvoices' = CollectedInvoices
    PROVE  UNCHANGED Promise!settlementVars
  BY DEF Promise!settlementVars, Standing

LEMMA StatusChangeKeepsInvoice ==
    ASSUME payment \in [PaymentIds -> PaymentRow], NEW q, NEW s,
           payment' = [payment EXCEPT ![q].status = s]
    PROVE  \A p \in PaymentIds : payment'[p].invoice = payment[p].invoice
  OBVIOUS

LEMMA CreateCheckoutStutters ==
    ASSUME IInv, NEW r \in Requests, NEW i \in Invoices, CreateCheckout(r, i),
           UNCHANGED <<invoice, gateway>>
    PROVE  UNCHANGED Promise!settlementVars
<1> USE DEF IInv, TypeOK
<1>1. CollectedInvoices' = CollectedInvoices
  <2>1. CASE payment' = payment
    BY <2>1 DEF CollectedInvoices
  <2>2. CASE FreshPayments # {} /\ \E new \in PaymentRow :
               payment' = [payment EXCEPT ![NewPayment] = new]
    <3>1. NewPayment \in PaymentIds /\ gateway[NewPayment].status = "none"
      BY <2>2, NewPaymentIsFresh DEF RowsLinked
    <3>2. \A p \in PaymentIds : gateway[p].status = "paid" => payment'[p] = payment[p]
      BY <2>2, <3>1
    <3> QED
      BY <3>2 DEF CollectedInvoices
  <2>3. [status |-> "pending", invoice |-> i, amount |-> invoice[i].total,
         session |-> FALSE, expiresAt |-> NullTime] \in PaymentRow
    BY DEF NullTime
  <2> QED
    BY <2>1, <2>2, <2>3 DEF CreateCheckout
<1> QED
  BY <1>1, AbstractStutter

LEMMA IssueInvoiceIssues ==
    ASSUME IInv, NEW r \in Requests, IssueInvoice(r)
    PROVE  Promise!SettlementNext
<1> USE DEF IInv, TypeOK
<1>1. PICK offer \in Offers :
        invoice' = [invoice EXCEPT ![NewInvoice] = Issued(offer)]
  BY DEF IssueInvoice
<1>2. NewInvoice \in Invoices /\ invoice[NewInvoice].status = "none"
  BY NewInvoiceIsFresh DEF IssueInvoice
<1> DEFINE s == IF Issued(offer).total = 0 THEN "free" ELSE "open"
<1>3. /\ Issued(offer).status = "paid" <=> Issued(offer).total = 0
      /\ Issued(offer).status \in {"open", "paid"}
  BY IssuedRow
<1>4. CollectedInvoices' = CollectedInvoices
  BY DEF CollectedInvoices, IssueInvoice
<1>5. [i \in Invoices |-> Standing(i)'] =
        [[i \in Invoices |-> Standing(i)] EXCEPT ![NewInvoice] = s]
  <2>1. \A i \in Invoices : Standing(i)' = IF i = NewInvoice THEN s ELSE Standing(i)
    BY <1>1, <1>2, <1>3 DEF Standing
  <2> QED
    BY <1>2, <2>1
<1>6. Promise!IssueAs(NewInvoice, s)
  BY <1>2, <1>4, <1>5 DEF Promise!IssueAs, Standing
<1> QED
  BY <1>2, <1>6 DEF Promise!SettlementNext

LEMMA CustomerPaysCollects ==
    ASSUME IInv, NEW p \in PaymentIds, CustomerPays(p)
    PROVE  Promise!SettlementNext
<1> DEFINE i == payment[p].invoice
<1> USE DEF IInv, TypeOK
<1>1. i \in Invoices /\ invoice[i].status # "none"
  BY DEF CustomerPays, RowsLinked
<1>2. CollectedInvoices' = CollectedInvoices \cup {i}
  BY <1>1 DEF CollectedInvoices, CustomerPays
<1>3. Promise!Collect(i)
  BY <1>1, <1>2 DEF Promise!Collect, CustomerPays, Standing
<1> QED
  BY <1>1, <1>3 DEF Promise!SettlementNext

LEMMA SettlePaidSettles ==
    ASSUME IInv, NEW r \in Requests, SettlePaid(r)
    PROVE  Promise!SettlementNext \/ UNCHANGED Promise!settlementVars
<1> USE DEF IInv, TypeOK
<1>1. PICK i \in Invoices, p \in PaymentIds :
        /\ payment[p].invoice = i
        /\ gateway[p].status = "paid"
        /\ payment' = [payment EXCEPT ![p].status = "paid"]
        /\ invoice' = MarkInvoicePaid(i, payment[p].amount)
        /\ gateway' = gateway
  BY DEF SettlePaid, LocalsHold, RequestHolds
<1>2. CollectedInvoices' = CollectedInvoices /\ i \in CollectedInvoices
  BY <1>1 DEF CollectedInvoices
<1>3. CASE invoice[i].status = "open"
  <2>1. Standing(i) = "open" /\ Standing(i)' = "paid"
    BY <1>1, <1>3 DEF OpenAsksForMoney, MarkInvoicePaid, Standing
  <2>2. \A j \in Invoices \ {i} : Standing(j)' = Standing(j)
    BY <1>1 DEF MarkInvoicePaid, Standing
  <2>3. [j \in Invoices |-> Standing(j)'] =
          [[j \in Invoices |-> Standing(j)] EXCEPT ![i] = "paid"]
    BY <2>1, <2>2
  <2>4. Promise!SettleInvoice(i)
    BY <1>2, <2>1, <2>3 DEF Promise!SettleInvoice
  <2> QED
    BY <2>4 DEF Promise!SettlementNext
<1>4. CASE invoice[i].status # "open"
  BY <1>1, <1>2, <1>4, AbstractStutter DEF MarkInvoicePaid
<1> QED
  BY <1>3, <1>4

LEMMA StepImplements ==
    IInv /\ [Next]_vars => [Promise!SettlementNext]_(Promise!settlementVars)
<1> SUFFICES ASSUME IInv, [Next]_vars
             PROVE  Promise!SettlementNext \/ UNCHANGED Promise!settlementVars
  OBVIOUS
<1> USE DEF IInv, TypeOK
<1>1. ASSUME NEW r \in Requests, RequestStep(r)
      PROVE  Promise!SettlementNext \/ UNCHANGED Promise!settlementVars
  <2>1. CASE IssueInvoice(r)
    BY <2>1, IssueInvoiceIssues
  <2>2. CASE PayInvoice(r)
    BY <2>2, CreateCheckoutStutters DEF PayInvoice
  <2>3. CASE CheckoutIssued(r)
    <3>1. request[r].invoice \in Invoices
      BY <2>3 DEF CheckoutIssued, LocalsHold, RequestHolds
    <3> QED
      BY <2>3, <3>1, CreateCheckoutStutters DEF CheckoutIssued
  <2>4. CASE OpenSession(r)
    <3>1. gateway[request[r].payment].status = "none"
      BY <2>4 DEF OpenSession, LocalsHold, RequestHolds, RowsLinked
    <3>2. CollectedInvoices' = CollectedInvoices
      BY <2>4, <3>1 DEF OpenSession, CollectedInvoices
    <3> QED
      BY <2>4, <3>2, AbstractStutter DEF OpenSession
  <2>4a. CASE StoreSession(r)
    <3>1. request[r].payment \in PaymentIds
      BY <2>4a DEF StoreSession, LocalsHold, RequestHolds
    <3>2. \A p \in PaymentIds : payment'[p].invoice = payment[p].invoice
      BY <2>4a, <3>1 DEF StoreSession, PaymentRow
    <3>3. CollectedInvoices' = CollectedInvoices
      BY <2>4a, <3>2 DEF StoreSession, CollectedInvoices
    <3> QED
      BY <2>4a, <3>3, AbstractStutter DEF StoreSession
  <2>5. CASE SettlePaid(r)
    BY <2>5, SettlePaidSettles
  <2>6. CASE RefuseSession(r) \/ SettleUnpaid(r)
    <3>1. \A p \in PaymentIds : payment'[p].invoice = payment[p].invoice
      BY <2>6, StatusChangeKeepsInvoice DEF RefuseSession, SettleUnpaid
    <3>2. CollectedInvoices' = CollectedInvoices
      BY <2>6, <3>1 DEF RefuseSession, SettleUnpaid, CollectedInvoices
    <3> QED
      BY <2>6, <3>2, AbstractStutter DEF RefuseSession, SettleUnpaid
  <2>7. CASE ConfirmPayment(r) \/ QueryGateway(r) \/ ApplyPaidInvoice(r) \/ LoseRequest(r)
    BY <2>7, AbstractStutter
       DEF ConfirmPayment, QueryGateway, ApplyPaidInvoice, LoseRequest, CollectedInvoices
  <2> QED
    BY <1>1, <2>1, <2>2, <2>3, <2>4, <2>4a, <2>5, <2>6, <2>7 DEF RequestStep
<1>2. ASSUME NEW p \in PaymentIds, CustomerPays(p)
      PROVE  Promise!SettlementNext
  BY <1>2, CustomerPaysCollects
<1>3. ASSUME NEW p \in PaymentIds, SessionEnds(p)
      PROVE  UNCHANGED Promise!settlementVars
  <2>1. CollectedInvoices' = CollectedInvoices
    BY <1>3, PaymentsAssumption DEF SessionEnds, CollectedInvoices
  <2> QED
    BY <1>3, <2>1, AbstractStutter DEF SessionEnds
<1>4. CASE HandleStalePayments
  <2>1. CollectedInvoices' = CollectedInvoices
    BY <1>4 DEF HandleStalePayments, CollectedInvoices
  <2> QED
    BY <1>4, <2>1, AbstractStutter DEF HandleStalePayments
<1>5. CASE Tick \/ UNCHANGED vars
  BY <1>5, AbstractStutter DEF Tick, vars, CollectedInvoices
<1> QED
  BY <1>1, <1>2, <1>3, <1>4, <1>5 DEF Next

LEMMA InitImplements == Init => Promise!SettlementInit
  BY DEF Init, Promise!SettlementInit, CollectedInvoices, Standing

(* The payment flow implements Settlement. *)
THEOREM Implementation == Spec => ImplementsSettlement
  BY IInvAlways, InitImplements, StepImplements, PTL
     DEF Spec, ImplementsSettlement, Promise!SettlementSpec
-----------------------------------------------------------------------------
(* Changes of plan                                                          *)

LEMMA Quotient ==
    ASSUME NEW n \in Int, NEW d \in Nat \ {0}
    PROVE  /\ n \div d \in Int
           /\ d * (n \div d) <= n
           /\ n < d * (n \div d) + d
  BY SMTT(30)

LEMMA QuotientMonotone ==
    ASSUME NEW m \in Int, NEW n \in Int, NEW d \in Nat \ {0}, m <= n
    PROVE  m \div d <= n \div d
<1> DEFINE p == m \div d
           q == n \div d
<1>1. p \in Int /\ d * p <= m
  BY Quotient
<1>2. q \in Int /\ n < d * q + d
  BY Quotient
<1> HIDE DEF p, q
<1>3. ASSUME q < p PROVE FALSE
  <2>1. p - q - 1 \in Nat
    BY <1>1, <1>2, <1>3
  <2>2. d * (p - q - 1) \in Nat
    BY <2>1, NatTimesNat
  <2>3. d * p = d * (p - q - 1) + d * q + d
    BY <1>1, <1>2, SMT
  <2>4. d * q \in Int
    BY <1>2
  <2> QED
    BY <1>1, <1>2, <2>2, <2>3, <2>4
<1> QED
  BY <1>1, <1>2, <1>3 DEF p, q

(* Days are counted in started ones: never fewer for a longer time, and     *)
(* none when there is no time left.                                         *)
LEMMA DaysGrow ==
    ASSUME NEW a \in Int, NEW b \in Int, NEW day \in Nat \ {0}, a <= b
    PROVE  /\ MathCeil(a, day) \in Int
           /\ MathCeil(a, day) <= MathCeil(b, day)
           /\ b <= 0 => MathCeil(b, day) <= 0
<1>1. (-b) \div day <= (-a) \div day
  BY QuotientMonotone
<1>2. (-b) \div day \in Int /\ (-a) \div day \in Int
  BY Quotient
<1>3. ASSUME b <= 0 PROVE (-b) \div day \in Nat
  <2>1. 0 \div day = 0
    BY SMTT(30)
  <2> QED
    BY <1>2, <1>3, <2>1, QuotientMonotone
<1> QED
  BY <1>1, <1>2, <1>3 DEF MathCeil

(* The credit for a period is a natural number; it does not grow with time, *)
(* and is nothing when the period is over.                                  *)
THEOREM CreditShrinks ==
    ASSUME NEW price \in Nat, NEW start \in Int, NEW end \in Int,
           NEW at \in Int, NEW later \in Int, at <= later, NEW day \in Nat \ {0}
    PROVE  /\ UnusedCredit(price, start, end, at, day) \in Nat
           /\ UnusedCredit(price, start, end, later, day)
                <= UnusedCredit(price, start, end, at, day)
           /\ end <= later => UnusedCredit(price, start, end, later, day) = 0
<1> DEFINE totalDays == DaysBetween(start, end, day)
           Remaining(t) == Least(Greatest(0, DaysBetween(t, end, day)), totalDays)
           Share(t) == price * Remaining(t)
           Credit(t) == MathRound(Share(t), totalDays)
<1>1. totalDays \in Int
  BY DaysGrow DEF DaysBetween
<1>2. UnusedCredit(price, start, end, at, day) =
        IF price <= 0 \/ totalDays <= 0 THEN 0 ELSE Greatest(0, Least(Credit(at), price))
  BY DEF UnusedCredit
<1>3. UnusedCredit(price, start, end, later, day) =
        IF price <= 0 \/ totalDays <= 0 THEN 0 ELSE Greatest(0, Least(Credit(later), price))
  BY DEF UnusedCredit
<1>4. CASE price <= 0 \/ totalDays <= 0
  BY <1>2, <1>3, <1>4
<1>5. CASE ~(price <= 0 \/ totalDays <= 0)
  <2>1. DaysBetween(later, end, day) \in Int /\ DaysBetween(at, end, day) \in Int
        /\ DaysBetween(later, end, day) <= DaysBetween(at, end, day)
        /\ (end <= later => DaysBetween(later, end, day) <= 0)
    <3>1. end - later \in Int /\ end - at \in Int /\ end - later <= end - at
      OBVIOUS
    <3>2. end <= later => end - later <= 0
      OBVIOUS
    <3> QED
      BY <3>1, <3>2, DaysGrow DEF DaysBetween
  <2>2. totalDays \in Nat \ {0}
    BY <1>1, <1>5
  <2> HIDE DEF totalDays
  <2>3. Remaining(later) \in Nat /\ Remaining(at) \in Nat /\ Remaining(later) <= Remaining(at)
        /\ (end <= later => Remaining(later) = 0)
    BY <2>1, <2>2 DEF Least, Greatest
  <2> HIDE DEF Remaining
  <2>4. Share(later) \in Nat /\ Share(at) \in Nat /\ Share(later) <= Share(at)
    <3>1. Share(later) \in Nat /\ Share(at) \in Nat
      BY <2>3, NatTimesNat
    <3>2. price * (Remaining(at) - Remaining(later)) \in Nat
      <4>1. Remaining(at) - Remaining(later) \in Nat
        BY <2>3
      <4> QED
        BY <4>1, NatTimesNat
    <3>3. Share(at) = Share(later) + price * (Remaining(at) - Remaining(later))
      BY <2>3, SMT
    <3> QED
      BY <3>1, <3>2, <3>3
  <2>5. end <= later => Share(later) = 0
    BY <2>3, SMT
  <2> HIDE DEF Share
  <2>6. Credit(later) \in Nat /\ Credit(at) \in Nat
    BY <2>2, <2>4, RoundedQuotient
  <2>7. Credit(later) <= Credit(at)
    <3>1. 2 * Share(later) + totalDays <= 2 * Share(at) + totalDays
      BY <2>2, <2>4
    <3>2. 2 * totalDays \in Nat \ {0}
      BY <2>2
    <3>3. 2 * Share(later) + totalDays \in Int /\ 2 * Share(at) + totalDays \in Int
      BY <2>2, <2>4
    <3> QED
      BY <3>1, <3>2, <3>3, QuotientMonotone DEF MathRound
  <2>8. ASSUME end <= later PROVE Credit(later) = 0
    <3>1. 2 * (totalDays * Credit(later)) <= totalDays
      BY <2>2, <2>4, <2>5, <2>8, RoundedQuotient
    <3>2. ASSUME Credit(later) # 0 PROVE totalDays <= totalDays * Credit(later)
      <4> DEFINE more == Credit(later) - 1
      <4>1. more \in Nat /\ Credit(later) = more + 1
        BY <2>6, <3>2
      <4> HIDE DEF more
      <4>2. totalDays * more \in Nat
        BY <2>2, <4>1, NatTimesNat
      <4>3. totalDays * (more + 1) = totalDays * more + totalDays
        BY <2>2, <4>1, SMT
      <4> QED
        BY <2>2, <4>1, <4>2, <4>3
    <3>3. totalDays * Credit(later) \in Nat
      BY <2>2, <2>6, NatTimesNat
    <3> QED
      BY <2>2, <3>1, <3>2, <3>3
  <2> QED
    BY <1>2, <1>3, <1>5, <2>6, <2>7, <2>8 DEF Least, Greatest
<1> QED
  BY <1>4, <1>5

(* Nor does it shrink with the price.                                       *)
LEMMA CreditGrowsWithPrice ==
    ASSUME NEW price \in Nat, NEW dearer \in Nat, price <= dearer,
           NEW start \in Int, NEW end \in Int, NEW at \in Int, NEW day \in Nat \ {0}
    PROVE  UnusedCredit(price, start, end, at, day)
             <= UnusedCredit(dearer, start, end, at, day)
<1> DEFINE totalDays == DaysBetween(start, end, day)
           remaining == Least(Greatest(0, DaysBetween(at, end, day)), totalDays)
           Share(p) == p * remaining
           Credit(p) == MathRound(Share(p), totalDays)
           Unused(p) == IF p <= 0 \/ totalDays <= 0 THEN 0
                        ELSE Greatest(0, Least(Credit(p), p))
<1>1. totalDays \in Int /\ DaysBetween(at, end, day) \in Int
  <2>1. end - start \in Int /\ end - at \in Int
    OBVIOUS
  <2> QED
    BY <2>1, DaysGrow DEF DaysBetween
<1>2. /\ UnusedCredit(price, start, end, at, day) = Unused(price)
      /\ UnusedCredit(dearer, start, end, at, day) = Unused(dearer)
  BY DEF UnusedCredit
<1>3. Unused(price) <= Unused(dearer)
  <2>1. CASE totalDays <= 0
    BY <2>1
  <2>2. CASE totalDays > 0
    <3>1. totalDays \in Nat \ {0}
      BY <1>1, <2>2
    <3>2. remaining \in Nat
      BY <1>1, <3>1 DEF Least, Greatest
    <3> HIDE DEF totalDays, remaining
    <3>3. /\ Share(price) \in Nat /\ Share(dearer) \in Nat
          /\ Share(price) <= Share(dearer)
      <4>1. (dearer - price) * remaining \in Nat
        <5>1. dearer - price \in Nat
          OBVIOUS
        <5> QED
          BY <3>2, <5>1, NatTimesNat
      <4>2. Share(price) \in Nat /\ Share(dearer) \in Nat
        BY <3>2, NatTimesNat
      <4>3. Share(dearer) = Share(price) + (dearer - price) * remaining
        BY <3>2, SMT
      <4> QED
        BY <4>1, <4>2, <4>3
    <3> HIDE DEF Share
    <3>4. Credit(price) \in Nat /\ Credit(dearer) \in Nat
      BY <3>1, <3>3, RoundedQuotient
    <3>5. Credit(price) <= Credit(dearer)
      <4>1. /\ 2 * Share(price) + totalDays \in Int
            /\ 2 * Share(dearer) + totalDays \in Int
            /\ 2 * Share(price) + totalDays <= 2 * Share(dearer) + totalDays
            /\ 2 * totalDays \in Nat \ {0}
        BY <3>1, <3>3
      <4> QED
        BY <4>1, QuotientMonotone DEF MathRound
    <3> HIDE DEF Credit
    <3> QED
      BY <3>1, <3>4, <3>5 DEF Least, Greatest
  <2> QED
    BY <1>1, <2>1, <2>2
<1> QED
  BY <1>2, <1>3

(* What is left of the current period by the price `whole` at instant t.    *)
CreditAt(whole, t) ==
    IF current.status = "active" /\ current.price # NoPrice
    THEN UnusedCredit(whole, current.start, current.end, t, Day)
    ELSE 0

(* What quoteChange takes over is a natural number; it does not grow with   *)
(* time, nor when the price goes down.                                      *)
LEMMA CurrentCreditShrinks ==
    ASSUME ChangeTypeOK, NEW later \in Nat, clock <= later, NEW whole \in Nat,
           current.price # NoPrice => whole <= ListPriceNow
    PROVE  /\ CurrentCredit = CreditAt(ListPriceNow, clock)
           /\ CurrentCredit \in Nat
           /\ CreditAt(whole, later) \in Nat
           /\ CreditAt(whole, later) <= CurrentCredit
           /\ current.end <= later => CreditAt(whole, later) = 0
<1>1. /\ current.quantity \in Nat
      /\ current.start \in Int /\ current.end \in Int
      /\ clock \in Int /\ later \in Int
      /\ current.price # NoPrice => listPrice[current.price] \in Nat
  BY DEF ChangeTypeOK, Subscription
<1>2. CurrentCredit = CreditAt(ListPriceNow, clock)
  BY DEF CurrentCredit, CreditAt
<1>3. CASE ~(current.status = "active" /\ current.price # NoPrice)
  BY <1>2, <1>3 DEF CreditAt
<1>4. CASE current.status = "active" /\ current.price # NoPrice
  <2> DEFINE start == current.start
             end == current.end
             day == Day
             at == clock
             listed == ListPriceNow
             Unused(price, t) == UnusedCredit(price, start, end, t, day)
  <2>1. listed \in Nat /\ whole <= listed
    BY <1>1, <1>4, NatTimesNat DEF ListPriceNow
  <2>2. start \in Int /\ end \in Int /\ day \in Nat \ {0}
        /\ at \in Int /\ later \in Int /\ at <= later
    BY <1>1, PlanChangeAssumption
  <2>3. CreditAt(listed, at) = Unused(listed, at) /\ CreditAt(whole, later) = Unused(whole, later)
    BY <1>4 DEF CreditAt
  <2> HIDE DEF listed, start, end, day, at
  <2>4. /\ Unused(listed, at) \in Nat
        /\ Unused(listed, later) \in Nat
        /\ Unused(listed, later) <= Unused(listed, at)
    BY <2>1, <2>2, CreditShrinks
  <2>5. /\ Unused(whole, later) \in Nat
        /\ end <= later => Unused(whole, later) = 0
    BY <2>2, CreditShrinks
  <2>6. Unused(whole, later) <= Unused(listed, later)
    BY <2>1, <2>2, CreditGrowsWithPrice
  <2> HIDE DEF Unused
  <2>7. Unused(whole, later) <= Unused(listed, at)
    BY <2>4, <2>5, <2>6
  <2> QED
    BY <1>2, <2>3, <2>4, <2>5, <2>7 DEF listed, end, at
<1> QED
  BY <1>3, <1>4

LEMMA CreditIsNatural ==
    ASSUME ChangeTypeOK
    PROVE  CurrentCredit \in Nat
<1>1. clock \in Nat /\ current.quantity \in Nat
      /\ (current.price # NoPrice => listPrice[current.price] \in Nat)
  BY DEF ChangeTypeOK, Subscription
<1>2. \E whole \in Nat : current.price # NoPrice => whole = ListPriceNow
  BY <1>1, NatTimesNat DEF ListPriceNow
<1> QED
  BY <1>1, <1>2, CurrentCreditShrinks

ChangeInv ==
    /\ ChangeTypeOK
    /\ SeatsRoundFairly
    /\ TaxWithinHalfBaisa

LEMMA ChangeInitHolds == ChangeInit => ChangeInv
<1> SUFFICES ASSUME ChangeInit PROVE ChangeInv
  OBVIOUS
<1>1. ChangeTypeOK
  BY PlanChangeAssumption
     DEF ChangeInit, ChangeTypeOK, NoSubscription, Subscription, Change, Amounts, NoAmounts
<1>2. SeatsRoundFairly
  BY DEF ChangeInit, SeatsRoundFairly
<1>3. TaxWithinHalfBaisa
  BY PricingAssumption DEF ChangeInit, TaxWithinHalfBaisa, NoAmounts, BasisPoints
<1> QED
  BY <1>1, <1>2, <1>3 DEF ChangeInv

(* A quote is off by no more than its roundings.                            *)
LEMMA QuoteHolds ==
    ASSUME ChangeInv, NEW i \in Changes, NEW price \in PriceRows, NEW quantity \in Quantities,
           NEW coupon \in Coupons, QuoteChange(i, price, quantity, coupon)
    PROVE  ChangeInv'
<1> DEFINE credit == CurrentCredit
           asked == listPrice[price]
           unit == QuoteUnit(asked, quantity, credit)
           subtotal == quantity * unit
           amounts == ComputeInvoiceAmounts(subtotal, coupon, VatRateBps)
           quoted == [status |-> IF amounts.total = 0 THEN "paid" ELSE "open",
                      price |-> price, asked |-> asked, quantity |-> quantity,
                      credit |-> credit, amounts |-> amounts]
<1>1. /\ asked \in Nat
      /\ quantity \in Nat \ {0}
      /\ coupon \in Coupon
      /\ VatRateBps \in Nat
  BY PlanChangeAssumption, PricingAssumption DEF ChangeInv, ChangeTypeOK
<1>2. change' = [change EXCEPT ![i] = quoted] /\ UNCHANGED <<clock, listPrice, current>>
  BY DEF QuoteChange
<1>3. credit \in Nat
  BY CreditIsNatural DEF ChangeInv
<1> HIDE DEF credit, asked
<1>4. subtotal \in Nat
  <2>1. asked * quantity \in Nat
    BY <1>1, NatTimesNat
  <2>2. Greatest(0, asked * quantity - credit) \in Nat
    BY <1>3, <2>1 DEF Greatest
  <2>3. unit \in Nat
    BY <1>1, <2>2, RoundedQuotient DEF QuoteUnit
  <2> HIDE DEF unit
  <2> QED
    BY <1>1, <2>3, NatTimesNat
<1>5. LET error == subtotal - Greatest(0, asked * quantity - credit)
      IN  2 * error <= quantity /\ -2 * error <= quantity
  BY <1>1, <1>3, SeatsRound
<1> HIDE DEF subtotal
<1>6. /\ amounts \in Amounts
      /\ amounts.subtotal = subtotal
      /\ amounts.discount \in 0..subtotal
      /\ amounts.vat = Vat(subtotal, amounts.discount, VatRateBps)
  <2>1. /\ amounts.subtotal = subtotal
        /\ amounts.discount \in 0..subtotal
        /\ amounts.vat \in Nat
        /\ amounts.total \in Nat
    BY <1>1, <1>4, InvoiceAmounts
  <2>2. amounts.discount = ComputeDiscount(subtotal, coupon)
        /\ amounts = [subtotal |-> amounts.subtotal, discount |-> amounts.discount,
                      vat |-> amounts.vat, total |-> amounts.total]
    BY DEF ComputeInvoiceAmounts
  <2>3. amounts.vat = Vat(subtotal, amounts.discount, VatRateBps)
    BY DEF ComputeInvoiceAmounts
  <2> HIDE DEF amounts
  <2> QED
    BY <1>4, <2>1, <2>2, <2>3 DEF Amounts
<1>7. LET error == BasisPoints * amounts.vat - VatRateBps * (subtotal - amounts.discount)
      IN  2 * error <= BasisPoints /\ -2 * error <= BasisPoints
  BY <1>1, <1>4, <1>6, TaxRoundsFairly
<1> HIDE DEF amounts
<1>8. quoted \in Change /\ quoted.asked = asked /\ quoted.quantity = quantity
      /\ quoted.credit = credit /\ quoted.amounts = amounts
  BY <1>1, <1>3, <1>6 DEF Change
<1> HIDE DEF quoted
<1>9. /\ change' \in [Changes -> Change]
      /\ change'[i] = quoted
      /\ \A j \in Changes \ {i} : change'[j] = change[j]
  BY <1>2, <1>8 DEF ChangeInv, ChangeTypeOK
<1>10. ChangeTypeOK'
  BY <1>2, <1>9 DEF ChangeInv, ChangeTypeOK
<1>11. SeatsRoundFairly'
  <2> SUFFICES ASSUME NEW j \in Changes, change'[j].status # "none"
               PROVE  LET error == change'[j].amounts.subtotal - NetPrice(j)'
                      IN  2 * error <= change'[j].quantity /\ -2 * error <= change'[j].quantity
    BY DEF SeatsRoundFairly
  <2>1. CASE j = i
    BY <1>5, <1>6, <1>8, <1>9, <2>1 DEF NetPrice
  <2>2. CASE j # i
    BY <1>9, <2>2 DEF ChangeInv, SeatsRoundFairly, NetPrice
  <2> QED
    BY <2>1, <2>2
<1>12. TaxWithinHalfBaisa'
  <2> SUFFICES ASSUME NEW j \in Changes
               PROVE  LET due == change'[j].amounts
                          error == BasisPoints * due.vat
                                     - VatRateBps * (due.subtotal - due.discount)
                      IN  /\ due.discount <= due.subtotal
                          /\ 2 * error <= BasisPoints /\ -2 * error <= BasisPoints
    BY DEF TaxWithinHalfBaisa
  <2>1. CASE j = i
    BY <1>4, <1>6, <1>7, <1>8, <1>9, <2>1
  <2>2. CASE j # i
    BY <1>9, <2>2 DEF ChangeInv, TaxWithinHalfBaisa
  <2> QED
    BY <2>1, <2>2
<1> QED
  BY <1>10, <1>11, <1>12 DEF ChangeInv

(* Nothing else writes what a quote has written, but for its status.        *)
LEMMA OtherChangesHold ==
    ASSUME ChangeInv, ChangeTypeOK',
           \A i \in Changes : /\ change'[i].asked = change[i].asked
                              /\ change'[i].quantity = change[i].quantity
                              /\ change'[i].credit = change[i].credit
                              /\ change'[i].amounts = change[i].amounts
                              /\ change[i].status = "none" => change'[i].status = "none"
    PROVE  ChangeInv'
<1>1. SeatsRoundFairly'
  <2> SUFFICES ASSUME NEW i \in Changes, change'[i].status # "none"
               PROVE  LET error == change'[i].amounts.subtotal - NetPrice(i)'
                      IN  2 * error <= change'[i].quantity /\ -2 * error <= change'[i].quantity
    BY DEF SeatsRoundFairly
  <2>1. NetPrice(i)' = NetPrice(i)
    BY DEF NetPrice
  <2> QED
    BY <2>1 DEF ChangeInv, SeatsRoundFairly
<1>2. TaxWithinHalfBaisa'
  BY DEF ChangeInv, TaxWithinHalfBaisa
<1> QED
  BY <1>1, <1>2 DEF ChangeInv

LEMMA ChangeStepHolds ==
    ASSUME ChangeInv, [ChangeNext]_changeVars
    PROVE  ChangeInv'
<1> USE DEF ChangeInv
<1>1. ASSUME StartTrial PROVE ChangeInv'
  <2>1. ChangeTypeOK'
    BY <1>1, PlanChangeAssumption DEF StartTrial, ChangeTypeOK, Subscription
  <2> QED
    BY <1>1, <2>1, OtherChangesHold DEF StartTrial
<1>2. ASSUME NEW i \in Changes, NEW price \in PriceRows, NEW quantity \in Quantities,
             NEW coupon \in Coupons, QuoteChange(i, price, quantity, coupon)
      PROVE  ChangeInv'
  BY <1>2, QuoteHolds
<1>3. ASSUME NEW i \in Changes, PayChange(i) PROVE ChangeInv'
  <2>1. change' = [change EXCEPT ![i].status = "paid"] /\ UNCHANGED <<clock, listPrice, current>>
        /\ change[i].status = "open"
    BY <1>3 DEF PayChange
  <2>2. ChangeTypeOK'
    BY <2>1 DEF ChangeTypeOK, Change
  <2>3. \A j \in Changes : /\ change'[j].asked = change[j].asked
                           /\ change'[j].quantity = change[j].quantity
                           /\ change'[j].credit = change[j].credit
                           /\ change'[j].amounts = change[j].amounts
                           /\ change[j].status = "none" => change'[j].status = "none"
    BY <2>1 DEF ChangeTypeOK, Change
  <2> QED
    BY <2>2, <2>3, OtherChangesHold
<1>4. ASSUME NEW i \in Changes, ApplyChange(i) PROVE ChangeInv'
  <2>1. change[i] \in Change /\ change[i].amounts.total \in Nat
    BY DEF ChangeTypeOK, Change, Amounts
  <2>2. change[i].asked * change[i].quantity \in Nat
    BY <2>1, NatTimesNat DEF Change
  <2>3. Worth(i) \in Nat
    BY <2>1, <2>2 DEF Worth, Least, Change
  <2>4. ChangeTypeOK'
    BY <1>4, <2>1, <2>3, PlanChangeAssumption DEF ApplyChange, ChangeTypeOK, Subscription, Change
  <2> QED
    BY <1>4, <2>4, OtherChangesHold DEF ApplyChange
<1>5. ASSUME EnterGracePeriod PROVE ChangeInv'
  <2>1. ChangeTypeOK'
    BY <1>5 DEF EnterGracePeriod, ChangeTypeOK, Subscription
  <2> QED
    BY <1>5, <2>1, OtherChangesHold DEF EnterGracePeriod
<1>6. ASSUME DowngradeToFree PROVE ChangeInv'
  <2>1. ChangeTypeOK'
    BY <1>6, PlanChangeAssumption DEF DowngradeToFree, ChangeTypeOK, Subscription
  <2> QED
    BY <1>6, <2>1, OtherChangesHold DEF DowngradeToFree
<1>7. ASSUME ClockTicks PROVE ChangeInv'
  <2>1. ChangeTypeOK'
    BY <1>7 DEF ClockTicks, ChangeTypeOK
  <2> QED
    BY <1>7, <2>1, OtherChangesHold DEF ClockTicks
<1>7a. ASSUME NEW price \in PriceRows, NEW amount \in Prices, UpsertPrice(price, amount)
       PROVE  ChangeInv'
  <2>1. ChangeTypeOK'
    BY <1>7a, PlanChangeAssumption DEF UpsertPrice, ChangeTypeOK
  <2> QED
    BY <1>7a, <2>1, OtherChangesHold DEF UpsertPrice
<1>8. CASE UNCHANGED changeVars
  <2>1. ChangeTypeOK'
    BY <1>8 DEF changeVars, ChangeTypeOK
  <2> QED
    BY <1>8, <2>1, OtherChangesHold DEF changeVars
<1> QED
  BY <1>1, <1>2, <1>3, <1>4, <1>5, <1>6, <1>7, <1>7a, <1>8 DEF ChangeNext

THEOREM ChangeInvariant == ChangeSpec => []ChangeInv
<1>1. ChangeInit => ChangeInv
  BY ChangeInitHolds
<1>2. ChangeInv /\ [ChangeNext]_changeVars => ChangeInv'
  BY ChangeStepHolds
<1> QED
  BY <1>1, <1>2, PTL DEF ChangeSpec

(* SeatsRoundFairly for all prices, seats, coupons, credits and instants:   *)
(* in no chain of changes of plan does a change cost a seat half a baisa    *)
(* more, or less, than the price asks for.                                  *)
THEOREM ChangesRoundFairly == ChangeSpec => []SeatsRoundFairly
<1>1. ChangeInv => SeatsRoundFairly
  BY DEF ChangeInv
<1> QED
  BY <1>1, ChangeInvariant, PTL

(* TaxWithinHalfBaisa for all prices, seats, coupons, credits and tax       *)
(* rates.                                                                   *)
THEOREM ChangesTaxedFairly == ChangeSpec => []TaxWithinHalfBaisa
<1>1. ChangeInv => TaxWithinHalfBaisa
  BY DEF ChangeInv
<1> QED
  BY <1>1, ChangeInvariant, PTL

(* CreditGrowsByRaiseOnly for prices, periods and days of any size:          *)
(* unusedCredit is monotonous in its instant and in its price, and zero from *)
(* the end of the period on.                                                 *)
THEOREM CreditNeverGrows == ChangeSpec => CreditGrowsByRaiseOnly
<1> DEFINE Shrinks ==
      /\ current' = current /\ CurrentCredit' > CurrentCredit =>
           listPrice'[current.price] > listPrice[current.price]
      /\ current'.end <= clock' => CurrentCredit' = 0
<1>1. ASSUME ChangeInv, ChangeInv', [ChangeNext]_changeVars
      PROVE  [Shrinks]_changeVars
  <2>1. clock \in Nat /\ clock' \in Nat /\ clock <= clock'
    BY <1>1 DEF ChangeInv, ChangeTypeOK, ChangeNext, changeVars, StartTrial, QuoteChange,
                PayChange, ApplyChange, EnterGracePeriod, DowngradeToFree, ClockTicks,
                UpsertPrice
  <2>2. CurrentCredit \in Nat
    BY <1>1, CreditIsNatural DEF ChangeInv
  <2>3. ASSUME current' = current, ~(listPrice'[current.price] > listPrice[current.price])
        PROVE  CurrentCredit' \in Nat /\ CurrentCredit' <= CurrentCredit
    <3>1. CASE current.price = NoPrice
      BY <2>2, <2>3, <3>1 DEF CurrentCredit
    <3>2. CASE current.price # NoPrice
      <4>1. /\ listPrice[current.price] \in Nat
            /\ listPrice'[current.price] \in Nat
            /\ current.quantity \in Nat
        BY <1>1, <3>2 DEF ChangeInv, ChangeTypeOK, Subscription
      <4>2. listPrice[current.price] - listPrice'[current.price] \in Nat
        BY <2>3, <4>1
      <4>3. /\ listPrice[current.price] * current.quantity \in Nat
            /\ listPrice'[current.price] * current.quantity \in Nat
            /\ (listPrice[current.price] - listPrice'[current.price]) * current.quantity \in Nat
        BY <4>1, <4>2, NatTimesNat
      <4> DEFINE whole == ListPriceNow'
      <4>4. whole \in Nat /\ whole <= ListPriceNow
        <5>1. PICK today \in Nat, later \in Nat, seats \in Nat :
                /\ today = listPrice[current.price]
                /\ later = listPrice'[current.price]
                /\ seats = current.quantity
          BY <4>1
        <5>2. today * seats = later * seats + (today - later) * seats
          BY <5>1, SMT
        <5>3. whole = later * seats /\ ListPriceNow = today * seats
          BY <2>3, <5>1 DEF ListPriceNow
        <5> QED
          BY <4>3, <5>1, <5>2, <5>3
      <4>5. CurrentCredit' = CreditAt(whole, clock')
        BY <2>3 DEF CurrentCredit, CreditAt
      <4> HIDE DEF whole
      <4> QED
        BY <1>1, <2>1, <4>4, <4>5, CurrentCreditShrinks DEF ChangeInv
    <3> QED
      BY <3>1, <3>2
  <2>4. ASSUME current'.end <= clock' PROVE CurrentCredit' = 0
    <3>1. /\ current'.quantity \in Nat
          /\ current'.start \in Int /\ current'.end \in Int /\ clock' \in Int
          /\ current'.price # NoPrice => listPrice'[current'.price] \in Nat
      BY <1>1 DEF ChangeInv, ChangeTypeOK, Subscription
    <3>2. CASE current'.price = NoPrice
      BY <3>2 DEF CurrentCredit
    <3>3. CASE current'.price # NoPrice
      <4> DEFINE whole == ListPriceNow'
                 start == current'.start
                 end == current'.end
                 at == clock'
                 day == Day
      <4>1. whole \in Nat
        BY <3>1, <3>3, NatTimesNat DEF ListPriceNow
      <4>2. /\ start \in Int /\ end \in Int /\ at \in Int /\ day \in Nat \ {0}
            /\ at <= at /\ end <= at
        BY <2>4, <3>1, PlanChangeAssumption
      <4>3. CurrentCredit' \in {0, UnusedCredit(whole, start, end, at, day)}
        BY DEF CurrentCredit
      <4> HIDE DEF whole, start, end, at, day
      <4>4. UnusedCredit(whole, start, end, at, day) = 0
        BY <4>1, <4>2, CreditShrinks
      <4> QED
        BY <4>3, <4>4
    <3> QED
      BY <3>2, <3>3
  <2> QED
    BY <2>2, <2>3, <2>4
<1> QED
  BY <1>1, ChangeInvariant, PTL DEF ChangeSpec, CreditGrowsByRaiseOnly

(* An amount is the sum of its parts, and a priced period was bought.       *)
AmountsAddUp ==
    \A i \in Changes :
        LET due == change[i].amounts IN due.total = due.subtotal - due.discount + due.vat

PeriodWasBought ==
    current.status = "active" /\ current.price # NoPrice => \E i \in Changes : Bought(i)

BoughtInv == ChangeInv /\ AmountsAddUp /\ PeriodWasBought

(* Steps that write to no change but a new one, or only that one is paid,   *)
(* leave the bought period bought.                                          *)
LEMMA StaysBought ==
    ASSUME BoughtInv, current' = current,
           \A i \in Changes : change[i].status = "paid" => change'[i] = change[i]
    PROVE  PeriodWasBought'
<1> SUFFICES ASSUME current.status = "active", current.price # NoPrice
             PROVE  \E i \in Changes : Bought(i)'
  BY DEF PeriodWasBought
<1>1. PICK i \in Changes : Bought(i)
  BY DEF BoughtInv, PeriodWasBought
<1>2. change'[i] = change[i]
  BY <1>1 DEF Bought
<1>3. Worth(i)' = Worth(i)
  BY <1>2 DEF Worth
<1> QED
  BY <1>1, <1>2, <1>3 DEF Bought

LEMMA BoughtStepHolds ==
    ASSUME BoughtInv, [ChangeNext]_changeVars
    PROVE  BoughtInv'
<1>0. /\ ChangeInv' /\ change \in [Changes -> Change]
  BY ChangeStepHolds DEF BoughtInv, ChangeInv, ChangeTypeOK
<1>1. ASSUME change' = change, current'.status # "active" \/ current'.price = NoPrice
      PROVE  AmountsAddUp' /\ PeriodWasBought'
  BY <1>1 DEF BoughtInv, AmountsAddUp, PeriodWasBought
<1>2. ASSUME change' = change, current' = current
      PROVE  AmountsAddUp' /\ PeriodWasBought'
  BY <1>2, StaysBought DEF BoughtInv, AmountsAddUp
<1>3. ASSUME NEW i \in Changes, NEW price \in PriceRows, NEW quantity \in Quantities,
             NEW coupon \in Coupons, QuoteChange(i, price, quantity, coupon)
      PROVE  AmountsAddUp' /\ PeriodWasBought'
  <2> DEFINE subtotal == quantity * QuoteUnit(listPrice[price], quantity, CurrentCredit)
             amounts == ComputeInvoiceAmounts(subtotal, coupon, VatRateBps)
             quoted == [status |-> IF amounts.total = 0 THEN "paid" ELSE "open",
                        price |-> price, asked |-> listPrice[price], quantity |-> quantity,
                        credit |-> CurrentCredit, amounts |-> amounts]
  <2>1. /\ change[i].status = "none" /\ current' = current
        /\ change' = [change EXCEPT ![i] = quoted]
    BY <1>3 DEF QuoteChange
  <2>2. amounts.total = amounts.subtotal - amounts.discount + amounts.vat
    BY DEF ComputeInvoiceAmounts
  <2>3. quoted.amounts = amounts
    OBVIOUS
  <2> HIDE DEF quoted, amounts
  <2>4. change'[i] = quoted /\ \A j \in Changes \ {i} : change'[j] = change[j]
    BY <1>0, <2>1
  <2>5. AmountsAddUp'
    BY <2>2, <2>3, <2>4 DEF BoughtInv, AmountsAddUp
  <2> QED
    BY <2>1, <2>4, <2>5, StaysBought
<1>4. ASSUME NEW i \in Changes, PayChange(i)
      PROVE  AmountsAddUp' /\ PeriodWasBought'
  <2>1. /\ change[i].status = "open" /\ current' = current
        /\ change' = [change EXCEPT ![i].status = "paid"]
    BY <1>4 DEF PayChange
  <2>2. change'[i].amounts = change[i].amounts
        /\ \A j \in Changes \ {i} : change'[j] = change[j]
    BY <1>0, <2>1 DEF Change
  <2>3. AmountsAddUp'
    BY <2>2 DEF BoughtInv, AmountsAddUp
  <2> QED
    BY <2>1, <2>2, <2>3, StaysBought
<1>5. ASSUME NEW i \in Changes, ApplyChange(i)
      PROVE  AmountsAddUp' /\ PeriodWasBought'
  <2>1. /\ change' = change /\ change[i].status = "paid"
        /\ current'.price = change[i].price /\ current'.quantity = change[i].quantity
        /\ current'.worth = Worth(i)
    BY <1>5 DEF ApplyChange
  <2>2. Worth(i)' = Worth(i)
    BY <2>1 DEF Worth
  <2>3. Bought(i)'
    BY <2>1, <2>2 DEF Bought
  <2> QED
    BY <2>1, <2>3 DEF BoughtInv, AmountsAddUp, PeriodWasBought
<1>6. StartTrial \/ EnterGracePeriod \/ DowngradeToFree =>
        change' = change /\ (current'.status # "active" \/ current'.price = NoPrice)
  BY DEF StartTrial, EnterGracePeriod, DowngradeToFree, BoughtInv, ChangeInv, ChangeTypeOK,
         Subscription
<1>7. ASSUME \/ ClockTicks
             \/ \E price \in PriceRows, amount \in Prices : UpsertPrice(price, amount)
             \/ UNCHANGED changeVars
      PROVE  change' = change /\ current' = current
  BY <1>7 DEF ClockTicks, UpsertPrice, changeVars
<1> QED
  BY <1>0, <1>1, <1>2, <1>3, <1>4, <1>5, <1>6, <1>7 DEF ChangeNext, BoughtInv

(* The credit for a period is at most the list price of the period.         *)
LEMMA CreditWithinPrice ==
    ASSUME ChangeInv
    PROVE  /\ CurrentCredit \in Nat
           /\ CurrentCredit > 0 =>
                /\ current.status = "active"
                /\ current.price # NoPrice
                /\ CurrentCredit <= ListPriceNow
<1>1. CurrentCredit \in Nat
  BY CreditIsNatural DEF ChangeInv
<1>2. ASSUME CurrentCredit > 0
      PROVE  /\ current.status = "active"
             /\ current.price # NoPrice
             /\ CurrentCredit <= ListPriceNow
  <2>1. current.status = "active" /\ current.price # NoPrice
    BY <1>2 DEF CurrentCredit
  <2>2. listPrice[current.price] \in Nat /\ current.quantity \in Nat
    BY <2>1 DEF ChangeInv, ChangeTypeOK, Subscription
  <2>3. PICK whole \in Nat : whole = ListPriceNow
    BY <2>2, NatTimesNat DEF ListPriceNow
  <2>4. CurrentCredit = UnusedCredit(whole, current.start, current.end, clock, Day)
    BY <2>1, <2>3 DEF CurrentCredit
  <2>5. CurrentCredit <= whole
    BY <1>1, <2>3, <2>4 DEF UnusedCredit, Greatest, Least
  <2> QED
    BY <2>1, <2>3, <2>5
<1> QED
  BY <1>1, <1>2

(* Whatever the prices and their edits, the seats, coupons, instants and    *)
(* chain of changes: the credit for a period exceeds what it was paid with  *)
(* by no more than the discount of the invoice that bought it, what its     *)
(* price was raised by since, and half a baisa a seat.  These two are what  *)
(* CreditWithinPaid overlooks, and there is nothing else.                   *)
THEOREM CreditBeyondPaid == ChangeSpec => []CreditBeyondPaidIsExplained
<1>1. ChangeInit => BoughtInv
  <2> SUFFICES ASSUME ChangeInit
               PROVE  AmountsAddUp /\ PeriodWasBought
    BY ChangeInitHolds DEF BoughtInv
  <2> QED
    BY DEF ChangeInit, AmountsAddUp, NoAmounts, PeriodWasBought, NoSubscription
<1>2. BoughtInv /\ [ChangeNext]_changeVars => BoughtInv'
  BY BoughtStepHolds
<1>3. BoughtInv => CreditBeyondPaidIsExplained
  <2> SUFFICES ASSUME BoughtInv, CurrentCredit > current.worth
               PROVE  \E i \in Changes :
                        /\ Bought(i)
                        /\ 2 * (CurrentCredit - current.worth)
                             <= 2 * change[i].amounts.discount + 2 * RaisedSince(i)
                                  + current.quantity
    BY DEF CreditBeyondPaidIsExplained
  <2>1. /\ CurrentCredit \in Nat /\ current.worth \in Nat
        /\ CurrentCredit <= ListPriceNow
        /\ current.status = "active" /\ current.price # NoPrice
    BY CreditWithinPrice DEF BoughtInv, ChangeInv, ChangeTypeOK, Subscription
  <2>2. PICK i \in Changes : Bought(i)
    BY <2>1 DEF BoughtInv, PeriodWasBought
  <2>3. PICK credit, asked, listed, seats, due :
          /\ credit = change[i].credit
          /\ asked = change[i].asked
          /\ listed = listPrice[current.price]
          /\ seats = current.quantity
          /\ due = change[i].amounts
    OBVIOUS
  <2>4. /\ due \in Amounts /\ credit \in Nat /\ asked \in Nat
        /\ listed \in Nat /\ seats \in Nat
        /\ change[i].quantity = seats
    BY <2>1, <2>2, <2>3
       DEF BoughtInv, ChangeInv, ChangeTypeOK, Change, Subscription, Bought
  <2>5. PICK whole \in Nat, today \in Nat :
          /\ whole = asked * seats
          /\ today = listed * seats
    BY <2>4, NatTimesNat
  <2>6. RaisedSince(i) = today - whole
    <3>1. RaisedSince(i) = (listed - asked) * seats
      BY <2>3 DEF RaisedSince
    <3>2. (listed - asked) * seats = listed * seats - asked * seats
      BY <2>4, SMT
    <3> QED
      BY <2>5, <3>1, <3>2
  <2>7. CurrentCredit <= today
    BY <2>1, <2>3, <2>5 DEF ListPriceNow
  <2>8. current.worth = due.total + Least(credit, whole)
    BY <2>2, <2>3, <2>4, <2>5 DEF Bought, Worth
  <2>9. -2 * (due.subtotal - Greatest(0, whole - credit)) <= seats
    BY <2>2, <2>3, <2>4, <2>5 DEF Bought, BoughtInv, ChangeInv, SeatsRoundFairly, NetPrice
  <2>10. due.total = due.subtotal - due.discount + due.vat
    BY <2>3 DEF BoughtInv, AmountsAddUp
  <2>11. /\ due.total \in Nat /\ due.subtotal \in Nat /\ due.discount \in Nat /\ due.vat \in Nat
    BY <2>4 DEF Amounts
  <2>12. PICK net \in Nat, used \in Nat :
           /\ net = Greatest(0, whole - credit) /\ used = Least(credit, whole)
           /\ net + used = whole
    BY <2>4, <2>5 DEF Greatest, Least
  <2>13. 2 * (whole - current.worth) <= 2 * due.discount + seats
    BY <2>1, <2>4, <2>5, <2>8, <2>9, <2>10, <2>11, <2>12
  <2>14. 2 * (CurrentCredit - current.worth) <= 2 * due.discount + 2 * (today - whole) + seats
    BY <2>1, <2>4, <2>5, <2>7, <2>11, <2>13
  <2> QED
    BY <2>1, <2>2, <2>3, <2>4, <2>5, <2>6, <2>11, <2>14
<1> QED
  BY <1>1, <1>2, <1>3, PTL DEF ChangeSpec
=============================================================================
