----------------------------- MODULE PlanChange -----------------------------
(***************************************************************************)
(* What a change of plan costs, over time: quoteChange and                 *)
(* applyPaidInvoice of apps/api/src/billing/subscriptions.service.ts with  *)
(* the arithmetic of pricing.ts and the amounts of invoices.service.ts     *)
(* issue().  Subscriptions has the life of the row, Payments the way an    *)
(* invoice is settled; here only the money of both is kept.  A change is   *)
(* the invoice of it; PayChange and ApplyChange are markInvoicePaid and    *)
(* applyPaidInvoice.  A subscription refers to a row of prices, which an   *)
(* administrator edits in place (admin/admin-billing.service.ts).          *)
(*                                                                         *)
(* Instants are whole numbers, Day of them to a day.                       *)
(***************************************************************************)
EXTENDS Pricing

CONSTANTS
    PriceRows,    \* identities of plan_prices rows, one for a plan and interval
    NoPrice,      \* null priceId
    Prices,       \* list prices of a seat for a period
    Quantities,   \* seats
    Coupons,      \* coupons, NoCoupon for none
    Changes,      \* identities of invoice rows, one for a change of plan
    Day,          \* instants in a day
    Period,       \* what addInterval adds to an instant
    Trial,        \* length of a trial
    LastInstant   \* bound: the clock stops there

ASSUME PlanChangeAssumption ==
    /\ NoPrice \notin PriceRows
    /\ Prices \subseteq Nat
    /\ Quantities \subseteq Nat \ {0}
    /\ Coupons \subseteq Coupon
    /\ Day \in Nat \ {0}
    /\ Period \in Nat \ {0}
    /\ Trial \in Nat \ {0}
    /\ LastInstant \in Nat

VARIABLES
    clock,
    listPrice,  \* plan_prices: what a seat costs by each row
    current,    \* the subscription: its status, price, seats and period, and
                \* worth, what its period was bought with (kept by no column)
    change      \* invoices: plan change asked for, list price and credit it
                \* was quoted with, amounts

changeVars == <<clock, listPrice, current, change>>

Subscription ==
    [status : {"none", "trialing", "active", "past_due"},
     price : PriceRows \cup {NoPrice},
     quantity : Nat, start : Nat, end : Nat, worth : Nat]

Amounts == [subtotal : Nat, discount : Nat, vat : Nat, total : Nat]

Change ==
    [status : {"none", "open", "paid"},
     price : PriceRows \cup {NoPrice},
     asked : Nat, quantity : Nat, credit : Nat, amounts : Amounts]

NoSubscription ==
    [status |-> "none", price |-> NoPrice, quantity |-> 0, start |-> 0, end |-> 0, worth |-> 0]

NoAmounts == [subtotal |-> 0, discount |-> 0, vat |-> 0, total |-> 0]

ChangeInit ==
    /\ clock = 0
    /\ listPrice \in [PriceRows -> Prices]
    /\ current = NoSubscription
    /\ change = [i \in Changes |->
         [status |-> "none", price |-> NoPrice, asked |-> 0, quantity |-> 0,
          credit |-> 0, amounts |-> NoAmounts]]

(* An administrator edits a price: the row keeps its identity. *)
UpsertPrice(price, amount) ==
    /\ listPrice' = [listPrice EXCEPT ![price] = amount]
    /\ UNCHANGED <<clock, current, change>>

(* checkout of a first plan with a trial: the price is on the row at once. *)
StartTrial ==
    /\ current.status = "none"
    /\ \E price \in PriceRows, quantity \in Quantities :
         current' = [status |-> "trialing", price |-> price, quantity |-> quantity,
                     start |-> clock, end |-> clock + Trial, worth |-> 0]
    /\ UNCHANGED <<clock, listPrice, change>>

(* What the period would cost today. *)
ListPriceNow == listPrice[current.price] * current.quantity

CreditForAnyStatus ==
    IF current.price # NoPrice
    THEN UnusedCredit(ListPriceNow, current.start, current.end, clock, Day)
    ELSE 0

(* What quoteChange finds left of the current period.  It knows what the    *)
(* period costs by today's price, not what was paid for it.                 *)
CurrentCredit ==
    IF current.status = "active" /\ current.price # NoPrice
    THEN UnusedCredit(ListPriceNow, current.start, current.end, clock, Day)
    ELSE 0

(* quoteChange and issue: one line of the quantity asked for. *)
QuoteChange(i, price, quantity, coupon) ==
    LET subtotal == quantity * QuoteUnit(listPrice[price], quantity, CurrentCredit)
        amounts == ComputeInvoiceAmounts(subtotal, coupon, VatRateBps)
    IN  /\ change[i].status = "none"
        /\ change' = [change EXCEPT
             ![i] = [status |-> IF amounts.total = 0 THEN "paid" ELSE "open",
                     price |-> price,
                     asked |-> listPrice[price],
                     quantity |-> quantity,
                     credit |-> CurrentCredit,
                     amounts |-> amounts]]
        /\ UNCHANGED <<clock, listPrice, current>>

(* Payments settles it, any time later. *)
PayChange(i) ==
    /\ change[i].status = "open"
    /\ change' = [change EXCEPT ![i].status = "paid"]
    /\ UNCHANGED <<clock, listPrice, current>>

(* What an invoice pays for a period: the money, and the credit used up. *)
Worth(i) ==
    change[i].amounts.total
      + Least(change[i].credit, change[i].asked * change[i].quantity)

(* The period starts when the invoice is applied, and each time it is. *)
ApplyChange(i) ==
    /\ change[i].status = "paid"
    /\ current' = [status |-> "active",
                   price |-> change[i].price,
                   quantity |-> change[i].quantity,
                   start |-> clock,
                   end |-> clock + Period,
                   worth |-> Worth(i)]
    /\ UNCHANGED <<clock, listPrice, change>>

EnterGracePeriod ==
    /\ current.status \in {"trialing", "active"}
    /\ current.end <= clock
    /\ current' = [current EXCEPT !.status = "past_due"]
    /\ UNCHANGED <<clock, listPrice, change>>

(* By the customer, or at the end of the grace period: no price, no credit. *)
DowngradeToFree ==
    /\ current' = [status |-> "active", price |-> NoPrice, quantity |-> 1,
                   start |-> clock, end |-> LastInstant + 1, worth |-> 0]
    /\ UNCHANGED <<clock, listPrice, change>>

ClockTicks ==
    /\ clock < LastInstant
    /\ clock' = clock + 1
    /\ UNCHANGED <<listPrice, current, change>>

ChangeNext ==
    \/ \E price \in PriceRows, amount \in Prices : UpsertPrice(price, amount)
    \/ StartTrial
    \/ \E i \in Changes, price \in PriceRows, quantity \in Quantities, coupon \in Coupons :
         QuoteChange(i, price, quantity, coupon)
    \/ \E i \in Changes : PayChange(i) \/ ApplyChange(i)
    \/ EnterGracePeriod
    \/ DowngradeToFree
    \/ ClockTicks

ChangeSpec == ChangeInit /\ [][ChangeNext]_changeVars

-----------------------------------------------------------------------------
(* Properties                                                               *)

(* Every amount is a whole, non-negative number of baisa, whatever coupon   *)
(* and credit meet (computeDiscount clamps, quoteChange stops at zero).     *)
ChangeTypeOK ==
    /\ clock \in Nat
    /\ listPrice \in [PriceRows -> Nat]
    /\ current \in Subscription
    /\ change \in [Changes -> Change]

(* The price of a change after its credit, before coupon and tax. *)
NetPrice(i) == Greatest(0, change[i].asked * change[i].quantity - change[i].credit)

(* quoteChange spreads what is due over the seats and issue multiplies it   *)
(* again: the line is off by at most half a baisa for each seat, so a       *)
(* change never costs a seat more, or less, than the price asks for.        *)
SeatsRoundFairly ==
    \A i \in Changes : change[i].status # "none" =>
        LET error == change[i].amounts.subtotal - NetPrice(i)
        IN  2 * error <= change[i].quantity /\ -2 * error <= change[i].quantity

(* pricing.ts: tax is on what remains after the discount, rounded to the    *)
(* nearest baisa, so that neither side loses on many invoices; and the      *)
(* discount, whatever coupon and credit met, leaves no amount below zero.   *)
TaxWithinHalfBaisa ==
    \A i \in Changes :
        LET due == change[i].amounts
            error == BasisPoints * due.vat - VatRateBps * (due.subtotal - due.discount)
        IN  /\ due.discount <= due.subtotal
            /\ 2 * error <= BasisPoints /\ -2 * error <= BasisPoints

(* unusedCredit: while the subscription stays as it is, what a customer      *)
(* could take over into another plan only shrinks, however often quotes are  *)
(* asked for and other prices edited; only raising the price it refers to    *)
(* makes it grow.  And it is gone when the period is.                        *)
CreditGrowsByRaiseOnly ==
    [][/\ current' = current /\ CurrentCredit' > CurrentCredit =>
            listPrice'[current.price] > listPrice[current.price]
       /\ current'.end <= clock' => CurrentCredit' = 0]_changeVars

(* The period was bought with the change. *)
Bought(i) ==
    /\ change[i].status = "paid"
    /\ current.price = change[i].price
    /\ current.quantity = change[i].quantity
    /\ current.worth = Worth(i)

(* What the price of the period has gone up since the change was quoted;    *)
(* negative if it went down.                                                *)
RaisedSince(i) == (listPrice[current.price] - change[i].asked) * current.quantity

(* unusedCredit reckons with the list price of today.  What a customer can  *)
(* take over beyond what the period was paid with, over any chain of        *)
(* changes, trials, downgrades, second applications and edits of prices, is *)
(* accounted for: it is at most the discount of the one invoice that bought *)
(* the period, what its price was raised by since, and half a baisa a seat. *)
CreditBeyondPaidIsExplained ==
    CurrentCredit > current.worth =>
        \E i \in Changes :
            /\ Bought(i)
            /\ 2 * (CurrentCredit - current.worth)
                 <= 2 * change[i].amounts.discount + 2 * RaisedSince(i) + current.quantity

-----------------------------------------------------------------------------
(* What comments and tests say, and the code does not do                    *)

(* pricing.test.ts:94 and the name of unusedCredit's first parameter: the   *)
(* credit does not exceed the amount paid, be it in money or in credit.     *)
CreditWithinPaid == CurrentCredit <= current.worth

(* admin-billing.service.ts:112: editing a price does not touch existing    *)
(* subscriptions.  The credit of a running one follows the edited row.      *)
PriceEditTouchesNoSubscription ==
    [][UNCHANGED <<clock, current>> => CurrentCredit' = CurrentCredit]_changeVars
=============================================================================
