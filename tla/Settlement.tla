----------------------------- MODULE Settlement -----------------------------
(***************************************************************************)
(* What the payment flow of apps/api/src/billing promises about invoices,  *)
(* whatever the number of checkout sessions, confirmations and clean-up    *)
(* jobs at work: an invoice is issued once; one that asks for nothing is   *)
(* done with; any other is settled at most once, for good, and only after  *)
(* the gateway took money for it.  Payments.tla implements this.           *)
(***************************************************************************)
CONSTANT Invoices   \* identities an invoice may be issued under

VARIABLES
    status,     \* [Invoices -> {"none", "free", "open", "paid"}]
    collected   \* the invoices the gateway took money for

settlementVars == <<status, collected>>

SettlementInit ==
    /\ status = [i \in Invoices |-> "none"]
    /\ collected = {}

IssueAs(i, s) ==
    /\ status[i] = "none"
    /\ status' = [status EXCEPT ![i] = s]
    /\ UNCHANGED collected

Collect(i) ==
    /\ status[i] # "none"
    /\ collected' = collected \cup {i}
    /\ UNCHANGED status

SettleInvoice(i) ==
    /\ status[i] = "open"
    /\ i \in collected
    /\ status' = [status EXCEPT ![i] = "paid"]
    /\ UNCHANGED collected

SettlementNext ==
    \E i \in Invoices :
        \/ \E s \in {"open", "free"} : IssueAs(i, s)
        \/ Collect(i)
        \/ SettleInvoice(i)

SettlementSpec == SettlementInit /\ [][SettlementNext]_settlementVars
=============================================================================
