------------------------------ MODULE Approvals ------------------------------
(***************************************************************************)
(* Change requests: submit, review and withdraw of apps/api/src/branding/  *)
(* approvals.service.ts, on a card that is edited meanwhile.               *)
(*                                                                         *)
(* An approval is three transactions: the request and the card are read,   *)
(* the card is written through the update of CardUpdate, the request is    *)
(* marked.  Submissions, reviews and withdrawals may overlap, and the API  *)
(* process may stop between two transactions.                              *)
(***************************************************************************)
EXTENDS CardUpdate, FiniteSets

CONSTANTS
    Requests,    \* rows of card_change_requests
    Users,
    UserOf,      \* the user of a call
    MaxStops,    \* bound: how often a call is cut short
    NoRequest    \* a call that is about no request

ASSUME ApprovalsAssumption ==
    /\ Calls # {}
    /\ UserOf \in [Calls -> Users]
    /\ MaxStops \in Nat
    /\ NoRequest \notin Requests

VARIABLES
    request,    \* card_change_requests
    review,     \* a submission or a review under way
    applied,    \* how often the update of a request was written
    contested,  \* requests something else was done to during a review
    stops

reviewVars == <<card, save, request, review, applied, contested, stops>>

RequestRow ==
    [status : {"none", "pending", "approved", "rejected", "stale", "withdrawn"},
     by : Users,
     base : Revisions,      \* baseRevision
     revision : Revisions,  \* payload.revision
     seen : Content,
     content : Content]     \* the rest of the payload

Review ==
    [step : {"idle", "create", "write", "finish"},
     request : Requests \cup {NoRequest},
     outcome : {"approved", "rejected", "stale"},
     base : Revisions,
     own : SUBSET Requests]  \* what the submission found pending

NoReview ==
    [step |-> "idle", request |-> NoRequest, outcome |-> "approved", base |-> 1, own |-> {}]

ReviewInit ==
    /\ CardInit
    /\ request = [r \in Requests |->
         [status |-> "none", by |-> UserOf[CHOOSE c \in Calls : TRUE], base |-> 1,
          revision |-> 1, seen |-> card.content, content |-> card.content]]
    /\ review = [c \in Calls |-> NoReview]
    /\ applied = [r \in Requests |-> 0]
    /\ contested = {}
    /\ stops = 0

UnderReview(r) == \E c \in Calls : review[c].request = r /\ review[c].step # "idle"

Contest(rs) == contested' = contested \cup {r \in rs : UnderReview(r)}

-----------------------------------------------------------------------------
(* Editing the card directly                                                *)

EditCard(c) ==
    /\ review[c] = NoReview
    /\ OpenCard(c) \/ CheckUpdate(c) \/ CommitUpdate(c)
    /\ UNCHANGED <<request, review, applied, contested, stops>>

-----------------------------------------------------------------------------
(* submit                                                                   *)

PendingOf(user) == {r \in Requests : request[r].status = "pending" /\ request[r].by = user}

(* The card is read; then a transaction starts and looks for the user's own *)
(* pending requests, seeing only what is committed.                         *)
StartSubmit(c) ==
    /\ save[c].step = "open"
    /\ review[c] = NoReview
    /\ ~card.deleted
    /\ review' = [review EXCEPT
         ![c] = [@ EXCEPT !.step = "create", !.base = card.revision,
                          !.own = PendingOf(UserOf[c])]]
    /\ UNCHANGED <<card, save, request, applied, contested, stops>>

Withdrawn(rs) == {r \in rs : request[r].status = "pending"}

(* It withdraws them, creates the new one and commits. *)
CommitSubmit(c) ==
    /\ review[c].step = "create"
    /\ \E r \in Requests : \E new \in Content :
        /\ request[r].status = "none"
        /\ new # save[c].seen
        /\ request' = [q \in Requests |->
             IF q = r THEN
               [status |-> "pending", by |-> UserOf[c], base |-> review[c].base,
                revision |-> save[c].revision, seen |-> save[c].seen, content |-> new]
             ELSE IF q \in Withdrawn(review[c].own)
             THEN [request[q] EXCEPT !.status = "withdrawn"] ELSE request[q]]
    /\ Contest(Withdrawn(review[c].own))
    /\ review' = [review EXCEPT ![c] = NoReview]
    /\ CloseCard(c)
    /\ UNCHANGED <<card, applied, stops>>

Withdraw(r) ==
    /\ request[r].status = "pending"
    /\ request' = [request EXCEPT ![r].status = "withdrawn"]
    /\ Contest({r})
    /\ UNCHANGED <<card, save, review, applied, stops>>

-----------------------------------------------------------------------------
(* review                                                                   *)

Finishing(c, r, outcome) ==
    /\ review' = [review EXCEPT
         ![c] = [NoReview EXCEPT !.step = "finish", !.request = r, !.outcome = outcome]]
    /\ UNCHANGED save

(* cards.update with the policy bypassed.  Its first comparison of          *)
(* revisions is the one it writes under and can be left to it.              *)
Writing(c, r) ==
    /\ review' = [review EXCEPT
         ![c] = [NoReview EXCEPT !.step = "write", !.request = r]]
    /\ save' = [save EXCEPT
         ![c] = [step |-> "commit", revision |-> request[r].revision,
                 seen |-> request[r].seen, content |-> request[r].content]]

Stale(r) == card.revision # request[r].base

StartReview(c, r) ==
    /\ c \in Approvers
    /\ review[c] = NoReview
    /\ save[c].step = "idle"
    /\ request[r].status = "pending"
    /\ \/ Finishing(c, r, "rejected")
       \/ Stale(r) /\ Finishing(c, r, "stale")
       \/ ~Stale(r) /\ Writing(c, r)
    /\ Contest({r})
    /\ UNCHANGED <<card, request, applied, stops>>

(* review without the throw of a conflict. *)
WriteApprovedRegardless(c) ==
    /\ review[c].step = "write"
    /\ CommitUpdate(c)
    /\ applied' = [applied EXCEPT ![review[c].request] = IF MayCommit(c) THEN @ + 1 ELSE @]
    /\ review' = [review EXCEPT ![c].step = "finish"]
    /\ UNCHANGED <<request, contested, stops>>

WriteApproved(c) ==
    /\ review[c].step = "write"
    /\ CommitUpdate(c)
    /\ IF MayCommit(c)
       THEN /\ applied' = [applied EXCEPT ![review[c].request] = @ + 1]
            /\ review' = [review EXCEPT ![c].step = "finish"]
       ELSE /\ review' = [review EXCEPT ![c] = NoReview]
            /\ UNCHANGED applied
    /\ UNCHANGED <<request, contested, stops>>

(* finish: by identity, whatever has become of the request. *)
Finish(c) ==
    /\ review[c].step = "finish"
    /\ request' = [request EXCEPT ![review[c].request].status = review[c].outcome]
    /\ review' = [review EXCEPT ![c] = NoReview]
    /\ UNCHANGED <<card, save, applied, contested, stops>>

(* The process stops; what was committed stays. *)
Stop(c) ==
    /\ stops < MaxStops
    /\ review[c] # NoReview \/ save[c].step # "idle"
    /\ stops' = stops + 1
    /\ contested' = contested \cup ({review[c].request} \ {NoRequest})
    /\ review' = [review EXCEPT ![c] = NoReview]
    /\ CloseCard(c)
    /\ UNCHANGED <<card, request, applied>>

RemoveCard ==
    /\ ~card.deleted
    /\ card' = [card EXCEPT !.deleted = TRUE, !.status = "unpublished"]
    /\ UNCHANGED <<save, request, review, applied, contested, stops>>

-----------------------------------------------------------------------------

ReviewNext ==
    \/ \E c \in Calls :
        \/ EditCard(c)
        \/ StartSubmit(c)
        \/ CommitSubmit(c)
        \/ \E r \in Requests : StartReview(c, r)
        \/ WriteApproved(c)
        \/ Finish(c)
        \/ Stop(c)
    \/ \E r \in Requests : Withdraw(r)
    \/ RemoveCard

ReviewSpec == ReviewInit /\ [][ReviewNext]_reviewVars

-----------------------------------------------------------------------------
(* Properties                                                               *)

(* Every row and every local holds a value of its type. *)
ReviewTypeOK ==
    /\ CardTypeOK
    /\ request \in [Requests -> RequestRow]
    /\ review \in [Calls -> Review]
    /\ applied \in [Requests -> 0..1]
    /\ contested \in SUBSET Requests
    /\ stops \in 0..MaxStops

(* What the requester is told of a request is what happened to the card: an *)
(* approved change was written, exactly once however often it was reviewed; *)
(* and one that was turned down or taken back was not, unless something     *)
(* else was done to it while a review of it was under way.                  *)
OutcomeMatchesCard ==
    \A r \in Requests :
        /\ request[r].status = "approved" => applied[r] = 1
        /\ request[r].status \in {"rejected", "stale", "withdrawn"} /\ r \notin contested
             => applied[r] = 0

(* approvals.service.ts, above submit: a change is written only onto the    *)
(* very text its author saw, hence never over an edit neither the author    *)
(* nor the reviewer knew of; also when the edit comes between the review's  *)
(* comparison and its writing.                                              *)
AppliedWhereProposed ==
    [][\A r \in Requests : applied'[r] # applied[r] =>
         card.revision = request[r].base /\ card.content = request[r].seen]_reviewVars

=============================================================================
