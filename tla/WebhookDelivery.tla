--------------------------- MODULE WebhookDelivery ---------------------------
(***************************************************************************)
(* The deliveries of events to customers' endpoints: apps/worker/src/      *)
(* integrations/webhook-dispatcher.ts, the rows webhook-fanout.ts inserts, *)
(* and what apps/api/src/integrations/webhooks.service.ts does to an       *)
(* endpoint meanwhile.                                                     *)
(*                                                                         *)
(* A worker claims a batch of due rows under a lease and works through it  *)
(* one call at a time.  Every statement may throw, a process may stop, and *)
(* an endpoint may be edited or removed at any point.                      *)
(*                                                                         *)
(* Time is the moment at which a row's next_attempt_at has passed.  A call *)
(* is bounded by REQUEST_TIMEOUT_MS, so a lease cannot run out before its  *)
(* holder has finished CallsPerLease calls; with CallsPerLease = 0 nothing *)
(* bounds a call.                                                          *)
(***************************************************************************)
EXTENDS Naturals, FiniteSets

CONSTANTS
    Deliveries,    \* one per endpoint and event: that pair is unique
    Endpoints,
    EndpointOf,    \* the endpoint of a delivery
    Dispatchers,   \* worker processes
    BatchSize,     \* BATCH_SIZE
    MaxAttempts,   \* MAX_ATTEMPTS
    DisableAfter,  \* DISABLE_AFTER_FAILURES
    CallsPerLease, \* how many calls are over before a lease can be
    MaxEdits,      \* bound: how often owners edit an endpoint
    RlsEnforced,   \* the worker's database role is subject to row security
    MaxLosses,     \* bound: how often a statement throws or a process stops
    NoCall         \* a dispatcher between two deliveries

ASSUME WebhookAssumption ==
    /\ EndpointOf \in [Deliveries -> Endpoints]
    /\ BatchSize \in Nat \ {0}
    /\ MaxAttempts \in Nat \ {0}
    /\ DisableAfter \in Nat \ {0}
    /\ CallsPerLease \in Nat
    /\ MaxEdits \in Nat
    /\ RlsEnforced \in BOOLEAN
    /\ MaxLosses \in Nat

VARIABLES
    endpoint,  \* webhook_endpoints
    delivery,  \* webhook_deliveries
    batch,     \* what each dispatcher has claimed and not finished
    received,  \* how often the receiver has accepted a delivery
    overruns,  \* how often a delivery's lease has run out in a dispatcher's hands
    takenBack, \* how often what a delivery was decided to be was changed
    edits,     \* edits so far
    losses     \* throws and stops so far

vars == <<endpoint, delivery, batch, received, overruns, takenBack, edits, losses>>

EndpointRow ==
    [status : {"none", "active", "inactive", "removed"},
     failures : 0..DisableAfter,  \* more is as good as the threshold
     disabled : BOOLEAN]

DeliveryRow ==
    [status : {"none", "pending", "delivered", "failed", "removed"},
     attempts : Nat,
     due : BOOLEAN]

(* ClaimedDelivery: what the claim returned, never read again. *)
Claim == [delivery : Deliveries, attempts : Nat]

ASSUME NoCallAssumption == NoCall \notin Claim

Batch ==
    [rest : SUBSET Claim,
     call : Claim \cup {NoCall},
     step : {"idle", "posting", "accepted", "count", "reschedule", "disable"},
     caught : BOOLEAN,  \* in the catch block of deliver
     stop : BOOLEAN,    \* the counted failure reached the threshold
     calls : Nat]

NoBatch ==
    [rest |-> {}, call |-> NoCall, step |-> "idle",
     caught |-> FALSE, stop |-> FALSE, calls |-> 0]

Init ==
    /\ endpoint = [n \in Endpoints |-> [status |-> "none", failures |-> 0, disabled |-> FALSE]]
    /\ delivery = [d \in Deliveries |-> [status |-> "none", attempts |-> 0, due |-> FALSE]]
    /\ batch = [w \in Dispatchers |-> NoBatch]
    /\ received = [d \in Deliveries |-> 0]
    /\ overruns = [d \in Deliveries |-> 0]
    /\ takenBack = [d \in Deliveries |-> 0]
    /\ edits = 0
    /\ losses = 0

Claims(w) == batch[w].rest \cup ({batch[w].call} \ {NoCall})

Held(w) == {c.delivery : c \in Claims(w)}

Exists(n) == endpoint[n].status \in {"active", "inactive"}

Open(n) == endpoint[n].status = "active" /\ ~endpoint[n].disabled

-----------------------------------------------------------------------------
(* The owner's side                                                         *)

CreateEndpoint(n) ==
    /\ endpoint[n].status = "none"
    /\ \E status \in {"active", "inactive"} :
        endpoint' = [endpoint EXCEPT ![n].status = status]
    /\ UNCHANGED <<delivery, batch, received, overruns, takenBack, edits, losses>>

UpdateEndpoint(n) ==
    /\ Exists(n)
    /\ edits < MaxEdits
    /\ \E status \in {"active", "inactive"} :
        endpoint' = [endpoint EXCEPT
          ![n] = [status |-> status, failures |-> 0, disabled |-> FALSE]]
    /\ edits' = edits + 1
    /\ UNCHANGED <<delivery, batch, received, overruns, takenBack, losses>>

(* The rows of its deliveries go with it. *)
RemoveEndpoint(n) ==
    /\ Exists(n)
    /\ endpoint' = [endpoint EXCEPT ![n].status = "removed"]
    /\ delivery' = [d \in Deliveries |->
         IF EndpointOf[d] = n /\ delivery[d].status # "none"
         THEN [delivery[d] EXCEPT !.status = "removed"] ELSE delivery[d]]
    /\ UNCHANGED <<batch, received, overruns, takenBack, edits, losses>>

-----------------------------------------------------------------------------
(* The fan-out of an event finds the endpoint open and inserts a row; an     *)
(* endpoint closed between the two only makes the row wait.                 *)

Fanout(d) ==
    /\ delivery[d].status = "none"
    /\ Open(EndpointOf[d])
    /\ delivery' = [delivery EXCEPT
         ![d] = [status |-> "pending", attempts |-> 0, due |-> TRUE]]
    /\ UNCHANGED <<endpoint, batch, received, overruns, takenBack, edits, losses>>

-----------------------------------------------------------------------------
(* Claims and leases                                                        *)

(* Rows a statement sees that names no organisation: with row security none, *)
(* for the policies of both tables compare their organisation with null.     *)
SeenWithoutOrganization == IF RlsEnforced THEN {} ELSE Deliveries

ClaimableOnce ==
    {d \in SeenWithoutOrganization :
        /\ delivery[d].status = "pending"
        /\ delivery[d].attempts = 0
        /\ Open(EndpointOf[d])}

Claimable ==
    {d \in SeenWithoutOrganization :
        /\ delivery[d].status = "pending"
        /\ delivery[d].due
        /\ Open(EndpointOf[d])}

ClaimedUncounted(d) == [delivery[d] EXCEPT !.due = FALSE]

ClaimedWithoutLease(d) == [delivery[d] EXCEPT !.attempts = @ + 1]

ClaimedRow(d) == [delivery[d] EXCEPT !.attempts = @ + 1, !.due = FALSE]

(* FOR UPDATE SKIP LOCKED and the lease are one statement. *)
ClaimBatch(w) ==
    /\ batch[w] = NoBatch
    /\ \E claimed \in SUBSET Claimable :
        /\ claimed # {}
        /\ \/ Cardinality(claimed) = BatchSize
           \/ claimed = Claimable /\ Cardinality(claimed) < BatchSize
        /\ delivery' = [d \in Deliveries |->
             IF d \in claimed THEN ClaimedRow(d) ELSE delivery[d]]
        /\ batch' = [batch EXCEPT ![w].rest =
             {[delivery |-> d, attempts |-> ClaimedRow(d).attempts] : d \in claimed}]
    /\ UNCHANGED <<endpoint, received, overruns, takenBack, edits, losses>>

(* next_attempt_at passes: a lease or a delay is over.  In a dispatcher's   *)
(* hands that takes as many calls as fit into a lease.                      *)
LeaseElapses(d) ==
    /\ delivery[d].status = "pending"
    /\ ~delivery[d].due
    /\ \A w \in Dispatchers :
        [delivery |-> d, attempts |-> delivery[d].attempts] \in Claims(w)
            => batch[w].calls >= CallsPerLease
    /\ delivery' = [delivery EXCEPT ![d].due = TRUE]
    /\ IF \E w \in Dispatchers : d \in Held(w)
       THEN overruns' = [overruns EXCEPT ![d] = @ + 1]
       ELSE UNCHANGED overruns
    /\ UNCHANGED <<endpoint, batch, received, takenBack, edits, losses>>

-----------------------------------------------------------------------------
(* deliver                                                                  *)

StartPost(w) ==
    /\ batch[w].step = "idle"
    /\ \E c \in batch[w].rest :
        batch' = [batch EXCEPT
          ![w].rest = @ \ {c}, ![w].call = c, ![w].step = "posting"]
    /\ UNCHANGED <<endpoint, delivery, received, overruns, takenBack, edits, losses>>

Goes(w, step, caught) ==
    batch' = [batch EXCEPT ![w].step = step, ![w].caught = caught]

(* Accepted; accepted, but the answer comes too late; refused with another  *)
(* status, which calls markFailed inside the try; or out of reach.          *)
Answer(w) ==
    LET d == batch[w].call.delivery
    IN  /\ batch[w].step = "posting"
        /\ \/ /\ received' = [received EXCEPT ![d] = @ + 1]
              /\ Goes(w, "accepted", FALSE) \/ Goes(w, "count", TRUE)
           \/ /\ Goes(w, "count", FALSE) \/ Goes(w, "count", TRUE)
              /\ UNCHANGED received
        /\ UNCHANGED <<endpoint, delivery, overruns, takenBack, edits, losses>>

(* The loop goes to the next delivery, or the run ends. *)
Finish(w) ==
    batch' = [batch EXCEPT ![w] =
      IF @.rest = {} THEN NoBatch
      ELSE [NoBatch EXCEPT !.rest = batch[w].rest, !.calls = batch[w].calls + 1]]

(* What the screen shows of a delivery. *)
Decided(d) == delivery[d].status \in {"delivered", "failed"}

SetStatus(d, status) ==
    /\ delivery' = [delivery EXCEPT ![d].status = status, ![d].due = FALSE]
    /\ takenBack' = IF Decided(d) /\ delivery[d].status # status
                    THEN [takenBack EXCEPT ![d] = @ + 1] ELSE takenBack

SetDelivered(w) ==
    LET d == batch[w].call.delivery
    IN  /\ SetStatus(d, "delivered")
        /\ endpoint' = [endpoint EXCEPT ![EndpointOf[d]].failures = 0]

(* deliver without the return after markDelivered. *)
MarkDeliveredFallsThrough(w) ==
    /\ batch[w].step = "accepted"
    /\ Exists(EndpointOf[batch[w].call.delivery])
    /\ SetDelivered(w)
    /\ Goes(w, "count", FALSE)
    /\ UNCHANGED <<received, overruns, edits, losses>>

(* One transaction writes both rows. *)
MarkDelivered(w) ==
    /\ batch[w].step = "accepted"
    /\ Exists(EndpointOf[batch[w].call.delivery])
    /\ SetDelivered(w)
    /\ Finish(w)
    /\ UNCHANGED <<received, overruns, edits, losses>>

-----------------------------------------------------------------------------
(* markFailed: three statements                                             *)

Increment(n) == IF n < DisableAfter THEN n + 1 ELSE n

(* The count that the statement returns. *)
FailuresAfter(n) == Increment(endpoint[n].failures)

SetCount(w) ==
    LET n == EndpointOf[batch[w].call.delivery]
    IN  /\ endpoint' = [endpoint EXCEPT ![n].failures = FailuresAfter(n)]
        /\ UNCHANGED <<delivery, takenBack>>

CountFailure(w) ==
    LET n == EndpointOf[batch[w].call.delivery]
    IN  /\ batch[w].step = "count"
        /\ Exists(n)
        /\ SetCount(w)
        /\ batch' = [batch EXCEPT
             ![w].step = "reschedule",
             ![w].stop = ~endpoint[n].disabled /\ FailuresAfter(n) >= DisableAfter]
        /\ UNCHANGED <<received, overruns, edits, losses>>

GivesUpEarly(claim) == claim.attempts + 1 >= MaxAttempts

(* From the attempts the claim returned. *)
Exhausted(claim) == claim.attempts >= MaxAttempts

SetFailed(w) ==
    LET c == batch[w].call
    IN  /\ SetStatus(c.delivery, IF Exhausted(c) THEN "failed" ELSE "pending")
        /\ UNCHANGED endpoint

Reschedule(w) ==
    /\ batch[w].step = "reschedule"
    /\ Exists(EndpointOf[batch[w].call.delivery])
    /\ SetFailed(w)
    /\ IF batch[w].stop THEN Goes(w, "disable", batch[w].caught) ELSE Finish(w)
    /\ UNCHANGED <<received, overruns, edits, losses>>

SetDisabled(w) ==
    /\ endpoint' = [endpoint EXCEPT ![EndpointOf[batch[w].call.delivery]].disabled = TRUE]
    /\ UNCHANGED <<delivery, takenBack>>

(* Whatever has become of the endpoint since the count. *)
DisableEndpoint(w) ==
    /\ batch[w].step = "disable"
    /\ Exists(EndpointOf[batch[w].call.delivery])
    /\ SetDisabled(w)
    /\ Finish(w)
    /\ UNCHANGED <<received, overruns, edits, losses>>

Statements == {"accepted", "count", "reschedule", "disable"}

(* The statement a dispatcher is at, as far as the database goes.           *)
Commits(w) ==
    /\ Exists(EndpointOf[batch[w].call.delivery])
    /\ \/ batch[w].step = "accepted" /\ SetDelivered(w)
       \/ batch[w].step = "count" /\ SetCount(w)
       \/ batch[w].step = "reschedule" /\ SetFailed(w)
       \/ batch[w].step = "disable" /\ SetDisabled(w)

(* A statement throws, for the row is gone or for no reason of its own,     *)
(* having done nothing or, when only its acknowledgement is lost,           *)
(* everything.  The catch block of deliver marks the delivery failed, from  *)
(* the start; what the catch block throws leaves the loop and with it the   *)
(* rest of the batch.                                                       *)
Throw(w) ==
    /\ batch[w].step \in Statements
    /\ Commits(w) \/ UNCHANGED <<endpoint, delivery, takenBack>>
    /\ IF Exists(EndpointOf[batch[w].call.delivery])
       THEN losses < MaxLosses /\ losses' = losses + 1
       ELSE UNCHANGED losses
    /\ IF batch[w].caught
       THEN batch' = [batch EXCEPT ![w] = NoBatch]
       ELSE batch' = [batch EXCEPT
              ![w].step = "count", ![w].caught = TRUE, ![w].stop = FALSE]
    /\ UNCHANGED <<received, overruns, edits>>

ProcessStops(w) ==
    /\ batch[w] # NoBatch
    /\ losses < MaxLosses
    /\ losses' = losses + 1
    /\ batch' = [batch EXCEPT ![w] = NoBatch]
    /\ UNCHANGED <<endpoint, delivery, received, overruns, takenBack, edits>>

-----------------------------------------------------------------------------

DispatcherStep(w) ==
    \/ ClaimBatch(w)
    \/ StartPost(w)
    \/ Answer(w)
    \/ MarkDelivered(w)
    \/ CountFailure(w)
    \/ Reschedule(w)
    \/ DisableEndpoint(w)
    \/ Throw(w)

Next ==
    \/ \E n \in Endpoints : CreateEndpoint(n) \/ UpdateEndpoint(n) \/ RemoveEndpoint(n)
    \/ \E d \in Deliveries : Fanout(d) \/ LeaseElapses(d)
    \/ \E w \in Dispatchers : DispatcherStep(w) \/ ProcessStops(w)

Spec == Init /\ [][Next]_vars

(* The dispatch job is repeated every five seconds, every call is answered  *)
(* or aborted, and time passes.  No call is obliged to succeed, and nobody  *)
(* to create, edit or remove an endpoint.                                   *)
Fairness ==
    /\ \A d \in Deliveries : WF_vars(LeaseElapses(d))
    /\ \A w \in Dispatchers : WF_vars(DispatcherStep(w))

FairSpec == Spec /\ Fairness

-----------------------------------------------------------------------------
(* Properties                                                               *)

(* Every column and every local holds a value of its type. *)
TypeOK ==
    /\ endpoint \in [Endpoints -> EndpointRow]
    /\ delivery \in [Deliveries -> DeliveryRow]
    /\ batch \in [Dispatchers -> Batch]
    /\ received \in [Deliveries -> Nat]
    /\ overruns \in [Deliveries -> Nat]
    /\ takenBack \in [Deliveries -> Nat]
    /\ edits \in 0..MaxEdits
    /\ losses \in 0..MaxLosses

(* What the owner reads beside a delivery is true of the receiver: it says  *)
(* delivered only if the receiver has accepted it, and the receiver has     *)
(* seen it at most as often as the attempts it shows, however many workers, *)
(* stops and late answers there were.                                       *)
ReceiptsAccountedFor ==
    \A d \in Deliveries :
        /\ delivery[d].status = "delivered" => received[d] > 0
        /\ received[d] <= delivery[d].attempts

Gone == {n \in Endpoints : endpoint[n].status = "removed"}

(* A delivery is given up only when all its attempts have been claimed;     *)
(* and no claim is made beyond them, save for one whose outcome was lost    *)
(* with its worker, or with an endpoint removed under another delivery of   *)
(* the batch, or came after the lease.                                      *)
UsesAllAttempts ==
    \A d \in Deliveries :
        /\ delivery[d].status = "failed" => delivery[d].attempts >= MaxAttempts
        /\ overruns[d] = 0 =>
             delivery[d].attempts <= MaxAttempts + losses + Cardinality(Gone)

(* The lease keeps two workers off one delivery as long as it lasts: only a *)
(* delivery whose lease ran out in a worker's hands is ever in two pairs of *)
(* hands.  Any other that is held is undecided, but for what its holder has *)
(* just recorded.                                                           *)
LeaseExcludes ==
    \A w \in Dispatchers : \A d \in Held(w) : overruns[d] = 0 =>
        /\ \/ delivery[d].status \in {"pending", "removed"}
           \/ Decided(d) /\ batch[w].call # NoCall /\ batch[w].call.delivery = d
        /\ \A other \in Dispatchers \ {w} : d \notin Held(other)

(* What a delivery was decided to be is taken back at most once for every   *)
(* lease of it that ran out in a worker's hands, and once for every record  *)
(* that threw or was lost: however many calls overlap, each answers once,   *)
(* and a call that is over in time leaves alone what another has decided.   *)
EachOverrunTakesBackOnce ==
    \A d \in Deliveries : takenBack[d] <= overruns[d] + losses

(* Every delivery is decided some time, unless its endpoint is closed: none *)
(* is left under way by a worker that stopped, nor tried for ever.  (By a   *)
(* worker that sees the rows; with RlsEnforced it is what the documents say *)
(* and the code does not do.)                                               *)
DeliveriesAreDecided ==
    \A d \in Deliveries :
        (delivery[d].status = "pending")
            ~> (delivery[d].status # "pending" \/ ~Open(EndpointOf[d]))

-----------------------------------------------------------------------------
(* What docs and comments say, and the code does not do                     *)

(* docs/integrations/webhooks-and-api.md, 3, and the comment beside         *)
(* LEASE_MINUTES: the lease keeps two workers from making the same call at  *)
(* once, being longer than the longest call.  But it has to outlast the     *)
(* batch, of which a delivery may be the last.                              *)
NoConcurrentCalls ==
    \A w, other \in Dispatchers :
        w # other /\ batch[w].step = "posting" /\ batch[other].step = "posting"
            => batch[w].call.delivery # batch[other].call.delivery

(* The same comments: with one call at a time nobody is left to change what *)
(* was recorded.  A call of a lease that ran out makes a delivered row      *)
(* pending again, and so does the catch block of the very call that         *)
(* delivered it, when the acknowledgement of its record is lost.            *)
OutcomeIsFinal ==
    [][\A d \in Deliveries :
         Decided(d) => delivery'[d].status \in {delivery[d].status, "removed"}]_vars
=============================================================================
