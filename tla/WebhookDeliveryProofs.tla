------------------------ MODULE WebhookDeliveryProofs ------------------------
(***************************************************************************)
(* Webhook deliveries for any number of endpoints, deliveries and worker   *)
(* processes, any batch, any number of attempts, edits, throws and stops:  *)
(* what the owner reads of a delivery is what the receiver saw.            *)
(***************************************************************************)
EXTENDS WebhookDelivery, FiniteSetTheorems, TLAPS

(* A dispatcher's place in its batch: the call under way has left the rest, *)
(* and no delivery is in the batch twice.                                   *)
InItsPlace(w) ==
    /\ batch[w].call = NoCall <=> batch[w].step = "idle"
    /\ batch[w].call \notin batch[w].rest
    /\ \A c, d \in Claims(w) : c.delivery = d.delivery => c = d

HandsInOrder == \A w \in Dispatchers : InItsPlace(w)

(* The deliveries whose lease has run out in a worker's hands. *)
Overrun == {d \in Deliveries : overruns[d] # 0}

(* A delivery belongs to an endpoint that is there, or was; and a claim is  *)
(* of a row that is there, or was, and one of its attempts.                 *)
RowsInOrder ==
    /\ \A d \in Deliveries :
         /\ delivery[d].status = "none" => delivery[d].attempts = 0
         /\ delivery[d].status # "none" => endpoint[EndpointOf[d]].status # "none"
         /\ delivery[d].status \notin {"none", "removed"} => EndpointOf[d] \notin Gone
    /\ \A w \in Dispatchers : \A c \in Claims(w) :
         /\ delivery[c.delivery].status # "none"
         /\ c.attempts <= delivery[c.delivery].attempts

(* The workers whose claim of a delivery the receiver may still see. *)
Unanswered(d) ==
    {w \in Dispatchers :
        \/ \E c \in batch[w].rest : c.delivery = d
        \/ batch[w].step = "posting" /\ batch[w].call.delivery = d}

(* Each attempt is seen by the receiver once at the most. *)
ReceiptsCounted ==
    /\ \A d \in Deliveries :
         /\ IsFiniteSet(Unanswered(d))
         /\ received[d] + Cardinality(Unanswered(d)) <= delivery[d].attempts
         /\ delivery[d].status = "delivered" => received[d] > 0
    /\ \A w \in Dispatchers :
         batch[w].step = "accepted" => received[batch[w].call.delivery] > 0

(* The lease of a claim has not run out: it is the row's last claim, in one *)
(* pair of hands, and decided by nobody but its holder.                     *)
LeaseHolds(w, c) ==
    /\ c.attempts = delivery[c.delivery].attempts
    /\ ~delivery[c.delivery].due
    /\ \A other \in Dispatchers \ {w} : c.delivery \notin Held(other)
    /\ \/ delivery[c.delivery].status \in {"pending", "removed"}
       \/ /\ Decided(c.delivery)
          /\ c = batch[w].call
          /\ batch[w].step \in {"count", "reschedule", "disable"}

LeasesHold ==
    \A w \in Dispatchers : \A c \in Claims(w) :
        c.delivery \notin Overrun => LeaseHolds(w, c)

(* What a delivery may have used up, and what is left to one that waits, or *)
(* will wait again when its worker's batch breaks off.                      *)
AttemptLimit == MaxAttempts + losses + Cardinality(Gone)

AttemptsCounted ==
    /\ IsFiniteSet(Gone)
    /\ \A d \in Deliveries :
         delivery[d].status = "failed" => delivery[d].attempts >= MaxAttempts
    /\ \A d \in Deliveries \ Overrun :
         /\ delivery[d].attempts <= AttemptLimit
         /\ delivery[d].status = "pending" =>
              /\ (\A w \in Dispatchers : d \notin Held(w)) => delivery[d].attempts < AttemptLimit
              /\ \A w \in Dispatchers :
                   /\ d \in Held(w) /\ (\E c \in Claims(w) : EndpointOf[c.delivery] \in Gone)
                        => delivery[d].attempts < AttemptLimit
                   /\ batch[w].step = "disable" /\ batch[w].call.delivery = d
                        => delivery[d].attempts < MaxAttempts

(* The workers that may still record an outcome of a delivery. *)
StillToRecord(d) ==
    {w \in Dispatchers :
        /\ EndpointOf[d] \notin Gone
        /\ \/ \E c \in batch[w].rest : c.delivery = d
           \/ /\ batch[w].step \in {"posting", "accepted", "count", "reschedule"}
              /\ batch[w].call.delivery = d}

(* Its outcome has been recorded, or others may come to record one. *)
DecidedOrDue(d) ==
    \/ Decided(d)
    \/ delivery[d].status = "pending" /\ delivery[d].due

(* Each of them records one, and the first finds nothing to take back,      *)
(* unless the delivery has been decided or may be claimed again.            *)
Answers(d) == takenBack[d] + Cardinality(StillToRecord(d))

ChangesCounted ==
    \A d \in Deliveries :
        /\ IsFiniteSet(StillToRecord(d))
        /\ takenBack[d] <= overruns[d] + losses
        /\ Answers(d) <= overruns[d] + losses + 1
        /\ DecidedOrDue(d) => Answers(d) <= overruns[d] + losses

IInv ==
    /\ TypeOK
    /\ HandsInOrder
    /\ RowsInOrder
    /\ ReceiptsCounted
    /\ LeasesHold
    /\ AttemptsCounted
    /\ ChangesCounted

-----------------------------------------------------------------------------
(* What a step of a worker does to its batch                                *)

LEMMA NoBatchIs ==
    /\ NoBatch \in Batch
    /\ NoBatch.rest = {} /\ NoBatch.call = NoCall /\ NoBatch.step = "idle"
  BY DEF NoBatch, Batch

(* The call under way ends, and the rest stays. *)
LEMMA FinishIs ==
    ASSUME TypeOK, NEW w \in Dispatchers, Finish(w)
    PROVE  /\ batch' \in [Dispatchers -> Batch]
           /\ \A other \in Dispatchers \ {w} : batch'[other] = batch[other]
           /\ batch'[w].rest = batch[w].rest
           /\ batch'[w].call = NoCall
           /\ batch'[w].step = "idle"
<1> DEFINE after == IF batch[w].rest = {} THEN NoBatch
                    ELSE [NoBatch EXCEPT !.rest = batch[w].rest, !.calls = batch[w].calls + 1]
<1>1. batch[w] \in Batch /\ batch \in [Dispatchers -> Batch]
  BY DEF TypeOK
<1>2. batch' = [batch EXCEPT ![w] = after]
  BY DEF Finish
<1>3. after \in Batch /\ after.rest = batch[w].rest /\ after.call = NoCall /\ after.step = "idle"
  <2>1. CASE batch[w].rest = {}
    BY <2>1, NoBatchIs
  <2>2. CASE batch[w].rest # {}
    <3>1. after = [rest |-> batch[w].rest, call |-> NoCall, step |-> "idle",
                   caught |-> FALSE, stop |-> FALSE, calls |-> batch[w].calls + 1]
      BY <2>2 DEF NoBatch
    <3> HIDE DEF after
    <3> QED
      BY <1>1, <3>1 DEF Batch
  <2> QED
    BY <2>1, <2>2
<1> HIDE DEF after
<1> QED
  BY <1>1, <1>2, <1>3

(* Another step of the same call. *)
LEMMA GoesIs ==
    ASSUME TypeOK, NEW w \in Dispatchers,
           NEW step \in {"posting", "accepted", "count", "reschedule", "disable"},
           NEW caught \in BOOLEAN, Goes(w, step, caught)
    PROVE  /\ batch' \in [Dispatchers -> Batch]
           /\ \A other \in Dispatchers \ {w} : batch'[other] = batch[other]
           /\ batch'[w].rest = batch[w].rest
           /\ batch'[w].call = batch[w].call
           /\ batch'[w].step = step
<1> DEFINE after == [batch[w] EXCEPT !.step = step, !.caught = caught]
<1>1. batch[w] \in Batch /\ batch \in [Dispatchers -> Batch]
  BY DEF TypeOK
<1>2. batch' = [batch EXCEPT ![w] = after]
  BY DEF Goes
<1>3. /\ after \in Batch /\ after.rest = batch[w].rest
      /\ after.call = batch[w].call /\ after.step = step
  BY <1>1 DEF Batch
<1> HIDE DEF after
<1> QED
  BY <1>1, <1>2, <1>3

(* Where a call is after its start, and after the count of its failure. *)
LEMMA CallGoesOn ==
    ASSUME TypeOK, NEW w \in Dispatchers
    PROVE  /\ StartPost(w) => batch'[w].step = "posting"
           /\ CountFailure(w) => batch'[w].step = "reschedule"
<1>1. batch \in [Dispatchers -> Batch]
  BY DEF TypeOK
<1>2. ASSUME StartPost(w) PROVE batch'[w].step = "posting"
  BY <1>1, <1>2 DEF StartPost, Batch
<1>3. ASSUME CountFailure(w) PROVE batch'[w].step = "reschedule"
  <2>1. PICK stop : batch' = [batch EXCEPT ![w].step = "reschedule", ![w].stop = stop]
    BY <1>3 DEF CountFailure
  <2> QED
    BY <1>1, <2>1 DEF Batch
<1> QED
  BY <1>2, <1>3

(* The four things that may become of a batch. *)
NextCall(w) ==
    \E c \in batch[w].rest :
        /\ batch[w].step = "idle"
        /\ batch'[w].rest = batch[w].rest \ {c}
        /\ batch'[w].call = c
        /\ batch'[w].step = "posting"

SameCall(w) ==
    /\ batch[w].step # "idle"
    /\ batch'[w].rest = batch[w].rest
    /\ batch'[w].call = batch[w].call
    /\ batch'[w].step \in {"accepted", "count", "reschedule", "disable"}

CallOver(w) ==
    /\ batch[w].step # "idle"
    /\ batch'[w].rest = batch[w].rest
    /\ batch'[w].call = NoCall
    /\ batch'[w].step = "idle"

BatchOver(w) == batch'[w] = NoBatch

(* A step of a worker other than its claim. *)
WorkStep(w) ==
    \/ StartPost(w)
    \/ Answer(w)
    \/ MarkDelivered(w)
    \/ CountFailure(w)
    \/ Reschedule(w)
    \/ DisableEndpoint(w)
    \/ Throw(w)
    \/ ProcessStops(w)

LEMMA WorkStepIs ==
    ASSUME TypeOK, NEW w \in Dispatchers, WorkStep(w)
    PROVE  /\ batch' \in [Dispatchers -> Batch]
           /\ \A other \in Dispatchers \ {w} : batch'[other] = batch[other]
           /\ NextCall(w) \/ SameCall(w) \/ CallOver(w) \/ BatchOver(w)
<1>1. batch \in [Dispatchers -> Batch] /\ batch[w] \in Batch
  BY DEF TypeOK
<1>2. CASE StartPost(w)
  <2>1. PICK c \in batch[w].rest :
          batch' = [batch EXCEPT ![w].rest = @ \ {c}, ![w].call = c, ![w].step = "posting"]
    BY <1>2 DEF StartPost
  <2>2. batch[w].step = "idle"
    BY <1>2 DEF StartPost
  <2>3. c \in Claim
    BY <1>1 DEF Batch
  <2> QED
    BY <1>1, <2>1, <2>2, <2>3 DEF Batch, NextCall
<1>3. CASE Answer(w)
  <2>1. batch[w].step = "posting"
    BY <1>3 DEF Answer
  <2>2. \E step \in {"accepted", "count"}, caught \in BOOLEAN : Goes(w, step, caught)
    BY <1>3 DEF Answer
  <2> QED
    BY <2>1, <2>2, GoesIs DEF SameCall
<1>4. CASE MarkDelivered(w)
  BY <1>4, FinishIs DEF MarkDelivered, CallOver
<1>5. CASE CountFailure(w)
  <2>1. batch[w].step = "count"
    BY <1>5 DEF CountFailure
  <2> DEFINE n == EndpointOf[batch[w].call.delivery]
             stop == ~endpoint[n].disabled /\ FailuresAfter(n) >= DisableAfter
  <2>2. batch' = [batch EXCEPT ![w].step = "reschedule", ![w].stop = stop]
    BY <1>5 DEF CountFailure
  <2>3. stop \in BOOLEAN
    OBVIOUS
  <2> HIDE DEF stop
  <2> QED
    BY <1>1, <2>1, <2>2, <2>3 DEF Batch, SameCall
<1>6. CASE Reschedule(w)
  <2>1. batch[w].step = "reschedule" /\ batch[w].caught \in BOOLEAN
    BY <1>1, <1>6 DEF Reschedule, Batch
  <2>2. Goes(w, "disable", batch[w].caught) \/ Finish(w)
    BY <1>6 DEF Reschedule
  <2> QED
    BY <2>1, <2>2, GoesIs, FinishIs DEF SameCall, CallOver
<1>7. CASE DisableEndpoint(w)
  BY <1>7, FinishIs DEF DisableEndpoint, CallOver
<1>8. CASE Throw(w)
  <2>1. batch[w].step # "idle"
    BY <1>8 DEF Throw, Statements
  <2>2. \/ batch' = [batch EXCEPT ![w] = NoBatch]
        \/ batch' = [batch EXCEPT ![w].step = "count", ![w].caught = TRUE, ![w].stop = FALSE]
    BY <1>8 DEF Throw
  <2> QED
    BY <1>1, <2>1, <2>2, NoBatchIs DEF Batch, SameCall, BatchOver
<1>9. CASE ProcessStops(w)
  BY <1>1, <1>9, NoBatchIs DEF ProcessStops, BatchOver
<1> QED
  BY <1>2, <1>3, <1>4, <1>5, <1>6, <1>7, <1>8, <1>9 DEF WorkStep

(* A worker's step takes nothing into its hands, and touches nobody else's. *)
LEMMA WorkStepHands ==
    ASSUME TypeOK, HandsInOrder, NEW w \in Dispatchers, WorkStep(w)
    PROVE  /\ Claims(w)' \subseteq Claims(w)
           /\ \A other \in Dispatchers \ {w} : Claims(other)' = Claims(other)
           /\ NextCall(w) \/ SameCall(w) => Claims(w)' = Claims(w)
           /\ CallOver(w) => Claims(w)' = Claims(w) \ {batch[w].call}
           /\ BatchOver(w) => Claims(w)' = {}
<1>1. /\ \A other \in Dispatchers \ {w} : batch'[other] = batch[other]
      /\ NextCall(w) \/ SameCall(w) \/ CallOver(w) \/ BatchOver(w)
  BY WorkStepIs
<1>2. InItsPlace(w)
  BY DEF HandsInOrder
<1>3. batch[w].rest \subseteq Claim
  BY DEF TypeOK, Batch
<1>4. CASE NextCall(w)
  BY <1>1, <1>2, <1>3, <1>4, NoCallAssumption DEF NextCall, Claims, InItsPlace, SameCall, CallOver,
         BatchOver, NoBatch
<1>5. CASE SameCall(w)
  BY <1>1, <1>5 DEF SameCall, Claims, CallOver, BatchOver, NoBatch
<1>6. CASE CallOver(w)
  BY <1>1, <1>2, <1>6 DEF CallOver, Claims, InItsPlace, NextCall, SameCall, BatchOver, NoBatch
<1>7. CASE BatchOver(w)
  BY <1>1, <1>7, NoBatchIs DEF BatchOver, Claims, NextCall, SameCall, CallOver
<1> QED
  BY <1>1, <1>4, <1>5, <1>6, <1>7

(* What a claim does: a row is counted and leased, and its attempt is in    *)
(* the worker's hands, which were empty.                                    *)
LEMMA ClaimBatchIs ==
    ASSUME TypeOK, NEW w \in Dispatchers, ClaimBatch(w)
    PROVE  /\ batch[w] = NoBatch
           /\ batch' \in [Dispatchers -> Batch]
           /\ \A other \in Dispatchers \ {w} : batch'[other] = batch[other]
           /\ batch'[w].call = NoCall /\ batch'[w].step = "idle"
           /\ UNCHANGED <<endpoint, received, overruns, takenBack, edits, losses>>
           /\ \E claimed \in SUBSET Claimable :
                /\ batch'[w].rest =
                     {[delivery |-> d, attempts |-> delivery[d].attempts + 1] : d \in claimed}
                /\ delivery' = [d \in Deliveries |->
                     IF d \in claimed THEN ClaimedRow(d) ELSE delivery[d]]
<1>1. \A d \in Deliveries :
        /\ delivery[d] \in DeliveryRow
        /\ ClaimedRow(d).attempts = delivery[d].attempts + 1
  BY DEF TypeOK, DeliveryRow, ClaimedRow
<1>2. PICK claimed \in SUBSET Claimable :
        /\ delivery' = [d \in Deliveries |->
             IF d \in claimed THEN ClaimedRow(d) ELSE delivery[d]]
        /\ batch' = [batch EXCEPT ![w].rest =
             {[delivery |-> d, attempts |-> ClaimedRow(d).attempts] : d \in claimed}]
  BY DEF ClaimBatch
<1>3. claimed \subseteq Deliveries
  BY DEF Claimable, SeenWithoutOrganization
<1> DEFINE rest == {[delivery |-> d, attempts |-> delivery[d].attempts + 1] : d \in claimed}
<1>4. rest = {[delivery |-> d, attempts |-> ClaimedRow(d).attempts] : d \in claimed}
  BY <1>1, <1>3
<1>5. rest \subseteq Claim
  BY <1>1, <1>3 DEF Claim, DeliveryRow
<1> HIDE DEF rest
<1>6. batch[w] = NoBatch /\ batch \in [Dispatchers -> Batch] /\ batch[w] \in Batch
  BY DEF ClaimBatch, TypeOK
<1>7. batch' = [batch EXCEPT ![w].rest = rest]
  BY <1>2, <1>4
<1>8. batch' \in [Dispatchers -> Batch]
  BY <1>5, <1>6, <1>7 DEF Batch
<1>9. /\ batch'[w].rest = rest
      /\ batch'[w].call = NoCall /\ batch'[w].step = "idle"
  BY <1>6, <1>7, NoBatchIs DEF Batch
<1>10. \A other \in Dispatchers \ {w} : batch'[other] = batch[other]
  BY <1>6, <1>7
<1> QED
  BY <1>2, <1>6, <1>8, <1>9, <1>10 DEF ClaimBatch, rest

LEMMA ClaimedRowIs ==
    ASSUME TypeOK, NEW d \in Deliveries
    PROVE  /\ ClaimedRow(d) \in DeliveryRow
           /\ ClaimedRow(d).status = delivery[d].status
           /\ ClaimedRow(d).attempts = delivery[d].attempts + 1
           /\ ~ClaimedRow(d).due
<1>1. delivery[d] \in DeliveryRow
  BY DEF TypeOK
<1>2. ClaimedRow(d).status = delivery[d].status
  BY <1>1 DEF DeliveryRow, ClaimedRow
<1>3. ClaimedRow(d).attempts = delivery[d].attempts + 1
  BY <1>1 DEF DeliveryRow, ClaimedRow
<1>4. ClaimedRow(d).due = FALSE
  BY <1>1 DEF DeliveryRow, ClaimedRow
<1>5. ClaimedRow(d) \in DeliveryRow
  <2> DEFINE attempts == delivery[d].attempts + 1
  <2>1. attempts \in Nat
    BY <1>1 DEF DeliveryRow
  <2> HIDE DEF attempts
  <2>2. [delivery[d] EXCEPT !.attempts = attempts, !.due = FALSE] \in DeliveryRow
    BY <1>1, <2>1 DEF DeliveryRow
  <2> QED
    BY <2>2 DEF ClaimedRow, attempts
<1> QED
  BY <1>2, <1>3, <1>4, <1>5

LEMMA EmptyHands ==
    ASSUME TypeOK, NEW w \in Dispatchers, batch[w] = NoBatch
    PROVE  Claims(w) = {} /\ Held(w) = {}
  BY NoBatchIs DEF Claims, Held

(* The call under way is of a delivery there is. *)
LEMMA CallIs ==
    ASSUME TypeOK, HandsInOrder, NEW w \in Dispatchers, batch[w].step # "idle"
    PROVE  /\ batch[w].call \in Claim
           /\ batch[w].call \in Claims(w)
           /\ batch[w].call.delivery \in Held(w)
           /\ batch[w].call.delivery \in Deliveries
           /\ EndpointOf[batch[w].call.delivery] \in Endpoints
<1>1. batch[w].call # NoCall /\ batch[w].call \in Claim \cup {NoCall}
  BY DEF HandsInOrder, InItsPlace, TypeOK, Batch
<1> QED
  BY <1>1, WebhookAssumption DEF Claims, Held, Claim

-----------------------------------------------------------------------------
(* What a step does to a row                                                *)

(* The seven things that may become of a delivery. *)
RowStays(d) == delivery'[d] = delivery[d]

RowIsRemoved(d) ==
    /\ RemoveEndpoint(EndpointOf[d])
    /\ delivery[d].status # "none"
    /\ delivery'[d].status = "removed"
    /\ delivery'[d].attempts = delivery[d].attempts
    /\ delivery'[d].due = delivery[d].due

RowIsInserted(d) ==
    /\ Fanout(d)
    /\ delivery[d].status = "none"
    /\ delivery'[d].status = "pending"
    /\ delivery'[d].attempts = 0

RowIsClaimed(w, d) ==
    /\ ClaimBatch(w)
    /\ d \in Claimable
    /\ delivery'[d] = ClaimedRow(d)
    /\ \E c \in batch'[w].rest : c.delivery = d

RowIsDue(d) ==
    /\ LeaseElapses(d)
    /\ delivery'[d].status = delivery[d].status
    /\ delivery'[d].attempts = delivery[d].attempts

RowIsDelivered(w, d) ==
    /\ MarkDelivered(w) \/ Throw(w)
    /\ batch[w].step = "accepted"
    /\ batch[w].call.delivery = d
    /\ Exists(EndpointOf[d])
    /\ delivery'[d].status = "delivered"
    /\ delivery'[d].attempts = delivery[d].attempts
    /\ ~delivery'[d].due

RowIsRescheduled(w, d) ==
    /\ Reschedule(w) \/ Throw(w)
    /\ batch[w].step = "reschedule"
    /\ batch[w].call.delivery = d
    /\ Exists(EndpointOf[d])
    /\ delivery'[d].status = IF Exhausted(batch[w].call) THEN "failed" ELSE "pending"
    /\ delivery'[d].attempts = delivery[d].attempts
    /\ ~delivery'[d].due

RowStep(d) ==
    \/ RowStays(d)
    \/ RowIsRemoved(d)
    \/ RowIsInserted(d)
    \/ \E w \in Dispatchers : RowIsClaimed(w, d)
    \/ RowIsDue(d)
    \/ \E w \in Dispatchers : RowIsDelivered(w, d)
    \/ \E w \in Dispatchers : RowIsRescheduled(w, d)

LEMMA RowSteps ==
    ASSUME TypeOK, HandsInOrder, Next
    PROVE  delivery' \in [Deliveries -> DeliveryRow] /\ \A d \in Deliveries : RowStep(d)
<1>1. \A d \in Deliveries : delivery[d] \in DeliveryRow
  BY DEF TypeOK
<1>2. delivery \in [Deliveries -> DeliveryRow]
  BY DEF TypeOK
<1>3. CASE UNCHANGED delivery
  BY <1>2, <1>3 DEF RowStep, RowStays
<1>4. ASSUME NEW n \in Endpoints, RemoveEndpoint(n)
      PROVE  delivery' \in [Deliveries -> DeliveryRow] /\ \A d \in Deliveries : RowStep(d)
  <2>1. delivery' = [d \in Deliveries |->
          IF EndpointOf[d] = n /\ delivery[d].status # "none"
          THEN [delivery[d] EXCEPT !.status = "removed"] ELSE delivery[d]]
    BY <1>4 DEF RemoveEndpoint
  <2>2. ASSUME NEW d \in Deliveries
        PROVE  /\ [delivery[d] EXCEPT !.status = "removed"] \in DeliveryRow
               /\ [delivery[d] EXCEPT !.status = "removed"].status = "removed"
               /\ [delivery[d] EXCEPT !.status = "removed"].attempts = delivery[d].attempts
               /\ [delivery[d] EXCEPT !.status = "removed"].due = delivery[d].due
    BY <1>1 DEF DeliveryRow
  <2> QED
    BY <1>1, <1>4, <2>1, <2>2 DEF RowStep, RowStays, RowIsRemoved
<1>5. ASSUME NEW e \in Deliveries, Fanout(e)
      PROVE  delivery' \in [Deliveries -> DeliveryRow] /\ \A d \in Deliveries : RowStep(d)
  <2>1. delivery' = [delivery EXCEPT ![e] = [status |-> "pending", attempts |-> 0, due |-> TRUE]]
    BY <1>5 DEF Fanout
  <2>2. delivery[e].status = "none"
    BY <1>5 DEF Fanout
  <2>3. delivery' \in [Deliveries -> DeliveryRow]
    BY <1>2, <2>1 DEF DeliveryRow
  <2>4. RowIsInserted(e)
    BY <1>2, <1>5, <2>1, <2>2 DEF RowIsInserted
  <2>5. \A d \in Deliveries \ {e} : RowStays(d)
    BY <1>2, <2>1 DEF RowStays
  <2> QED
    BY <2>3, <2>4, <2>5 DEF RowStep
<1>6. ASSUME NEW w \in Dispatchers, ClaimBatch(w)
      PROVE  delivery' \in [Deliveries -> DeliveryRow] /\ \A d \in Deliveries : RowStep(d)
  <2>1. PICK claimed \in SUBSET Claimable :
          /\ batch'[w].rest =
               {[delivery |-> d, attempts |-> delivery[d].attempts + 1] : d \in claimed}
          /\ delivery' = [d \in Deliveries |->
               IF d \in claimed THEN ClaimedRow(d) ELSE delivery[d]]
    BY <1>6, ClaimBatchIs
  <2>2. delivery' \in [Deliveries -> DeliveryRow]
    BY <1>1, <2>1, ClaimedRowIs
  <2>3. ASSUME NEW d \in claimed
        PROVE  d \in Deliveries => RowIsClaimed(w, d)
    <3>1. [delivery |-> d, attempts |-> delivery[d].attempts + 1] \in batch'[w].rest
      BY <2>1
    <3>2. \E c \in batch'[w].rest : c.delivery = d
      BY <3>1
    <3> QED
      BY <1>6, <2>1, <3>2 DEF RowIsClaimed
  <2>4. \A d \in Deliveries \ claimed : RowStays(d)
    BY <2>1 DEF RowStays
  <2> QED
    BY <2>2, <2>3, <2>4 DEF RowStep
<1>7. ASSUME NEW e \in Deliveries, LeaseElapses(e)
      PROVE  delivery' \in [Deliveries -> DeliveryRow] /\ \A d \in Deliveries : RowStep(d)
  <2>1. delivery' = [delivery EXCEPT ![e].due = TRUE]
    BY <1>7 DEF LeaseElapses
  <2>2. delivery' \in [Deliveries -> DeliveryRow] /\ RowIsDue(e)
    BY <1>1, <1>2, <1>7, <2>1 DEF DeliveryRow, RowIsDue
  <2>3. \A d \in Deliveries \ {e} : RowStays(d)
    BY <1>2, <2>1 DEF RowStays
  <2> QED
    BY <2>2, <2>3 DEF RowStep
<1>8. ASSUME NEW w \in Dispatchers, NEW status \in {"delivered", "failed", "pending"},
             batch[w].step # "idle",
             delivery' = [delivery EXCEPT ![batch[w].call.delivery].status = status,
                                          ![batch[w].call.delivery].due = FALSE]
      PROVE  /\ delivery' \in [Deliveries -> DeliveryRow]
             /\ \A d \in Deliveries \ {batch[w].call.delivery} : RowStays(d)
             /\ delivery'[batch[w].call.delivery].status = status
             /\ delivery'[batch[w].call.delivery].attempts
                  = delivery[batch[w].call.delivery].attempts
             /\ ~delivery'[batch[w].call.delivery].due
  <2> DEFINE e == batch[w].call.delivery
  <2>1. e \in Deliveries
    BY <1>8, CallIs
  <2> HIDE DEF e
  <2>2. delivery' = [delivery EXCEPT ![e].status = status, ![e].due = FALSE]
    BY <1>8 DEF e
  <2>3. delivery' \in [Deliveries -> DeliveryRow]
    BY <1>2, <2>1, <2>2 DEF DeliveryRow
  <2>4. \A d \in Deliveries \ {e} : delivery'[d] = delivery[d]
    BY <1>2, <2>2
  <2>5. /\ delivery'[e].status = status
        /\ delivery'[e].attempts = delivery[e].attempts
        /\ delivery'[e].due = FALSE
    BY <1>1, <1>2, <2>1, <2>2 DEF DeliveryRow
  <2> QED
    BY <2>3, <2>4, <2>5 DEF RowStays, e
<1>9. ASSUME NEW w \in Dispatchers, MarkDelivered(w) \/ Throw(w), SetDelivered(w),
             batch[w].step = "accepted", Exists(EndpointOf[batch[w].call.delivery])
      PROVE  delivery' \in [Deliveries -> DeliveryRow] /\ \A d \in Deliveries : RowStep(d)
  <2>1. /\ batch[w].step # "idle"
        /\ delivery' = [delivery EXCEPT ![batch[w].call.delivery].status = "delivered",
                                        ![batch[w].call.delivery].due = FALSE]
    BY <1>9 DEF SetDelivered, SetStatus
  <2>2. RowIsDelivered(w, batch[w].call.delivery)
    BY <1>8, <1>9, <2>1 DEF RowIsDelivered
  <2> QED
    BY <1>8, <2>1, <2>2 DEF RowStep
<1>10. ASSUME NEW w \in Dispatchers, Reschedule(w) \/ Throw(w), SetFailed(w),
              batch[w].step = "reschedule", Exists(EndpointOf[batch[w].call.delivery])
       PROVE  delivery' \in [Deliveries -> DeliveryRow] /\ \A d \in Deliveries : RowStep(d)
  <2> DEFINE status == IF Exhausted(batch[w].call) THEN "failed" ELSE "pending"
  <2>1. /\ batch[w].step # "idle"
        /\ delivery' = [delivery EXCEPT ![batch[w].call.delivery].status = status,
                                        ![batch[w].call.delivery].due = FALSE]
    BY <1>10 DEF SetFailed, SetStatus
  <2>2. status \in {"delivered", "failed", "pending"}
    OBVIOUS
  <2>3. RowIsRescheduled(w, batch[w].call.delivery)
    BY <1>8, <1>10, <2>1, <2>2 DEF RowIsRescheduled
  <2> QED
    BY <1>8, <2>1, <2>2, <2>3 DEF RowStep
<1>11. ASSUME NEW w \in Dispatchers,
              MarkDelivered(w) \/ CountFailure(w) \/ Reschedule(w) \/ DisableEndpoint(w)
                \/ Throw(w)
       PROVE  delivery' \in [Deliveries -> DeliveryRow] /\ \A d \in Deliveries : RowStep(d)
  <2>1. \/ UNCHANGED delivery
        \/ /\ Exists(EndpointOf[batch[w].call.delivery])
           /\ \/ /\ MarkDelivered(w) \/ Throw(w)
                 /\ SetDelivered(w) /\ batch[w].step = "accepted"
              \/ /\ Reschedule(w) \/ Throw(w)
                 /\ SetFailed(w) /\ batch[w].step = "reschedule"
    BY <1>11 DEF MarkDelivered, CountFailure, Reschedule, DisableEndpoint, Throw, Commits,
       SetCount, SetDisabled
  <2> QED
    BY <1>3, <1>9, <1>10, <2>1
<1> QED
  BY <1>3, <1>4, <1>5, <1>6, <1>7, <1>11 DEF Next, DispatcherStep, CreateEndpoint,
     UpdateEndpoint, StartPost, Answer, ProcessStops

-----------------------------------------------------------------------------
(* The inductive invariant, one conjunct at a time                          *)

LEMMA HandsStayInOrder ==
    ASSUME TypeOK, HandsInOrder, Next
    PROVE  HandsInOrder'
<1>1. CASE UNCHANGED batch
  BY <1>1 DEF HandsInOrder, InItsPlace, Claims
<1>2. ASSUME NEW w \in Dispatchers, ClaimBatch(w)
      PROVE  HandsInOrder'
  <2>1. \A other \in Dispatchers \ {w} : batch'[other] = batch[other]
    BY <1>2, ClaimBatchIs
  <2>2. \A other \in Dispatchers \ {w} : InItsPlace(other)'
    BY <2>1 DEF HandsInOrder, InItsPlace, Claims
  <2>3. PICK claimed \in SUBSET Claimable :
          batch'[w].rest =
            {[delivery |-> d, attempts |-> delivery[d].attempts + 1] : d \in claimed}
    BY <1>2, ClaimBatchIs
  <2>4. /\ batch'[w].call = NoCall /\ batch'[w].step = "idle"
        /\ batch'[w].rest \subseteq Claim
    BY <1>2, ClaimBatchIs DEF Batch
  <2>5. InItsPlace(w)'
    BY <2>3, <2>4, NoCallAssumption DEF InItsPlace, Claims
  <2> QED
    BY <2>2, <2>5 DEF HandsInOrder
<1>3. ASSUME NEW w \in Dispatchers, WorkStep(w)
      PROVE  HandsInOrder'
  <2>1. /\ \A other \in Dispatchers \ {w} : batch'[other] = batch[other]
        /\ NextCall(w) \/ SameCall(w) \/ CallOver(w) \/ BatchOver(w)
        /\ Claims(w)' \subseteq Claims(w)
    BY <1>3, WorkStepIs, WorkStepHands
  <2>2. \A other \in Dispatchers \ {w} : InItsPlace(other)'
    BY <2>1 DEF HandsInOrder, InItsPlace, Claims
  <2>3. InItsPlace(w) /\ batch[w].rest \subseteq Claim
    BY DEF HandsInOrder, TypeOK, Batch
  <2>4. (batch[w].call = NoCall <=> batch[w].step = "idle")' /\ (batch[w].call \notin batch[w].rest)'
    BY <2>1, <2>3, NoCallAssumption, NoBatchIs
       DEF InItsPlace, NextCall, SameCall, CallOver, BatchOver
  <2>5. InItsPlace(w)'
    BY <2>1, <2>3, <2>4 DEF InItsPlace
  <2> QED
    BY <2>2, <2>5 DEF HandsInOrder
<1> QED
  BY <1>1, <1>2, <1>3 DEF Next, DispatcherStep, WorkStep, CreateEndpoint, UpdateEndpoint,
     RemoveEndpoint, Fanout, LeaseElapses

(* No step forgets a row, or an attempt; nor an endpoint that was removed. *)
LEMMA RowsAdvance ==
    ASSUME TypeOK, HandsInOrder, Next, NEW d \in Deliveries, delivery[d].status # "none"
    PROVE  delivery'[d].status # "none" /\ delivery'[d].attempts >= delivery[d].attempts
<1>1. RowStep(d)
  BY RowSteps
<1>2. delivery[d].attempts \in Nat
  BY DEF TypeOK, DeliveryRow
<1> QED
  BY <1>1, <1>2, ClaimedRowIs DEF RowStep, RowStays, RowIsRemoved, RowIsInserted, RowIsClaimed,
     RowIsDue, RowIsDelivered, RowIsRescheduled

LEMMA EndpointSteps ==
    ASSUME TypeOK, HandsInOrder, Next
    PROVE  /\ endpoint' \in [Endpoints -> EndpointRow]
           /\ \A n \in Endpoints :
                endpoint[n].status # "none" => endpoint'[n].status # "none"
           /\ \/ Gone' = Gone
              \/ \E n \in Endpoints : RemoveEndpoint(n) /\ n \notin Gone /\ Gone' = Gone \cup {n}
<1>1. endpoint \in [Endpoints -> EndpointRow] /\ DisableAfter \in Nat \ {0}
  BY WebhookAssumption DEF TypeOK
<1>2. CASE UNCHANGED endpoint
  BY <1>1, <1>2 DEF Gone
<1>3. ASSUME NEW n \in Endpoints, NEW status \in {"active", "inactive"},
             endpoint' = [endpoint EXCEPT ![n].status = status], endpoint[n].status = "none"
      PROVE  /\ endpoint' \in [Endpoints -> EndpointRow] /\ Gone' = Gone
             /\ \A m \in Endpoints : endpoint[m].status # "none" => endpoint'[m].status # "none"
  BY <1>1, <1>3 DEF EndpointRow, Gone
<1>4. ASSUME NEW n \in Endpoints, UpdateEndpoint(n)
      PROVE  /\ endpoint' \in [Endpoints -> EndpointRow] /\ Gone' = Gone
             /\ \A m \in Endpoints : endpoint[m].status # "none" => endpoint'[m].status # "none"
  BY <1>1, <1>4 DEF UpdateEndpoint, Exists, EndpointRow, Gone
<1>5. ASSUME NEW n \in Endpoints, RemoveEndpoint(n)
      PROVE  /\ endpoint' \in [Endpoints -> EndpointRow]
             /\ n \notin Gone /\ Gone' = Gone \cup {n}
             /\ \A m \in Endpoints : endpoint[m].status # "none" => endpoint'[m].status # "none"
  BY <1>1, <1>5 DEF RemoveEndpoint, Exists, EndpointRow, Gone
<1>6. ASSUME NEW n \in Endpoints, NEW failures \in 0..DisableAfter,
             endpoint' = [endpoint EXCEPT ![n].failures = failures]
      PROVE  /\ endpoint' \in [Endpoints -> EndpointRow] /\ Gone' = Gone
             /\ \A m \in Endpoints : endpoint[m].status # "none" => endpoint'[m].status # "none"
  BY <1>1, <1>6 DEF EndpointRow, Gone
<1>7. ASSUME NEW n \in Endpoints, endpoint' = [endpoint EXCEPT ![n].disabled = TRUE]
      PROVE  /\ endpoint' \in [Endpoints -> EndpointRow] /\ Gone' = Gone
             /\ \A m \in Endpoints : endpoint[m].status # "none" => endpoint'[m].status # "none"
  BY <1>1, <1>7 DEF EndpointRow, Gone
<1>8. ASSUME NEW w \in Dispatchers, batch[w].step # "idle", SetDelivered(w) \/ SetCount(w)
      PROVE  /\ endpoint' \in [Endpoints -> EndpointRow] /\ Gone' = Gone
             /\ \A m \in Endpoints : endpoint[m].status # "none" => endpoint'[m].status # "none"
  <2> DEFINE n == EndpointOf[batch[w].call.delivery]
  <2>1. n \in Endpoints
    BY <1>8, CallIs
  <2>2. endpoint[n].failures \in 0..DisableAfter
    BY <1>1, <2>1 DEF EndpointRow
  <2>3. FailuresAfter(n) \in 0..DisableAfter /\ 0 \in 0..DisableAfter
    BY <1>1, <2>2 DEF FailuresAfter, Increment
  <2>4. \/ endpoint' = [endpoint EXCEPT ![n].failures = 0]
        \/ endpoint' = [endpoint EXCEPT ![n].failures = FailuresAfter(n)]
    BY <1>8 DEF SetDelivered, SetCount
  <2> HIDE DEF n
  <2> QED
    BY <1>6, <2>1, <2>3, <2>4
<1>9. ASSUME NEW w \in Dispatchers, batch[w].step # "idle", SetDisabled(w)
      PROVE  /\ endpoint' \in [Endpoints -> EndpointRow] /\ Gone' = Gone
             /\ \A m \in Endpoints : endpoint[m].status # "none" => endpoint'[m].status # "none"
  BY <1>7, <1>9, CallIs DEF SetDisabled
<1>10. ASSUME NEW n \in Endpoints, CreateEndpoint(n)
       PROVE  /\ endpoint' \in [Endpoints -> EndpointRow] /\ Gone' = Gone
              /\ \A m \in Endpoints : endpoint[m].status # "none" => endpoint'[m].status # "none"
  BY <1>3, <1>10 DEF CreateEndpoint
<1>11. ASSUME NEW w \in Dispatchers,
              MarkDelivered(w) \/ CountFailure(w) \/ Reschedule(w) \/ DisableEndpoint(w)
                \/ Throw(w)
       PROVE  /\ endpoint' \in [Endpoints -> EndpointRow] /\ Gone' = Gone
              /\ \A m \in Endpoints : endpoint[m].status # "none" => endpoint'[m].status # "none"
  <2>1. \/ UNCHANGED endpoint
        \/ batch[w].step # "idle" /\ (SetDelivered(w) \/ SetCount(w) \/ SetDisabled(w))
    BY <1>11 DEF MarkDelivered, CountFailure, Reschedule, DisableEndpoint, Throw, Commits,
       SetFailed
  <2>2. CASE UNCHANGED endpoint
    BY <1>1, <2>2 DEF Gone
  <2> QED
    BY <1>8, <1>9, <2>1, <2>2
<1> QED
  BY <1>2, <1>4, <1>5, <1>10, <1>11 DEF Next, DispatcherStep, Fanout, LeaseElapses,
     ClaimBatch, StartPost, Answer, ProcessStops

LEMMA TypesHold ==
    ASSUME TypeOK, HandsInOrder, Next
    PROVE  TypeOK'
<1>1. endpoint' \in [Endpoints -> EndpointRow] /\ delivery' \in [Deliveries -> DeliveryRow]
  BY EndpointSteps, RowSteps
<1>2. batch' \in [Dispatchers -> Batch]
  <2>1. UNCHANGED batch \/ \E w \in Dispatchers : ClaimBatch(w) \/ WorkStep(w)
    BY DEF Next, DispatcherStep, WorkStep, CreateEndpoint, UpdateEndpoint, RemoveEndpoint,
       Fanout, LeaseElapses
  <2> QED
    BY <2>1, ClaimBatchIs, WorkStepIs DEF TypeOK
<1>3. received' \in [Deliveries -> Nat]
  <2>1. \/ UNCHANGED received
        \/ \E w \in Dispatchers :
             /\ batch[w].step # "idle"
             /\ received' = [received EXCEPT ![batch[w].call.delivery] = @ + 1]
    BY DEF Next, DispatcherStep, CreateEndpoint, UpdateEndpoint, RemoveEndpoint, Fanout,
       LeaseElapses, ClaimBatch, StartPost, Answer, MarkDelivered, CountFailure, Reschedule,
       DisableEndpoint, Throw, ProcessStops
  <2> QED
    BY <2>1, CallIs DEF TypeOK
<1>4. overruns' \in [Deliveries -> Nat] /\ takenBack' \in [Deliveries -> Nat]
  <2>1. \/ UNCHANGED overruns
        \/ \E d \in Deliveries : overruns' = [overruns EXCEPT ![d] = @ + 1]
    BY DEF Next, DispatcherStep, CreateEndpoint, UpdateEndpoint, RemoveEndpoint, Fanout,
       LeaseElapses, ClaimBatch, StartPost, Answer, MarkDelivered, CountFailure, Reschedule,
       DisableEndpoint, Throw, ProcessStops
  <2>2. \/ UNCHANGED takenBack
        \/ \E d : takenBack' = [takenBack EXCEPT ![d] = @ + 1]
    BY DEF Next, DispatcherStep, CreateEndpoint, UpdateEndpoint, RemoveEndpoint, Fanout,
       LeaseElapses, ClaimBatch, StartPost, Answer, MarkDelivered, CountFailure, Reschedule,
       DisableEndpoint, Throw, ProcessStops, Commits, SetDelivered, SetFailed, SetCount,
       SetDisabled, SetStatus
  <2> QED
    BY <2>1, <2>2 DEF TypeOK
<1>5. edits' \in 0..MaxEdits
  <2>1. UNCHANGED edits \/ (edits < MaxEdits /\ edits' = edits + 1)
    BY DEF Next, DispatcherStep, CreateEndpoint, UpdateEndpoint, RemoveEndpoint, Fanout,
       LeaseElapses, ClaimBatch, StartPost, Answer, MarkDelivered, CountFailure, Reschedule,
       DisableEndpoint, Throw, ProcessStops
  <2>2. edits \in 0..MaxEdits /\ MaxEdits \in Nat
    BY WebhookAssumption DEF TypeOK
  <2> QED
    BY <2>1, <2>2
<1>6. losses' \in 0..MaxLosses
  <2>1. UNCHANGED losses \/ (losses < MaxLosses /\ losses' = losses + 1)
    BY DEF Next, DispatcherStep, CreateEndpoint, UpdateEndpoint, RemoveEndpoint, Fanout,
       LeaseElapses, ClaimBatch, StartPost, Answer, MarkDelivered, CountFailure, Reschedule,
       DisableEndpoint, Throw, ProcessStops
  <2>2. losses \in 0..MaxLosses /\ MaxLosses \in Nat
    BY WebhookAssumption DEF TypeOK
  <2> QED
    BY <2>1, <2>2
<1> QED
  BY <1>1, <1>2, <1>3, <1>4, <1>5, <1>6 DEF TypeOK

(* Steps of the owner, the fan-out and time are nobody's hands' business. *)
LEMMA HandsSteps ==
    ASSUME Next
    PROVE  UNCHANGED batch \/ \E w \in Dispatchers : ClaimBatch(w) \/ WorkStep(w)
  BY DEF Next, DispatcherStep, WorkStep, CreateEndpoint, UpdateEndpoint, RemoveEndpoint,
     Fanout, LeaseElapses

LEMMA ClaimsAreClaims ==
    ASSUME TypeOK, NEW w \in Dispatchers, NEW c \in Claims(w)
    PROVE  c \in Claim /\ c.delivery \in Deliveries /\ c.attempts \in Nat /\ c.delivery \in Held(w)
<1>1. c \in Claim
  BY DEF TypeOK, Batch, Claims
<1> QED
  BY <1>1 DEF Claim, Held

(* A claim in somebody's hands was there before, or has just been made. *)
LEMMA ClaimsCome ==
    ASSUME TypeOK, HandsInOrder, Next, NEW w \in Dispatchers, NEW c \in Claims(w)'
    PROVE  \/ c \in Claims(w)
           \/ /\ ClaimBatch(w)
              /\ c.delivery \in Claimable
              /\ c.attempts = delivery[c.delivery].attempts + 1
              /\ delivery'[c.delivery] = ClaimedRow(c.delivery)
<1>1. CASE UNCHANGED batch
  BY <1>1 DEF Claims
<1>2. ASSUME NEW x \in Dispatchers, WorkStep(x)
      PROVE  c \in Claims(w)
  BY <1>2, WorkStepHands
<1>3. ASSUME NEW x \in Dispatchers, ClaimBatch(x), x # w
      PROVE  c \in Claims(w)
  BY <1>3, ClaimBatchIs DEF Claims
<1>4. ASSUME ClaimBatch(w)
      PROVE  /\ c.delivery \in Claimable
             /\ c.attempts = delivery[c.delivery].attempts + 1
             /\ delivery'[c.delivery] = ClaimedRow(c.delivery)
  <2>1. PICK claimed \in SUBSET Claimable :
          /\ batch'[w].rest =
               {[delivery |-> d, attempts |-> delivery[d].attempts + 1] : d \in claimed}
          /\ delivery' = [d \in Deliveries |->
               IF d \in claimed THEN ClaimedRow(d) ELSE delivery[d]]
    BY <1>4, ClaimBatchIs
  <2>2. batch'[w].call = NoCall
    BY <1>4, ClaimBatchIs
  <2>3. c \in batch'[w].rest
    BY <2>2 DEF Claims
  <2>4. PICK d \in claimed : c = [delivery |-> d, attempts |-> delivery[d].attempts + 1]
    BY <2>1, <2>3
  <2> QED
    BY <2>1, <2>4 DEF Claimable, SeenWithoutOrganization
<1> QED
  BY <1>1, <1>2, <1>3, <1>4, HandsSteps

LEMMA RowsStayInOrder ==
    ASSUME TypeOK, HandsInOrder, RowsInOrder, Next
    PROVE  RowsInOrder'
<1>1. ASSUME NEW d \in Deliveries
      PROVE  /\ delivery'[d].status = "none" => delivery'[d].attempts = 0
             /\ delivery'[d].status # "none" => endpoint'[EndpointOf[d]].status # "none"
             /\ delivery'[d].status \notin {"none", "removed"} => EndpointOf[d] \notin Gone'
  <2>1. RowStep(d) /\ EndpointOf[d] \in Endpoints
    BY RowSteps, WebhookAssumption
  <2>2. ASSUME delivery'[d].status = "none"
        PROVE  delivery'[d].attempts = 0
    <3>1. delivery[d].status = "none"
      BY <2>2, RowsAdvance
    <3> QED
      BY <2>1, <2>2, <3>1 DEF RowsInOrder, RowStep, RowStays, RowIsRemoved, RowIsInserted,
         RowIsClaimed, Claimable, SeenWithoutOrganization, RowIsDue, LeaseElapses,
         RowIsDelivered, RowIsRescheduled
  <2>3. delivery[d].status = "none" /\ delivery'[d].status # "none"
          => Exists(EndpointOf[d])
    BY <2>1, ClaimedRowIs
       DEF RowStep, RowStays, RowIsRemoved, RowIsInserted, Fanout, RowIsClaimed,
           Claimable, SeenWithoutOrganization, RowIsDue, LeaseElapses, RowIsDelivered, Exists, Open,
           RowIsRescheduled
  <2>4. delivery'[d].status # "none" => endpoint[EndpointOf[d]].status # "none"
    BY <2>1, <2>3 DEF RowsInOrder, Exists
  <2>5. delivery'[d].status # "none" => endpoint'[EndpointOf[d]].status # "none"
    BY <2>1, <2>4, EndpointSteps
  <2>6. delivery'[d].status \notin {"none", "removed"} => EndpointOf[d] \notin Gone
    BY <2>1, ClaimedRowIs
       DEF RowsInOrder, RowStep, RowStays, RowIsRemoved, RowIsInserted, Fanout, RowIsClaimed,
           Claimable, SeenWithoutOrganization, RowIsDue, LeaseElapses, RowIsDelivered, Exists, Gone, Open,
           RowIsRescheduled
  <2>7. ASSUME delivery'[d].status \notin {"none", "removed"}, NEW n \in Endpoints,
               RemoveEndpoint(n)
        PROVE  EndpointOf[d] # n
    <3>1. delivery'[d] = IF EndpointOf[d] = n /\ delivery[d].status # "none"
                         THEN [delivery[d] EXCEPT !.status = "removed"] ELSE delivery[d]
      BY <2>7 DEF RemoveEndpoint
    <3>2. [delivery[d] EXCEPT !.status = "removed"].status = "removed"
      BY DEF TypeOK, DeliveryRow
    <3> QED
      BY <2>7, <3>1, <3>2
  <2>8. delivery'[d].status \notin {"none", "removed"} => EndpointOf[d] \notin Gone'
    BY <2>6, <2>7, EndpointSteps
  <2> QED
    BY <2>2, <2>5, <2>8
<1>2. ASSUME NEW w \in Dispatchers, NEW c \in Claims(w)'
      PROVE  /\ delivery'[c.delivery].status # "none"
             /\ c.attempts <= delivery'[c.delivery].attempts
  <2>1. CASE c \in Claims(w)
    <3>1. /\ c.delivery \in Deliveries /\ c.attempts \in Nat
          /\ delivery[c.delivery].status # "none"
          /\ c.attempts <= delivery[c.delivery].attempts
      BY <2>1, ClaimsAreClaims DEF RowsInOrder
    <3>2. /\ delivery'[c.delivery].status # "none"
          /\ delivery'[c.delivery].attempts >= delivery[c.delivery].attempts
      BY <3>1, RowsAdvance
    <3>3. delivery[c.delivery].attempts \in Nat /\ delivery'[c.delivery].attempts \in Nat
      BY <3>1, RowSteps DEF TypeOK, DeliveryRow
    <3> QED
      BY <3>1, <3>2, <3>3
  <2>2. CASE /\ c.delivery \in Claimable
             /\ c.attempts = delivery[c.delivery].attempts + 1
             /\ delivery'[c.delivery] = ClaimedRow(c.delivery)
    <3>1. c.delivery \in Deliveries /\ delivery[c.delivery].status = "pending"
      BY <2>2 DEF Claimable, SeenWithoutOrganization
    <3>2. delivery[c.delivery].attempts \in Nat
      BY <3>1 DEF TypeOK, DeliveryRow
    <3> QED
      BY <2>2, <3>1, <3>2, ClaimedRowIs
  <2> QED
    BY <2>1, <2>2, ClaimsCome
<1> QED
  BY <1>1, <1>2 DEF RowsInOrder

LEMMA AttemptsGrow ==
    ASSUME TypeOK, HandsInOrder, RowsInOrder, Next, NEW d \in Deliveries
    PROVE  /\ delivery[d].attempts \in Nat /\ delivery'[d].attempts \in Nat
           /\ delivery'[d].attempts >= delivery[d].attempts
<1>1. delivery[d].attempts \in Nat /\ delivery'[d].attempts \in Nat
  BY RowSteps DEF TypeOK, DeliveryRow
<1>2. CASE delivery[d].status = "none"
  BY <1>1, <1>2 DEF RowsInOrder
<1>3. CASE delivery[d].status # "none"
  BY <1>1, <1>3, RowsAdvance
<1> QED
  BY <1>2, <1>3

(* Only an answer adds to what the receiver saw. *)
LEMMA ReceivedSteps ==
    ASSUME TypeOK, HandsInOrder, Next
    PROVE  UNCHANGED received \/ \E w \in Dispatchers : Answer(w)
  BY DEF Next, DispatcherStep, CreateEndpoint, UpdateEndpoint, RemoveEndpoint, Fanout,
     LeaseElapses, ClaimBatch, StartPost, MarkDelivered, CountFailure, Reschedule,
     DisableEndpoint, Throw, ProcessStops

LEMMA AnswerIs ==
    ASSUME TypeOK, HandsInOrder, NEW w \in Dispatchers, Answer(w)
    PROVE  /\ WorkStep(w) /\ batch[w].step = "posting"
           /\ batch'[w].rest = batch[w].rest /\ batch'[w].call = batch[w].call
           /\ \/ /\ received' = [received EXCEPT ![batch[w].call.delivery] = @ + 1]
                 /\ batch'[w].step \in {"accepted", "count"}
              \/ received' = received /\ batch'[w].step = "count"
           /\ delivery' = delivery
<1>1. \/ /\ received' = [received EXCEPT ![batch[w].call.delivery] = @ + 1]
         /\ \E step \in {"accepted", "count"}, caught \in BOOLEAN : Goes(w, step, caught)
      \/ received' = received /\ \E caught \in BOOLEAN : Goes(w, "count", caught)
  BY DEF Answer
<1> QED
  BY <1>1, GoesIs DEF Answer, WorkStep

LEMMA ReceivedGrows ==
    ASSUME TypeOK, HandsInOrder, Next, NEW d \in Deliveries
    PROVE  received[d] \in Nat /\ received'[d] \in Nat /\ received'[d] >= received[d]
<1>1. received \in [Deliveries -> Nat]
  BY DEF TypeOK
<1>2. ASSUME NEW w \in Dispatchers, Answer(w)
      PROVE  received'[d] \in Nat /\ received'[d] >= received[d]
  <2>1. \/ received' = [received EXCEPT ![batch[w].call.delivery] = @ + 1]
        \/ received' = received
    BY <1>2, AnswerIs
  <2> QED
    BY <1>1, <2>1
<1> QED
  BY <1>1, <1>2, ReceivedSteps

LEMMA ReceiptsStayCounted ==
    ASSUME TypeOK, HandsInOrder, RowsInOrder, ReceiptsCounted, Next
    PROVE  ReceiptsCounted'
<1>1. ASSUME NEW d \in Deliveries
      PROVE  /\ IsFiniteSet(Unanswered(d)')
             /\ received'[d] + Cardinality(Unanswered(d)') <= delivery'[d].attempts
  <2>1. /\ IsFiniteSet(Unanswered(d))
        /\ received[d] + Cardinality(Unanswered(d)) <= delivery[d].attempts
    BY DEF ReceiptsCounted
  <2>2. /\ delivery[d].attempts \in Nat /\ delivery'[d].attempts \in Nat
        /\ delivery'[d].attempts >= delivery[d].attempts
        /\ received[d] \in Nat /\ received'[d] \in Nat
    BY AttemptsGrow, ReceivedGrows
  <2>3. Cardinality(Unanswered(d)) \in Nat
    BY <2>1, FS_CardinalityType
  <2>4. ASSUME Unanswered(d)' \subseteq Unanswered(d), received'[d] = received[d]
        PROVE  /\ IsFiniteSet(Unanswered(d)')
               /\ received'[d] + Cardinality(Unanswered(d)') <= delivery'[d].attempts
    <3>1. /\ IsFiniteSet(Unanswered(d)')
          /\ Cardinality(Unanswered(d)') <= Cardinality(Unanswered(d))
      BY <2>1, <2>4, FS_Subset
    <3>2. Cardinality(Unanswered(d)') \in Nat
      BY <3>1, FS_CardinalityType
    <3> QED
      BY <2>1, <2>2, <2>3, <2>4, <3>1, <3>2
  <2>5. ASSUME NEW w \in Dispatchers, w \in Unanswered(d), w \notin Unanswered(d)',
               Unanswered(d)' \subseteq Unanswered(d), received'[d] <= received[d] + 1
        PROVE  /\ IsFiniteSet(Unanswered(d)')
               /\ received'[d] + Cardinality(Unanswered(d)') <= delivery'[d].attempts
    <3> DEFINE others == Unanswered(d) \ {w}
    <3>1. IsFiniteSet(others) /\ Cardinality(others) = Cardinality(Unanswered(d)) - 1
      BY <2>1, <2>5, FS_RemoveElement
    <3>2. Unanswered(d)' \subseteq others
      BY <2>5
    <3> HIDE DEF others
    <3>3. /\ IsFiniteSet(Unanswered(d)')
          /\ Cardinality(Unanswered(d)') <= Cardinality(others)
      BY <3>1, <3>2, FS_Subset
    <3>4. Cardinality(Unanswered(d)') \in Nat
      BY <3>3, FS_CardinalityType
    <3> QED
      BY <2>1, <2>2, <2>3, <2>5, <3>1, <3>3, <3>4
  <2>6. ASSUME NEW w \in Dispatchers, w \notin Unanswered(d),
               Unanswered(d)' \subseteq Unanswered(d) \cup {w}, received'[d] = received[d],
               delivery'[d].attempts = delivery[d].attempts + 1
        PROVE  /\ IsFiniteSet(Unanswered(d)')
               /\ received'[d] + Cardinality(Unanswered(d)') <= delivery'[d].attempts
    <3> DEFINE all == Unanswered(d) \cup {w}
    <3>1. IsFiniteSet(all) /\ Cardinality(all) = Cardinality(Unanswered(d)) + 1
      BY <2>1, <2>6, FS_AddElement
    <3>2. Unanswered(d)' \subseteq all
      BY <2>6
    <3> HIDE DEF all
    <3>3. /\ IsFiniteSet(Unanswered(d)')
          /\ Cardinality(Unanswered(d)') <= Cardinality(all)
      BY <3>1, <3>2, FS_Subset
    <3>4. Cardinality(Unanswered(d)') \in Nat
      BY <3>3, FS_CardinalityType
    <3> QED
      BY <2>1, <2>2, <2>3, <2>6, <3>1, <3>3, <3>4
  <2>7. CASE UNCHANGED batch
    <3>1. Unanswered(d)' \subseteq Unanswered(d)
      BY <2>7 DEF Unanswered
    <3>2. \A w \in Dispatchers : ~Answer(w)
      BY <2>7, AnswerIs DEF Unanswered
    <3> QED
      BY <2>4, <3>1, <3>2, ReceivedSteps
  <2>8. ASSUME NEW w \in Dispatchers, WorkStep(w)
        PROVE  Unanswered(d)' \subseteq Unanswered(d)
    BY <2>8, WorkStepIs, NoBatchIs
       DEF Unanswered, NextCall, SameCall, CallOver, BatchOver
  <2>9. ASSUME NEW w \in Dispatchers, Answer(w)
        PROVE  /\ IsFiniteSet(Unanswered(d)')
               /\ received'[d] + Cardinality(Unanswered(d)') <= delivery'[d].attempts
    <3>1. Unanswered(d)' \subseteq Unanswered(d)
      BY <2>8, <2>9, AnswerIs
    <3>2. CASE d # batch[w].call.delivery
      <4>1. received'[d] = received[d]
        BY <2>9, <3>2, AnswerIs DEF TypeOK
      <4> QED
        BY <2>4, <3>1, <4>1
    <3>3. CASE d = batch[w].call.delivery
      <4>1. w \in Unanswered(d)
        BY <2>9, <3>3, AnswerIs DEF Unanswered
      <4>2. batch[w].call \in Claims(w) /\ batch[w].call \notin batch[w].rest
        BY <2>9, AnswerIs, CallIs DEF HandsInOrder, InItsPlace
      <4>3. \A c \in batch[w].rest : c.delivery # d
        <5>1. batch[w].rest \subseteq Claim /\ NoCall \notin Claim
          BY NoCallAssumption DEF TypeOK, Batch
        <5>2. batch[w].rest \subseteq Claims(w)
          BY <5>1 DEF Claims
        <5> QED
          BY <3>3, <4>2, <5>2 DEF HandsInOrder, InItsPlace
      <4>4. w \notin Unanswered(d)'
        BY <2>9, <4>3, AnswerIs DEF Unanswered
      <4>5. received'[d] <= received[d] + 1
        BY <2>2, <2>9, <3>3, AnswerIs DEF TypeOK
      <4> QED
        BY <2>5, <3>1, <4>1, <4>4, <4>5
    <3> QED
      BY <3>2, <3>3
  <2>10. ASSUME NEW w \in Dispatchers, ClaimBatch(w)
         PROVE  /\ IsFiniteSet(Unanswered(d)')
                /\ received'[d] + Cardinality(Unanswered(d)') <= delivery'[d].attempts
    <3>1. PICK claimed \in SUBSET Claimable :
            /\ batch'[w].rest =
                 {[delivery |-> e, attempts |-> delivery[e].attempts + 1] : e \in claimed}
            /\ delivery' = [e \in Deliveries |->
                 IF e \in claimed THEN ClaimedRow(e) ELSE delivery[e]]
      BY <2>10, ClaimBatchIs
    <3>2. /\ \A other \in Dispatchers \ {w} : batch'[other] = batch[other]
          /\ batch[w] = NoBatch /\ batch'[w].step = "idle"
          /\ received'[d] = received[d]
      BY <2>10, ClaimBatchIs
    <3>3. Unanswered(d)' \subseteq Unanswered(d) \cup {w}
      BY <3>2 DEF Unanswered
    <3>4. w \notin Unanswered(d)
      BY <3>2, NoBatchIs DEF Unanswered
    <3>5. CASE d \in claimed
      BY <2>6, <3>1, <3>2, <3>3, <3>4, <3>5, ClaimedRowIs
    <3>6. CASE d \notin claimed
      <4>1. \A c \in batch'[w].rest : c.delivery # d
        BY <3>1, <3>6
      <4>2. w \notin Unanswered(d)'
        BY <3>2, <4>1 DEF Unanswered
      <4> QED
        BY <2>4, <3>2, <3>3, <4>2
    <3> QED
      BY <3>5, <3>6
  <2>11. ASSUME NEW w \in Dispatchers, WorkStep(w), \A x \in Dispatchers : ~Answer(x)
         PROVE  /\ IsFiniteSet(Unanswered(d)')
                /\ received'[d] + Cardinality(Unanswered(d)') <= delivery'[d].attempts
    BY <2>4, <2>8, <2>11, ReceivedSteps
  <2> QED
    BY <2>7, <2>9, <2>10, <2>11, HandsSteps
<1>2. ASSUME NEW d \in Deliveries, delivery'[d].status = "delivered"
      PROVE  received'[d] > 0
  <2>1. RowStep(d)
    BY RowSteps
  <2>2. delivery[d].status = "delivered" \/ \E w \in Dispatchers : RowIsDelivered(w, d)
    BY <1>2, <2>1, ClaimedRowIs
       DEF RowStep, RowStays, RowIsRemoved, RowIsInserted, RowIsClaimed, RowIsDue,
           RowIsRescheduled
  <2>3. received[d] > 0
    BY <2>2 DEF ReceiptsCounted, RowIsDelivered
  <2> QED
    BY <2>3, ReceivedGrows
<1>3. ASSUME NEW w \in Dispatchers, batch'[w].step = "accepted"
      PROVE  received'[batch'[w].call.delivery] > 0
  <2>1. CASE batch'[w] = batch[w]
    <3>1. batch[w].call.delivery \in Deliveries
      BY <1>3, <2>1, CallIs
    <3> QED
      BY <1>3, <2>1, <3>1, ReceivedGrows DEF ReceiptsCounted
  <2>2. CASE Answer(w)
    <3>1. /\ received' = [received EXCEPT ![batch[w].call.delivery] = @ + 1]
          /\ batch'[w].call = batch[w].call
      BY <1>3, <2>2, AnswerIs
    <3>2. batch[w].call.delivery \in Deliveries
      BY <2>2, AnswerIs, CallIs
    <3> QED
      BY <3>1, <3>2, ReceivedGrows DEF TypeOK
  <2>3. CASE WorkStep(w) /\ ~Answer(w)
    <3>1. batch \in [Dispatchers -> Batch]
      BY DEF TypeOK
    <3>2. CASE StartPost(w)
      BY <1>3, <3>1, <3>2 DEF StartPost, Batch
    <3>3. CASE MarkDelivered(w) \/ DisableEndpoint(w)
      BY <1>3, <3>3, FinishIs DEF MarkDelivered, DisableEndpoint
    <3>4. CASE CountFailure(w)
      BY <1>3, <3>1, <3>4 DEF CountFailure, Batch
    <3>5. CASE Reschedule(w)
      <4>1. Goes(w, "disable", batch[w].caught) \/ Finish(w)
        BY <3>5 DEF Reschedule
      <4>2. batch[w].caught \in BOOLEAN
        BY <3>1 DEF Batch
      <4> QED
        BY <1>3, <4>1, <4>2, GoesIs, FinishIs
    <3>6. CASE Throw(w) \/ ProcessStops(w)
      BY <1>3, <3>1, <3>6, NoBatchIs DEF Throw, ProcessStops, Batch
    <3> QED
      BY <2>3, <3>2, <3>3, <3>4, <3>5, <3>6 DEF WorkStep
  <2>4. CASE ClaimBatch(w)
    BY <1>3, <2>4, ClaimBatchIs
  <2> QED
    BY <2>1, <2>2, <2>3, <2>4, HandsSteps, ClaimBatchIs, WorkStepIs
<1> QED
  BY <1>1, <1>2, <1>3 DEF ReceiptsCounted

(* Only time adds to the deliveries whose lease has run out. *)
LEMMA OverrunSteps ==
    ASSUME TypeOK, Next
    PROVE  Overrun \subseteq Overrun'
<1>1. UNCHANGED overruns \/ \E d \in Deliveries : LeaseElapses(d)
  BY DEF Next, DispatcherStep, CreateEndpoint, UpdateEndpoint, RemoveEndpoint, Fanout,
     ClaimBatch, StartPost, Answer, MarkDelivered, CountFailure, Reschedule, DisableEndpoint,
     Throw, ProcessStops
<1>2. \A d \in Deliveries : overruns[d] # 0 => overruns'[d] # 0
  <2>1. CASE UNCHANGED overruns
    BY <2>1
  <2>2. ASSUME NEW d \in Deliveries, LeaseElapses(d)
        PROVE  \A e \in Deliveries : overruns[e] # 0 => overruns'[e] # 0
    <3>1. UNCHANGED overruns \/ overruns' = [overruns EXCEPT ![d] = @ + 1]
      BY <2>2 DEF LeaseElapses
    <3>2. overruns \in [Deliveries -> Nat]
      BY DEF TypeOK
    <3> QED
      BY <3>1, <3>2
  <2> QED
    BY <1>1, <2>1, <2>2
<1> QED
  BY <1>2 DEF Overrun

(* A failure being recorded is recorded to its end, or not at all. *)
LEMMA NoWayBack ==
    ASSUME TypeOK, NEW w \in Dispatchers, WorkStep(w),
           batch[w].step \in {"count", "reschedule", "disable"}
    PROVE  batch'[w].step \in {"idle", "count", "reschedule", "disable"}
<1>1. batch \in [Dispatchers -> Batch] /\ batch[w].caught \in BOOLEAN
  BY DEF TypeOK, Batch
<1>2. CASE StartPost(w) \/ Answer(w) \/ MarkDelivered(w)
  BY <1>2 DEF StartPost, Answer, MarkDelivered
<1>3. CASE CountFailure(w)
  BY <1>1, <1>3 DEF CountFailure, Batch
<1>4. CASE Reschedule(w)
  <2>1. Goes(w, "disable", batch[w].caught) \/ Finish(w)
    BY <1>4 DEF Reschedule
  <2> QED
    BY <1>1, <2>1, GoesIs, FinishIs
<1>5. CASE DisableEndpoint(w)
  BY <1>5, FinishIs DEF DisableEndpoint
<1>6. CASE Throw(w) \/ ProcessStops(w)
  BY <1>1, <1>6, NoBatchIs DEF Throw, ProcessStops, Batch
<1> QED
  BY <1>2, <1>3, <1>4, <1>5, <1>6 DEF WorkStep

(* A lease that runs out in a worker's hands is counted. *)
LEMMA LeaseRunsOut ==
    ASSUME TypeOK, NEW d \in Deliveries, LeaseElapses(d), NEW w \in Dispatchers, d \in Held(w)
    PROVE  d \in Overrun' /\ overruns'[d] = overruns[d] + 1
  BY DEF LeaseElapses, Overrun, TypeOK

LEMMA LeasesStayHeld ==
    ASSUME TypeOK, HandsInOrder, RowsInOrder, LeasesHold, Next
    PROVE  LeasesHold'
<1> SUFFICES ASSUME NEW w \in Dispatchers, NEW c \in Claims(w)', c.delivery \notin Overrun'
             PROVE  LeaseHolds(w, c)'
  BY DEF LeasesHold
<1> DEFINE d == c.delivery
<1>1. d \notin Overrun
  BY OverrunSteps
<1>2. ASSUME c \in Claims(w)
      PROVE  LeaseHolds(w, c)'
  <2>1. LeaseHolds(w, c) /\ d \in Deliveries /\ c \in Claim /\ d \in Held(w)
    BY <1>1, <1>2, ClaimsAreClaims DEF LeasesHold
  <2>2. d \notin Claimable
    BY <2>1 DEF LeaseHolds, Claimable, SeenWithoutOrganization
  <2>3. \A other \in Dispatchers \ {w} : d \notin Held(other)'
    <3> SUFFICES ASSUME NEW other \in Dispatchers \ {w}, NEW b \in Claims(other)', b.delivery = d
                 PROVE  FALSE
      BY DEF Held
    <3>1. b \in Claims(other)
      BY <2>2, ClaimsCome
    <3> QED
      BY <2>1, <3>1 DEF LeaseHolds, Held
  <2>4. /\ batch'[w] = batch[w] \/ WorkStep(w)
    <3>1. ~ClaimBatch(w)
      BY <1>2, ClaimBatchIs, EmptyHands
    <3> QED
      BY <3>1, HandsSteps, ClaimBatchIs, WorkStepIs
  <2>5. c = batch[w].call /\ batch[w].step \in {"count", "reschedule", "disable"}
          => c = batch'[w].call /\ batch'[w].step \in {"count", "reschedule", "disable"}
    <3> SUFFICES ASSUME c = batch[w].call, batch[w].step \in {"count", "reschedule", "disable"},
                        WorkStep(w)
                 PROVE  c = batch'[w].call /\ batch'[w].step \in {"count", "reschedule", "disable"}
      BY <2>4
    <3>1. SameCall(w)
      BY <1>2, WorkStepIs, WorkStepHands DEF NextCall
    <3> QED
      BY <3>1, NoWayBack DEF SameCall
  <2>6. \A x \in Dispatchers : d \in Held(x) => x = w
    BY <2>1 DEF LeaseHolds
  <2>7. \A b \in Claims(w) : b.delivery = d => b = c
    BY <1>2 DEF HandsInOrder, InItsPlace
  <2>8. RowStep(d)
    BY <2>1, RowSteps
  <2>9. CASE RowStays(d)
    BY <2>1, <2>3, <2>5, <2>9 DEF LeaseHolds, RowStays, Decided
  <2>10. CASE RowIsRemoved(d)
    BY <2>1, <2>3, <2>10 DEF LeaseHolds, RowIsRemoved
  <2>11. CASE RowIsInserted(d)
    BY <1>2, <2>11 DEF RowsInOrder, RowIsInserted
  <2>12. CASE \E x \in Dispatchers : RowIsClaimed(x, d)
    BY <2>2, <2>12 DEF RowIsClaimed
  <2>13. CASE RowIsDue(d)
    BY <2>1, <2>13, LeaseRunsOut DEF RowIsDue
  <2>14. ASSUME NEW x \in Dispatchers, RowIsDelivered(x, d) \/ RowIsRescheduled(x, d)
         PROVE  LeaseHolds(w, c)'
    <3>1. /\ WorkStep(x) /\ batch[x].call.delivery = d
          /\ batch[x].step \in {"accepted", "reschedule"}
      BY <2>14 DEF RowIsDelivered, RowIsRescheduled, WorkStep
    <3>2. d \in Held(x) /\ batch[x].call \in Claims(x)
      BY <3>1, CallIs
    <3>3. x = w /\ batch[w].call = c
      BY <2>6, <2>7, <3>1, <3>2
    <3>4. batch'[w].call = c /\ batch'[w].step \in {"count", "reschedule", "disable"}
      <4>1. SameCall(w)
        BY <1>2, <3>1, <3>3, WorkStepIs, WorkStepHands DEF NextCall
      <4>2. batch'[w].call = c /\ batch'[w].step # "idle"
        BY <3>3, <4>1 DEF SameCall
      <4>3. MarkDelivered(w) \/ Reschedule(w) \/ Throw(w)
        BY <2>14, <3>3 DEF RowIsDelivered, RowIsRescheduled
      <4>4. ~Finish(w)
        BY <4>2, FinishIs
      <4>5. batch[w].caught \in BOOLEAN /\ batch \in [Dispatchers -> Batch]
        BY DEF TypeOK, Batch
      <4>6. CASE Goes(w, "disable", batch[w].caught)
        BY <4>2, <4>5, <4>6, GoesIs
      <4>7. CASE Throw(w)
        BY <4>2, <4>5, <4>7, NoBatchIs DEF Throw, Batch
      <4> QED
        BY <4>3, <4>4, <4>6, <4>7 DEF MarkDelivered, Reschedule
    <3>5. /\ delivery'[d].status \in {"pending", "delivered", "failed"}
          /\ delivery'[d].attempts = delivery[d].attempts /\ ~delivery'[d].due
      BY <2>14 DEF RowIsDelivered, RowIsRescheduled
    <3> QED
      BY <2>1, <2>3, <3>4, <3>5 DEF LeaseHolds, Decided
  <2> QED
    BY <2>8, <2>9, <2>10, <2>11, <2>12, <2>13, <2>14 DEF RowStep
<1>3. ASSUME ClaimBatch(w), d \in Claimable, c.attempts = delivery[d].attempts + 1,
             delivery'[d] = ClaimedRow(d)
      PROVE  LeaseHolds(w, c)'
  <2>1. d \in Deliveries /\ delivery[d].status = "pending" /\ delivery[d].due
    BY <1>3 DEF Claimable, SeenWithoutOrganization
  <2>2. /\ delivery'[d].status = "pending" /\ ~delivery'[d].due
        /\ delivery'[d].attempts = c.attempts
    BY <1>3, <2>1, ClaimedRowIs
  <2>3. \A other \in Dispatchers \ {w} : Held(other)' = Held(other)
    BY <1>3, ClaimBatchIs DEF Held, Claims
  <2>4. \A other \in Dispatchers : d \notin Held(other)
    <3> SUFFICES ASSUME NEW other \in Dispatchers, NEW b \in Claims(other), b.delivery = d
                 PROVE  FALSE
      BY DEF Held
    <3> QED
      BY <1>1, <2>1 DEF LeasesHold, LeaseHolds
  <2> QED
    BY <2>2, <2>3, <2>4 DEF LeaseHolds
<1> QED
  BY <1>2, <1>3, ClaimsCome

(* The limit follows what is lost: it grows by one with every loss, and     *)
(* with every endpoint removed.                                             *)
LEMMA LimitGrows ==
    ASSUME TypeOK, HandsInOrder, IsFiniteSet(Gone), Next
    PROVE  /\ IsFiniteSet(Gone')
           /\ AttemptLimit \in Nat /\ AttemptLimit' \in Nat
           /\ MaxAttempts <= AttemptLimit /\ AttemptLimit <= AttemptLimit'
           /\ Gone' # Gone \/ losses' = losses + 1 => AttemptLimit < AttemptLimit'
<1>1. losses \in Nat /\ MaxAttempts \in Nat
  BY WebhookAssumption DEF TypeOK
<1>2. losses' \in {losses, losses + 1}
  BY DEF Next, DispatcherStep, CreateEndpoint, UpdateEndpoint, RemoveEndpoint, Fanout,
     LeaseElapses, ClaimBatch, StartPost, Answer, MarkDelivered, CountFailure, Reschedule,
     DisableEndpoint, Throw, ProcessStops
<1>3. Cardinality(Gone) \in Nat
  BY FS_CardinalityType
<1>4. CASE Gone' = Gone
  BY <1>1, <1>2, <1>3, <1>4 DEF AttemptLimit
<1>5. ASSUME NEW n \in Endpoints, n \notin Gone, Gone' = Gone \cup {n}
      PROVE  /\ IsFiniteSet(Gone')
             /\ Cardinality(Gone') = Cardinality(Gone) + 1
  BY <1>5, FS_AddElement
<1>6. CASE Gone' # Gone
  <2>1. IsFiniteSet(Gone') /\ Cardinality(Gone') = Cardinality(Gone) + 1
    BY <1>5, <1>6, EndpointSteps
  <2> QED
    BY <1>1, <1>2, <1>3, <2>1 DEF AttemptLimit
<1> QED
  BY <1>4, <1>6

(* Only a claim uses up an attempt. *)
LEMMA AttemptsSteps ==
    ASSUME TypeOK, HandsInOrder, RowsInOrder, Next, NEW d \in Deliveries
    PROVE  \/ delivery'[d].attempts = delivery[d].attempts
           \/ \E w \in Dispatchers : RowIsClaimed(w, d)
<1>1. RowStep(d)
  BY RowSteps
<1> QED
  BY <1>1 DEF RowsInOrder, RowStep, RowStays, RowIsRemoved, RowIsInserted, RowIsDue,
     RowIsDelivered, RowIsRescheduled

(* A worker that lets go of a claim has decided the delivery or left it an  *)
(* attempt, or has cost it a loss.                                          *)
LEMMA LettingGo ==
    ASSUME TypeOK, HandsInOrder, RowsInOrder, LeasesHold, AttemptsCounted, Next,
           NEW w \in Dispatchers, NEW d \in Deliveries \ Overrun', WorkStep(w),
           d \in Held(w), d \notin Held(w)', delivery'[d].status = "pending"
    PROVE  delivery'[d].attempts < AttemptLimit'
<1>1. PICK c \in Claims(w) : c.delivery = d
  BY DEF Held
<1>2. d \notin Overrun /\ LeaseHolds(w, c)
  BY <1>1, OverrunSteps DEF LeasesHold
<1>3. /\ AttemptLimit \in Nat /\ AttemptLimit' \in Nat /\ MaxAttempts \in Nat
      /\ MaxAttempts <= AttemptLimit /\ AttemptLimit <= AttemptLimit'
      /\ Gone' # Gone \/ losses' = losses + 1 => AttemptLimit < AttemptLimit'
  BY LimitGrows, WebhookAssumption DEF AttemptsCounted
<1>4. delivery[d].attempts \in Nat /\ delivery'[d].attempts \in Nat
  BY AttemptsGrow
<1>5. batch \in [Dispatchers -> Batch]
  BY DEF TypeOK
<1>6. ~NextCall(w) /\ ~SameCall(w) /\ c \notin Claims(w)'
  BY <1>1, WorkStepHands DEF Held
<1>7. delivery'[d] = delivery[d] =>
        /\ delivery[d].status = "pending"
        /\ delivery[d].attempts <= AttemptLimit
  BY <1>2 DEF AttemptsCounted
<1>8. CASE StartPost(w) \/ Answer(w) \/ CountFailure(w)
  <2>1. ~CallOver(w) /\ ~BatchOver(w)
    <3>1. CASE StartPost(w)
      BY <3>1, CallGoesOn, NoBatchIs DEF CallOver, BatchOver
    <3>2. CASE Answer(w)
      BY <3>2, AnswerIs, NoBatchIs DEF CallOver, BatchOver
    <3>3. CASE CountFailure(w)
      BY <3>3, CallGoesOn, NoBatchIs DEF CallOver, BatchOver
    <3> QED
      BY <1>8, <3>1, <3>2, <3>3
  <2> QED
    BY <1>6, <2>1, WorkStepIs
<1>9. ASSUME Finish(w), batch[w].step # "idle"
      PROVE  c = batch[w].call
  <2>1. CallOver(w)
    BY <1>9, FinishIs DEF CallOver
  <2> QED
    BY <1>1, <1>6, <2>1, WorkStepHands
<1>10. CASE MarkDelivered(w)
  <2>1. c = batch[w].call /\ batch[w].step # "idle"
    BY <1>9, <1>10 DEF MarkDelivered
  <2>2. delivery' = [delivery EXCEPT ![d].status = "delivered", ![d].due = FALSE]
    BY <1>1, <1>10, <2>1 DEF MarkDelivered, SetDelivered, SetStatus
  <2> QED
    BY <2>2 DEF TypeOK, DeliveryRow
<1>11. CASE Reschedule(w)
  <2>1. Finish(w) /\ batch[w].step # "idle"
    <3>1. batch[w].caught \in BOOLEAN /\ batch[w].step = "reschedule"
      BY <1>5, <1>11 DEF Batch, Reschedule
    <3>2. ~Goes(w, "disable", batch[w].caught)
      BY <1>6, <3>1, GoesIs DEF SameCall
    <3> QED
      BY <1>11, <3>1, <3>2 DEF Reschedule
  <2>2. c = batch[w].call
    BY <1>9, <2>1
  <2>3. delivery' = [delivery EXCEPT
          ![d].status = IF Exhausted(c) THEN "failed" ELSE "pending", ![d].due = FALSE]
    BY <1>1, <1>11, <2>2 DEF Reschedule, SetFailed, SetStatus
  <2>4. ~Exhausted(c) /\ delivery'[d].attempts = delivery[d].attempts
    BY <2>3 DEF TypeOK, DeliveryRow
  <2>5. delivery[d].attempts < MaxAttempts
    BY <1>1, <1>2, <1>3, <1>4, <2>4 DEF LeaseHolds, Exhausted
  <2> QED
    BY <1>3, <1>4, <2>4, <2>5
<1>12. CASE DisableEndpoint(w)
  <2>1. batch[w].step = "disable" /\ Finish(w) /\ delivery' = delivery
    BY <1>12 DEF DisableEndpoint, SetDisabled
  <2>2. batch[w].call.delivery = d
    BY <1>1, <1>9, <2>1
  <2>3. delivery[d].attempts < MaxAttempts
    BY <1>2, <2>1, <2>2 DEF AttemptsCounted
  <2> QED
    BY <1>3, <1>4, <2>1, <2>3
<1>13. CASE ProcessStops(w)
  BY <1>3, <1>4, <1>7, <1>13 DEF ProcessStops
<1>14. CASE Throw(w)
  <2> DEFINE n == EndpointOf[batch[w].call.delivery]
  <2>1. batch[w].step # "idle"
    BY <1>14 DEF Throw, Statements
  <2>2. CASE Exists(n)
    <3>1. losses' = losses + 1
      BY <1>14, <2>2 DEF Throw
    <3>2. delivery[d].attempts <= AttemptLimit
      BY <1>2 DEF AttemptsCounted
    <3>3. delivery'[d].attempts = delivery[d].attempts
      <4>1. \A x \in Dispatchers : ~RowIsClaimed(x, d)
        BY <1>1, <1>2 DEF RowIsClaimed, Claimable, SeenWithoutOrganization, LeaseHolds
      <4> QED
        BY <4>1, AttemptsSteps
    <3> QED
      BY <1>3, <1>4, <3>1, <3>2, <3>3
  <2>3. CASE ~Exists(n)
    <3>0. delivery' = delivery
      BY <1>14, <2>3 DEF Throw, Commits
    <3>1. /\ batch[w].call \in Claims(w) /\ n \in Endpoints
          /\ batch[w].call.delivery \in Deliveries
      BY <2>1, CallIs
    <3>2. endpoint[n].status # "none"
      BY <3>1 DEF RowsInOrder
    <3>3. endpoint[n].status \in {"none", "active", "inactive", "removed"}
      BY <3>1 DEF TypeOK, EndpointRow
    <3>4. n \in Gone
      BY <2>3, <3>1, <3>2, <3>3 DEF Exists, Gone
    <3>5. delivery[d].attempts < AttemptLimit
      BY <1>2, <3>0, <3>1, <3>4 DEF AttemptsCounted
    <3> QED
      BY <1>3, <1>4, <3>0, <3>5
  <2> QED
    BY <2>2, <2>3
<1> QED
  BY <1>8, <1>10, <1>11, <1>12, <1>13, <1>14 DEF WorkStep

(* A worker records a failure for a retry only while an attempt is left. *)
LEMMA RetryHasAnAttempt ==
    ASSUME TypeOK, HandsInOrder, LeasesHold, NEW w \in Dispatchers,
           NEW d \in Deliveries \ Overrun,
           RowIsRescheduled(w, d), delivery'[d].status = "pending"
    PROVE  delivery'[d].attempts < MaxAttempts
<1>1. batch[w].call \in Claims(w) /\ batch[w].call.delivery = d /\ batch[w].call \in Claim
  BY CallIs DEF RowIsRescheduled
<1>2. batch[w].call.attempts = delivery[d].attempts
  BY <1>1 DEF LeasesHold, LeaseHolds
<1>3. ~(batch[w].call.attempts >= MaxAttempts) /\ delivery'[d].attempts = delivery[d].attempts
  BY DEF RowIsRescheduled, Exhausted
<1>4. batch[w].call.attempts \in Nat /\ MaxAttempts \in Nat
  BY <1>1, WebhookAssumption DEF Claim
<1> QED
  BY <1>2, <1>3, <1>4

LEMMA AttemptsStayCounted ==
    ASSUME TypeOK, HandsInOrder, RowsInOrder, LeasesHold, AttemptsCounted, Next
    PROVE  AttemptsCounted'
<1>1. /\ IsFiniteSet(Gone')
      /\ AttemptLimit \in Nat /\ AttemptLimit' \in Nat /\ MaxAttempts \in Nat \ {0}
      /\ MaxAttempts <= AttemptLimit /\ AttemptLimit <= AttemptLimit'
      /\ Gone' # Gone => AttemptLimit < AttemptLimit'
  BY LimitGrows, WebhookAssumption DEF AttemptsCounted
<1>2. ASSUME NEW d \in Deliveries, delivery'[d].status = "failed"
      PROVE  delivery'[d].attempts >= MaxAttempts
  <2>1. delivery[d].attempts \in Nat /\ delivery'[d].attempts \in Nat
        /\ delivery'[d].attempts >= delivery[d].attempts
    BY AttemptsGrow
  <2>2. RowStep(d)
    BY RowSteps
  <2>3. CASE delivery[d].status = "failed"
    BY <1>1, <2>1, <2>3 DEF AttemptsCounted
  <2>4. ASSUME NEW w \in Dispatchers, RowIsRescheduled(w, d)
        PROVE  delivery'[d].attempts >= MaxAttempts
    <3>1. Exhausted(batch[w].call) /\ batch[w].step # "idle" /\ batch[w].call.delivery = d
      BY <1>2, <2>4 DEF RowIsRescheduled
    <3>2. batch[w].call \in Claims(w) /\ batch[w].call.attempts \in Nat
      BY <3>1, CallIs DEF Claim
    <3>3. batch[w].call.attempts <= delivery[d].attempts
      BY <3>1, <3>2 DEF RowsInOrder
    <3> QED
      BY <1>1, <2>1, <3>1, <3>2, <3>3 DEF Exhausted
  <2> QED
    BY <1>2, <2>2, <2>3, <2>4, ClaimedRowIs
       DEF RowStep, RowStays, RowIsRemoved, RowIsInserted, RowIsClaimed, RowIsDue,
           RowIsDelivered
<1>3. ASSUME NEW d \in Deliveries \ Overrun'
      PROVE  /\ delivery'[d].attempts <= AttemptLimit'
             /\ delivery'[d].status = "pending" =>
                  /\ (\A w \in Dispatchers : d \notin Held(w)')
                       => delivery'[d].attempts < AttemptLimit'
                  /\ \A w \in Dispatchers :
                       /\ d \in Held(w)' /\ (\E c \in Claims(w)' : EndpointOf[c.delivery] \in Gone')
                            => delivery'[d].attempts < AttemptLimit'
                       /\ batch'[w].step = "disable" /\ batch'[w].call.delivery = d
                            => delivery'[d].attempts < MaxAttempts
  <2>1. d \notin Overrun
    BY OverrunSteps
  <2>2. delivery[d].attempts \in Nat /\ delivery'[d].attempts \in Nat
    BY AttemptsGrow
  <2>3. delivery[d].attempts <= AttemptLimit
    BY <2>1 DEF AttemptsCounted
  <2>4. d \in Claimable => \A w \in Dispatchers : d \notin Held(w)
    <3> SUFFICES ASSUME d \in Claimable, NEW w \in Dispatchers,
                        NEW c \in Claims(w), c.delivery = d
                 PROVE  FALSE
      BY DEF Held
    <3> QED
      BY <2>1 DEF LeasesHold, LeaseHolds, Claimable, SeenWithoutOrganization
  <2>5. d \in Claimable => delivery[d].attempts < AttemptLimit
    BY <2>1, <2>4 DEF AttemptsCounted, Claimable, SeenWithoutOrganization
  <2>6. delivery'[d].attempts <= AttemptLimit'
    <3>1. CASE delivery'[d].attempts = delivery[d].attempts
      BY <1>1, <2>2, <2>3, <3>1
    <3>2. ASSUME NEW w \in Dispatchers, RowIsClaimed(w, d)
          PROVE  delivery'[d].attempts <= AttemptLimit'
      BY <1>1, <2>2, <2>5, <3>2, ClaimedRowIs DEF RowIsClaimed
    <3> QED
      BY <3>1, <3>2, AttemptsSteps
  <2>7. RowStep(d)
    BY RowSteps
  <2>8. ASSUME NEW w \in Dispatchers, RowIsRescheduled(w, d), delivery'[d].status = "pending"
        PROVE  delivery'[d].attempts < MaxAttempts /\ delivery'[d].attempts < AttemptLimit'
    <3>1. delivery'[d].attempts < MaxAttempts
      BY <2>1, <2>8, RetryHasAnAttempt
    <3> QED
      BY <1>1, <2>2, <3>1
  <2>9. ASSUME delivery'[d].status = "pending", delivery[d].status # "pending",
               \A w \in Dispatchers : ~RowIsRescheduled(w, d)
        PROVE  delivery[d].status = "none" /\ delivery'[d].attempts = 0 /\ UNCHANGED batch
    BY <2>7, <2>9, ClaimedRowIs
       DEF RowStep, RowStays, RowIsRemoved, RowIsInserted, Fanout, RowIsClaimed, Claimable, SeenWithoutOrganization,
           RowIsDue, RowIsDelivered
  <2>10. ASSUME delivery'[d].status = "pending", \A w \in Dispatchers : d \notin Held(w)'
         PROVE  delivery'[d].attempts < AttemptLimit'
    <3>1. ASSUME NEW w \in Dispatchers
          PROVE  ~RowIsClaimed(w, d)
      <4>1. batch'[w].rest \subseteq Claims(w)' \/ ~RowIsClaimed(w, d)
        <5>1. RowIsClaimed(w, d) => batch'[w].rest \subseteq Claim
          BY ClaimBatchIs DEF RowIsClaimed, Batch
        <5> QED
          BY <5>1 DEF Claims
      <4> QED
        BY <2>10, <4>1 DEF RowIsClaimed, Held
    <3>2. delivery'[d].attempts = delivery[d].attempts
      BY <3>1, AttemptsSteps
    <3>3. CASE delivery[d].status # "pending"
      BY <1>1, <2>8, <2>9, <2>10, <3>3
    <3>4. CASE delivery[d].status = "pending" /\ \A w \in Dispatchers : d \notin Held(w)
      BY <1>1, <2>1, <2>2, <3>2, <3>4 DEF AttemptsCounted
    <3>5. ASSUME NEW w \in Dispatchers, d \in Held(w)
          PROVE  delivery'[d].attempts < AttemptLimit'
      <4>1. WorkStep(w)
        <5>1. ~ClaimBatch(w)
          BY <3>5, ClaimBatchIs, EmptyHands
        <5>2. batch'[w] # batch[w]
          BY <2>10, <3>5 DEF Held, Claims
        <5> QED
          BY <5>1, <5>2, HandsSteps, ClaimBatchIs, WorkStepIs
      <4> QED
        BY <2>10, <3>5, <4>1, LettingGo
    <3> QED
      BY <3>3, <3>4, <3>5
  <2>11. ASSUME delivery'[d].status = "pending", NEW w \in Dispatchers,
                d \in Held(w)', NEW c \in Claims(w)', EndpointOf[c.delivery] \in Gone'
         PROVE  delivery'[d].attempts < AttemptLimit'
    <3>1. PICK b \in Claims(w)' : b.delivery = d
      BY <2>11 DEF Held
    <3>2. CASE ClaimBatch(w)
      <4>1. c \notin Claims(w)
        BY <3>2, ClaimBatchIs, EmptyHands
      <4>2. Open(EndpointOf[c.delivery]) /\ endpoint' = endpoint
        BY <3>2, <4>1, ClaimsCome, ClaimBatchIs DEF Claimable, SeenWithoutOrganization
      <4> QED
        BY <2>11, <4>2 DEF Open, Gone
    <3>3. CASE ~ClaimBatch(w)
      <4>1. b \in Claims(w) /\ c \in Claims(w)
        BY <3>1, <3>3, ClaimsCome
      <4>2. d \in Held(w) /\ delivery[d].status # "none" /\ d \notin Claimable
        BY <2>4, <3>1, <4>1 DEF Held, RowsInOrder
      <4>3. delivery'[d].attempts = delivery[d].attempts
        BY <4>2, AttemptsSteps DEF RowIsClaimed
      <4>4. CASE delivery[d].status # "pending"
        BY <2>8, <2>9, <2>11, <4>2, <4>4
      <4>5. CASE Gone' # Gone
        BY <1>1, <2>2, <2>3, <4>3, <4>5
      <4>6. CASE delivery[d].status = "pending" /\ Gone' = Gone
        <5>1. delivery[d].attempts < AttemptLimit
          BY <2>1, <2>11, <4>1, <4>2, <4>6 DEF AttemptsCounted
        <5> QED
          BY <1>1, <2>2, <4>3, <5>1
      <4> QED
        BY <4>4, <4>5, <4>6
    <3> QED
      BY <3>2, <3>3
  <2>12. ASSUME delivery'[d].status = "pending", NEW w \in Dispatchers,
                batch'[w].step = "disable", batch'[w].call.delivery = d
         PROVE  delivery'[d].attempts < MaxAttempts
    <3>1. CASE batch'[w] = batch[w]
      <4>1. d \in Held(w) /\ batch[w].call \in Claims(w) /\ batch[w].call.delivery = d
        BY <2>12, <3>1, CallIs
      <4>2. delivery[d].status # "none" /\ d \notin Claimable
        BY <2>4, <4>1 DEF RowsInOrder
      <4>3. delivery'[d].attempts = delivery[d].attempts
        BY <4>2, AttemptsSteps DEF RowIsClaimed
      <4>4. CASE delivery[d].status # "pending"
        BY <2>8, <2>9, <2>12, <4>2, <4>4
      <4>5. CASE delivery[d].status = "pending"
        <5>1. delivery[d].attempts < MaxAttempts
          BY <2>1, <2>12, <3>1, <4>5 DEF AttemptsCounted
        <5> QED
          BY <4>3, <5>1
      <4> QED
        BY <4>4, <4>5
    <3>2. CASE Reschedule(w)
      <4>1. batch[w].step = "reschedule" /\ batch[w].caught \in BOOLEAN
        BY <3>2 DEF Reschedule, TypeOK, Batch
      <4>2. Goes(w, "disable", batch[w].caught) \/ Finish(w)
        BY <3>2 DEF Reschedule
      <4>3. batch[w].call.delivery = d
        BY <2>12, <4>1, <4>2, GoesIs, FinishIs
      <4>4. delivery' = [delivery EXCEPT
              ![d].status = IF Exhausted(batch[w].call) THEN "failed" ELSE "pending",
              ![d].due = FALSE]
        BY <3>2, <4>3 DEF Reschedule, SetFailed, SetStatus
      <4>5. RowIsRescheduled(w, d)
        <5>1. delivery \in [Deliveries -> DeliveryRow]
          BY DEF TypeOK
        <5>2. /\ delivery'[d].status = IF Exhausted(batch[w].call) THEN "failed" ELSE "pending"
              /\ delivery'[d].attempts = delivery[d].attempts
              /\ delivery'[d].due = FALSE
          BY <4>4, <5>1 DEF DeliveryRow
        <5> QED
          BY <3>2, <4>1, <4>3, <5>2 DEF RowIsRescheduled, Reschedule
      <4> QED
        BY <2>8, <2>12, <4>5
    <3>3. CASE ClaimBatch(w)
      BY <2>12, <3>3, ClaimBatchIs
    <3>4. CASE WorkStep(w) /\ ~Reschedule(w)
      <4>1. batch \in [Dispatchers -> Batch]
        BY DEF TypeOK
      <4>2. CASE StartPost(w) \/ CountFailure(w)
        BY <2>12, <4>2, CallGoesOn
      <4>3. CASE Answer(w)
        BY <2>12, <4>3, AnswerIs
      <4>4. CASE MarkDelivered(w) \/ DisableEndpoint(w)
        BY <2>12, <4>4, FinishIs DEF MarkDelivered, DisableEndpoint
      <4>5. CASE Throw(w) \/ ProcessStops(w)
        BY <2>12, <4>1, <4>5, NoBatchIs DEF Throw, ProcessStops, Batch
      <4> QED
        BY <3>4, <4>2, <4>3, <4>4, <4>5 DEF WorkStep
    <3> QED
      BY <3>1, <3>2, <3>3, <3>4, HandsSteps, ClaimBatchIs, WorkStepIs
  <2> QED
    BY <2>6, <2>10, <2>11, <2>12
<1> QED
  BY <1>1, <1>2, <1>3 DEF AttemptsCounted

(* A worker's own step adds it to those still to record only when it throws *)
(* with its endpoint there, which is a loss.                                *)
LEMMA StillSteps ==
    ASSUME TypeOK, HandsInOrder, RowsInOrder, Next, NEW w \in Dispatchers, WorkStep(w),
           NEW d \in Deliveries
    PROVE  /\ StillToRecord(d)' \subseteq StillToRecord(d) \cup {w}
           /\ \/ Throw(w) /\ losses' = losses + 1
              \/ StillToRecord(d)' \subseteq StillToRecord(d)
<1>1. /\ batch \in [Dispatchers -> Batch]
      /\ \A other \in Dispatchers \ {w} : batch'[other] = batch[other]
      /\ NextCall(w) \/ SameCall(w) \/ CallOver(w) \/ BatchOver(w)
  BY WorkStepIs DEF TypeOK
<1>2. Gone \subseteq Gone'
  BY EndpointSteps
<1>3. StillToRecord(d)' \subseteq StillToRecord(d) \cup {w}
  BY <1>1, <1>2 DEF StillToRecord
<1>4. CASE ~Throw(w)
  <2> SUFFICES ASSUME w \in StillToRecord(d)'
               PROVE  w \in StillToRecord(d)
    BY <1>3
  <2>1. CASE NextCall(w)
    BY <1>2, <2>1 DEF StillToRecord, NextCall
  <2>2. CASE SameCall(w)
    <3>1. batch[w].step # "disable"
      <4>1. CASE DisableEndpoint(w) \/ ProcessStops(w)
        <5>1. batch'[w].step = "idle"
          BY <1>1, <4>1, FinishIs, NoBatchIs DEF DisableEndpoint, ProcessStops
        <5> QED
          BY <2>2, <5>1 DEF SameCall
      <4>2. CASE StartPost(w) \/ Answer(w) \/ MarkDelivered(w) \/ CountFailure(w) \/ Reschedule(w)
        BY <4>2 DEF StartPost, Answer, MarkDelivered, CountFailure, Reschedule
      <4> QED
        BY <1>4, <4>1, <4>2 DEF WorkStep
    <3>2. batch[w].step \in {"posting", "accepted", "count", "reschedule"}
      BY <1>1, <2>2, <3>1 DEF SameCall, Batch
    <3> QED
      BY <1>2, <2>2, <3>2 DEF StillToRecord, SameCall
  <2>3. CASE CallOver(w)
    BY <1>2, <2>3 DEF StillToRecord, CallOver
  <2>4. CASE BatchOver(w)
    BY <2>4, NoBatchIs DEF StillToRecord, BatchOver
  <2> QED
    BY <1>1, <2>1, <2>2, <2>3, <2>4
<1>5. CASE Throw(w) /\ losses' # losses + 1
  <2> DEFINE n == EndpointOf[batch[w].call.delivery]
  <2>1. batch[w].step # "idle" /\ ~Exists(n)
    BY <1>5 DEF Throw, Statements
  <2>2. batch[w].call \in Claims(w) /\ n \in Endpoints /\ batch[w].call.delivery \in Deliveries
    BY <2>1, CallIs
  <2>3. endpoint[n].status # "none"
    BY <2>2 DEF RowsInOrder
  <2>4. endpoint[n].status \in {"none", "active", "inactive", "removed"}
    BY <2>2 DEF TypeOK, EndpointRow
  <2>5. n \in Gone
    BY <2>1, <2>2, <2>3, <2>4 DEF Exists, Gone
  <2>6. \/ batch' = [batch EXCEPT ![w] = NoBatch]
        \/ batch' = [batch EXCEPT ![w].step = "count", ![w].caught = TRUE, ![w].stop = FALSE]
    BY <1>5 DEF Throw
  <2>7. \/ batch'[w] = NoBatch
        \/ batch'[w].rest = batch[w].rest /\ batch'[w].call = batch[w].call
    BY <1>1, <2>6 DEF Batch
  <2>8. w \in StillToRecord(d)' => w \in StillToRecord(d)
    BY <1>2, <2>5, <2>7, NoBatchIs DEF StillToRecord
  <2> QED
    BY <1>3, <2>8
<1> QED
  BY <1>3, <1>4, <1>5

(* A worker that records an outcome without throwing is done with it. *)
LEMMA RecordedOnce ==
    ASSUME TypeOK, HandsInOrder, NEW w \in Dispatchers, NEW d \in Deliveries,
           MarkDelivered(w) \/ Reschedule(w), batch[w].call.delivery = d
    PROVE  w \notin StillToRecord(d)'
<1>1. batch[w].step \in {"accepted", "reschedule"} /\ batch[w].caught \in BOOLEAN
  BY DEF MarkDelivered, Reschedule, TypeOK, Batch
<1>2. Finish(w) \/ Goes(w, "disable", batch[w].caught)
  BY DEF MarkDelivered, Reschedule
<1>3. batch'[w].rest = batch[w].rest /\ batch'[w].step \in {"idle", "disable"}
  BY <1>1, <1>2, FinishIs, GoesIs
<1>4. \A c \in batch[w].rest : c.delivery # d
  <2>1. batch[w].call \in Claims(w) /\ batch[w].call \notin batch[w].rest
    BY <1>1, CallIs DEF HandsInOrder, InItsPlace
  <2>2. batch[w].rest \subseteq Claims(w)
    BY DEF Claims
  <2> QED
    BY <2>1, <2>2 DEF HandsInOrder, InItsPlace
<1> QED
  BY <1>3, <1>4 DEF StillToRecord

(* What was decided is taken back by a record, one at a time. *)
LEMMA TakenBackSteps ==
    ASSUME TypeOK, HandsInOrder, Next, NEW d \in Deliveries
    PROVE  \/ takenBack'[d] = takenBack[d]
           \/ /\ takenBack'[d] = takenBack[d] + 1 /\ Decided(d)
              /\ \E w \in Dispatchers : RowIsDelivered(w, d) \/ RowIsRescheduled(w, d)
<1> SUFFICES ASSUME takenBack'[d] # takenBack[d]
             PROVE  /\ takenBack'[d] = takenBack[d] + 1 /\ Decided(d)
                    /\ \E w \in Dispatchers : RowIsDelivered(w, d) \/ RowIsRescheduled(w, d)
  OBVIOUS
<1>1. PICK w \in Dispatchers :
        /\ batch[w].step # "idle" /\ Exists(EndpointOf[batch[w].call.delivery])
        /\ \/ /\ MarkDelivered(w) \/ Throw(w)
              /\ batch[w].step = "accepted"
              /\ SetStatus(batch[w].call.delivery, "delivered")
           \/ /\ Reschedule(w) \/ Throw(w)
              /\ batch[w].step = "reschedule"
              /\ SetStatus(batch[w].call.delivery,
                           IF Exhausted(batch[w].call) THEN "failed" ELSE "pending")
  <2>1. PICK w \in Dispatchers : MarkDelivered(w) \/ Reschedule(w) \/ Throw(w)
    BY DEF Next, DispatcherStep, CreateEndpoint, UpdateEndpoint, RemoveEndpoint, Fanout,
       LeaseElapses, ClaimBatch, StartPost, Answer, CountFailure, DisableEndpoint, ProcessStops,
       SetCount, SetDisabled
  <2>2. CASE MarkDelivered(w)
    BY <2>2 DEF MarkDelivered, SetDelivered
  <2>3. CASE Reschedule(w)
    BY <2>3 DEF Reschedule, SetFailed
  <2>4. CASE Throw(w)
    <3>1. Commits(w) /\ batch[w].step \in Statements
      BY <2>4 DEF Throw
    <3>2. ~SetCount(w) /\ ~SetDisabled(w)
      BY DEF SetCount, SetDisabled
    <3> QED
      BY <2>4, <3>1, <3>2 DEF Commits, Statements, SetDelivered, SetFailed
  <2> QED
    BY <2>1, <2>2, <2>3, <2>4
<1>2. takenBack \in [Deliveries -> Nat] /\ delivery \in [Deliveries -> DeliveryRow]
  BY DEF TypeOK
<1>3. /\ batch[w].call.delivery = d /\ takenBack'[d] = takenBack[d] + 1 /\ Decided(d)
  <2> DEFINE e == batch[w].call.delivery
  <2>1. PICK status : SetStatus(e, status)
    BY <1>1
  <2>2. takenBack' = IF Decided(e) /\ delivery[e].status # status
                     THEN [takenBack EXCEPT ![e] = @ + 1] ELSE takenBack
    BY <2>1 DEF SetStatus
  <2> HIDE DEF e
  <2>3. Decided(e) /\ takenBack' = [takenBack EXCEPT ![e] = @ + 1]
    BY <2>2
  <2>4. e = d
    BY <1>2, <2>3
  <2> QED
    BY <1>2, <2>3, <2>4 DEF e
<1>4. ASSUME NEW status \in {"delivered", "failed", "pending"}, SetStatus(d, status)
      PROVE  /\ delivery'[d].status = status /\ delivery'[d].attempts = delivery[d].attempts
             /\ ~delivery'[d].due
  <2>1. delivery' = [delivery EXCEPT ![d].status = status, ![d].due = FALSE]
    BY <1>4 DEF SetStatus
  <2>2. delivery[d] \in DeliveryRow
    BY <1>2
  <2>3. delivery'[d] = [[delivery[d] EXCEPT !.status = status] EXCEPT !.due = FALSE]
    BY <1>2, <2>1 DEF DeliveryRow
  <2> QED
    BY <2>2, <2>3 DEF DeliveryRow
<1> QED
  BY <1>1, <1>3, <1>4 DEF RowIsDelivered, RowIsRescheduled

LEMMA ChangesStayCounted ==
    ASSUME TypeOK, HandsInOrder, RowsInOrder, ChangesCounted, Next
    PROVE  ChangesCounted'
<1> SUFFICES ASSUME NEW d \in Deliveries
             PROVE  /\ IsFiniteSet(StillToRecord(d)')
                    /\ takenBack'[d] <= overruns'[d] + losses'
                    /\ Answers(d)' <= overruns'[d] + losses' + 1
                    /\ DecidedOrDue(d)' => Answers(d)' <= overruns'[d] + losses'
  BY DEF ChangesCounted
<1> DEFINE before == StillToRecord(d)
           bound == overruns[d] + losses
           bound2 == overruns'[d] + losses'
<1>1. /\ IsFiniteSet(before) /\ takenBack[d] <= bound
      /\ takenBack[d] + Cardinality(before) <= bound + 1
      /\ DecidedOrDue(d) => takenBack[d] + Cardinality(before) <= bound
  BY DEF ChangesCounted, Answers
<1>2. /\ Cardinality(before) \in Nat /\ takenBack[d] \in Nat /\ takenBack'[d] \in Nat
      /\ overruns[d] \in Nat /\ overruns'[d] \in Nat /\ losses \in Nat /\ losses' \in Nat
      /\ bound \in Nat /\ bound2 \in Nat
  <2>1. TypeOK'
    BY TypesHold
  <2>2. /\ takenBack[d] \in Nat /\ takenBack'[d] \in Nat
        /\ overruns[d] \in Nat /\ overruns'[d] \in Nat /\ losses \in Nat /\ losses' \in Nat
    BY <2>1, WebhookAssumption DEF TypeOK
  <2> QED
    BY <1>1, <2>2, FS_CardinalityType
<1>3. bound <= bound2 /\ (losses' = losses + 1 => bound + 1 <= bound2)
  <2>1. losses' \in {losses, losses + 1}
    BY DEF Next, DispatcherStep, CreateEndpoint, UpdateEndpoint, RemoveEndpoint, Fanout,
       LeaseElapses, ClaimBatch, StartPost, Answer, MarkDelivered, CountFailure, Reschedule,
       DisableEndpoint, Throw, ProcessStops
  <2>2. overruns'[d] \in {overruns[d], overruns[d] + 1}
    <3>1. \/ UNCHANGED overruns
          \/ \E e \in Deliveries : overruns' = [overruns EXCEPT ![e] = @ + 1]
      BY DEF Next, DispatcherStep, CreateEndpoint, UpdateEndpoint, RemoveEndpoint, Fanout,
         LeaseElapses, ClaimBatch, StartPost, Answer, MarkDelivered, CountFailure, Reschedule,
         DisableEndpoint, Throw, ProcessStops
    <3> QED
      BY <3>1 DEF TypeOK
  <2> QED
    BY <1>2, <2>1, <2>2
<1>4. Answers(d)' = takenBack'[d] + Cardinality(StillToRecord(d)')
  BY DEF Answers
<1>5. Gone \subseteq Gone'
  BY EndpointSteps
<1>6. RowStep(d)
  BY RowSteps
<1> DEFINE after == StillToRecord(d)'
<1> HIDE DEF bound, bound2, after
<1>7. ASSUME after \subseteq before
      PROVE  IsFiniteSet(after) /\ Cardinality(after) \in Nat /\ Cardinality(after) <= Cardinality(before)
  BY <1>1, <1>7, FS_Subset, FS_CardinalityType
<1>8. ASSUME NEW w, after \subseteq before \cup {w}
      PROVE  /\ IsFiniteSet(after) /\ Cardinality(after) \in Nat
             /\ Cardinality(after) <= Cardinality(before) + 1
  <2>1. /\ IsFiniteSet(before \cup {w})
        /\ Cardinality(before \cup {w}) <= Cardinality(before) + 1
    <3>1. /\ IsFiniteSet(before \cup {w})
          /\ \/ Cardinality(before \cup {w}) = Cardinality(before)
             \/ Cardinality(before \cup {w}) = Cardinality(before) + 1
      <4> HIDE DEF before
      <4> QED
        BY <1>1, FS_AddElement
    <3> QED
      BY <1>2, <3>1
  <2>2. /\ IsFiniteSet(after) /\ Cardinality(after) <= Cardinality(before \cup {w})
    BY <1>8, <2>1, FS_Subset
  <2>3. Cardinality(after) \in Nat /\ Cardinality(before \cup {w}) \in Nat
    BY <2>1, <2>2, FS_CardinalityType
  <2> QED
    BY <1>2, <2>1, <2>2, <2>3
<1>9. ASSUME NEW w, w \in before, w \notin after, after \subseteq before
      PROVE  /\ IsFiniteSet(after) /\ Cardinality(after) \in Nat
             /\ Cardinality(after) + 1 <= Cardinality(before)
  <2>1. /\ IsFiniteSet(before \ {w}) /\ Cardinality(before \ {w}) = Cardinality(before) - 1
    BY <1>1, <1>9, FS_RemoveElement
  <2>2. after \subseteq before \ {w}
    BY <1>9
  <2>3. IsFiniteSet(after) /\ Cardinality(after) <= Cardinality(before \ {w})
    BY <2>1, <2>2, FS_Subset
  <2>4. Cardinality(after) \in Nat
    BY <2>3, FS_CardinalityType
  <2> QED
    BY <1>2, <2>1, <2>3, <2>4
<1> DEFINE Goal == /\ IsFiniteSet(after)
                   /\ takenBack'[d] <= bound2
                   /\ takenBack'[d] + Cardinality(after) <= bound2 + 1
                   /\ DecidedOrDue(d)' => takenBack'[d] + Cardinality(after) <= bound2
<1> HIDE DEF before
<1> SUFFICES Goal
  BY <1>4 DEF bound2, after
(* The row and what was taken back stay. *)
<1>10. ASSUME delivery'[d] = delivery[d], takenBack'[d] = takenBack[d],
              \/ after \subseteq before
              \/ losses' = losses + 1 /\ \E w : after \subseteq before \cup {w}
       PROVE  Goal
  <2>1. DecidedOrDue(d)' = DecidedOrDue(d)
    BY <1>10 DEF Decided, DecidedOrDue
  <2>2. CASE after \subseteq before
    <3>1. IsFiniteSet(after) /\ Cardinality(after) \in Nat /\ Cardinality(after) <= Cardinality(before)
      BY <1>7, <2>2
    <3> QED
      BY <1>1, <1>2, <1>3, <1>10, <2>1, <3>1
  <2>3. ASSUME losses' = losses + 1, NEW w, after \subseteq before \cup {w}
        PROVE  Goal
    <3>1. /\ IsFiniteSet(after) /\ Cardinality(after) \in Nat
          /\ Cardinality(after) <= Cardinality(before) + 1
      BY <1>8, <2>3
    <3> QED
      BY <1>1, <1>2, <1>3, <1>10, <2>1, <2>3, <3>1
  <2> QED
    BY <1>10, <2>2, <2>3
(* A worker records an outcome. *)
<1>11. ASSUME NEW w \in Dispatchers, RowIsDelivered(w, d) \/ RowIsRescheduled(w, d)
       PROVE  Goal
  <2>1. /\ MarkDelivered(w) \/ Reschedule(w) \/ Throw(w)
        /\ batch[w].step \in {"accepted", "reschedule"} /\ batch[w].call.delivery = d
        /\ Exists(EndpointOf[d])
    BY <1>11 DEF RowIsDelivered, RowIsRescheduled
  <2>2. WorkStep(w) /\ w \in before
    BY <2>1 DEF WorkStep, StillToRecord, Exists, Gone, before
  <2>3. after \subseteq before \cup {w}
    BY <2>2, StillSteps DEF after, before
  <2>4. after \subseteq before
    BY <2>2, <2>3
  <2>5. \/ takenBack'[d] = takenBack[d]
        \/ takenBack'[d] = takenBack[d] + 1 /\ DecidedOrDue(d)
    BY TakenBackSteps DEF DecidedOrDue
  <2>7. CASE Throw(w)
    <3>1. losses' = losses + 1
      BY <2>1, <2>7 DEF Throw
    <3>2. IsFiniteSet(after) /\ Cardinality(after) \in Nat /\ Cardinality(after) <= Cardinality(before)
      BY <1>7, <2>4
    <3>3. bound + 1 <= bound2
      BY <1>3, <3>1
    <3>4. Cardinality(before) \in Nat
      BY <1>2
    <3>5. takenBack'[d] <= bound2
      BY <1>1, <1>2, <2>5, <3>3
    <3>6. takenBack'[d] + Cardinality(after) <= bound2
      <4>1. CASE takenBack'[d] = takenBack[d]
        BY <1>1, <1>2, <3>2, <3>3, <4>1
      <4>2. CASE takenBack'[d] = takenBack[d] + 1 /\ DecidedOrDue(d)
        BY <1>1, <1>2, <3>2, <3>3, <4>2
      <4> QED
        BY <2>5, <4>1, <4>2
    <3> QED
      BY <1>2, <3>2, <3>5, <3>6
  <2>8. CASE MarkDelivered(w) \/ Reschedule(w)
    <3>1. w \notin after
      BY <2>1, <2>8, RecordedOnce DEF after
    <3>2. /\ IsFiniteSet(after) /\ Cardinality(after) \in Nat
          /\ Cardinality(after) + 1 <= Cardinality(before)
      BY <1>9, <2>2, <2>4, <3>1
    <3>3. takenBack'[d] + Cardinality(after) <= bound2
      <4>1. CASE takenBack'[d] = takenBack[d]
        BY <1>1, <1>2, <1>3, <3>2, <4>1
      <4>2. CASE takenBack'[d] = takenBack[d] + 1 /\ DecidedOrDue(d)
        BY <1>1, <1>2, <1>3, <3>2, <4>2
      <4> QED
        BY <2>5, <4>1, <4>2
    <3> QED
      BY <1>2, <3>2, <3>3
  <2> QED
    BY <2>1, <2>7, <2>8
<1>12. takenBack'[d] = takenBack[d] \/ Goal
  BY <1>11, TakenBackSteps
<1>13. (UNCHANGED batch \/ \E w \in Dispatchers : WorkStep(w))
         => \/ after \subseteq before
            \/ losses' = losses + 1 /\ \E w : after \subseteq before \cup {w}
  <2>1. UNCHANGED batch => after \subseteq before
    BY <1>5 DEF StillToRecord, after, before
  <2>2. ASSUME NEW w \in Dispatchers, WorkStep(w)
        PROVE  \/ after \subseteq before
               \/ losses' = losses + 1 /\ \E x : after \subseteq before \cup {x}
    <3>1. /\ after \subseteq before \cup {w}
          /\ losses' = losses + 1 \/ after \subseteq before
      BY <2>2, StillSteps DEF after, before
    <3> QED
      BY <3>1
  <2> QED
    BY <2>1, <2>2
<1>14. ASSUME NEW w \in Dispatchers, ClaimBatch(w)
       PROVE  Goal
  <2>1. /\ batch[w] = NoBatch /\ batch'[w].step = "idle"
        /\ \A other \in Dispatchers \ {w} : batch'[other] = batch[other]
        /\ UNCHANGED <<takenBack, endpoint>>
    BY <1>14, ClaimBatchIs
  <2>2. Gone' = Gone
    BY <2>1 DEF Gone
  <2>3. after \subseteq before \cup {w}
    BY <2>1, <2>2 DEF StillToRecord, after, before
  <2>4. PICK claimed \in SUBSET Claimable :
          /\ batch'[w].rest =
               {[delivery |-> e, attempts |-> delivery[e].attempts + 1] : e \in claimed}
          /\ delivery' = [e \in Deliveries |->
               IF e \in claimed THEN ClaimedRow(e) ELSE delivery[e]]
    BY <1>14, ClaimBatchIs
  <2>5. CASE d \in claimed
    <3>1. delivery[d].status = "pending" /\ delivery[d].due
      BY <2>5 DEF Claimable, SeenWithoutOrganization
    <3>2. delivery'[d].status = "pending" /\ ~delivery'[d].due
      BY <2>4, <2>5, <3>1, ClaimedRowIs
    <3>3. DecidedOrDue(d) /\ ~DecidedOrDue(d)'
      BY <3>1, <3>2 DEF Decided, DecidedOrDue
    <3>4. /\ IsFiniteSet(after) /\ Cardinality(after) \in Nat
          /\ Cardinality(after) <= Cardinality(before) + 1
      BY <1>8, <2>3
    <3> QED
      BY <1>1, <1>2, <1>3, <2>1, <3>3, <3>4
  <2>6. CASE d \notin claimed
    <3>1. \A c \in batch'[w].rest : c.delivery # d
      BY <2>4, <2>6
    <3>2. w \notin after
      BY <2>1, <3>1 DEF StillToRecord, after, before
    <3>3. after \subseteq before /\ delivery'[d] = delivery[d]
      BY <2>3, <2>4, <2>6, <3>2
    <3> QED
      BY <1>10, <2>1, <3>3
  <2> QED
    BY <2>5, <2>6
(* Time, the owner and the fan-out. *)
<1>15. CASE UNCHANGED batch
  <2>1. after \subseteq before
    BY <1>5, <1>15 DEF StillToRecord, after, before
  <2>7. /\ IsFiniteSet(after) /\ Cardinality(after) \in Nat
        /\ Cardinality(after) <= Cardinality(before)
    BY <1>7, <2>1
  <2> SUFFICES ASSUME takenBack'[d] = takenBack[d]
               PROVE  Goal
    BY <1>12
  <2>2. CASE RowStays(d)
    BY <1>10, <2>1, <2>2 DEF RowStays
  <2>3. CASE RowIsRemoved(d)
    <3>1. ~DecidedOrDue(d)'
      BY <2>3 DEF RowIsRemoved, Decided, DecidedOrDue
    <3> QED
      BY <1>1, <1>2, <1>3, <2>7, <3>1
  <2>4. CASE RowIsInserted(d)
    <3>1. \A w \in Dispatchers : \A c \in Claims(w) : c.delivery # d
      BY <2>4 DEF RowsInOrder, RowIsInserted
    <3>2. \A w \in Dispatchers : batch[w].rest \subseteq Claims(w)
      BY DEF Claims
    <3>3. before = {}
      BY <3>1, <3>2, CallIs DEF StillToRecord, before
    <3>4. Cardinality(before) = 0
      BY <3>3, FS_EmptySet
    <3> QED
      BY <1>1, <1>2, <1>3, <2>7, <3>4
  <2>5. CASE RowIsDue(d)
    <3>2. losses' = losses
      BY <2>5 DEF RowIsDue, LeaseElapses
    <3>3. CASE \E w \in Dispatchers : d \in Held(w)
      <4>1. bound2 = bound + 1
        BY <1>2, <2>5, <3>2, <3>3, LeaseRunsOut DEF RowIsDue, bound, bound2
      <4> QED
        BY <1>1, <1>2, <2>7, <4>1
    <3>4. CASE \A w \in Dispatchers : d \notin Held(w)
      <4>1. \A w \in Dispatchers : \A c \in Claims(w) : c.delivery # d
        BY <3>4 DEF Held
      <4>2. \A w \in Dispatchers : batch[w].rest \subseteq Claims(w)
        BY DEF Claims
      <4>3. before = {}
        BY <4>1, <4>2, CallIs DEF StillToRecord, before
      <4>4. Cardinality(before) = 0
        BY <4>3, FS_EmptySet
      <4> QED
        BY <1>1, <1>2, <1>3, <2>7, <4>4
    <3> QED
      BY <3>3, <3>4
  <2>6. ASSUME NEW w \in Dispatchers, RowIsClaimed(w, d)
        PROVE  Goal
    BY <1>14, <2>6 DEF RowIsClaimed
  <2> QED
    BY <1>6, <1>11, <2>2, <2>3, <2>4, <2>5, <2>6 DEF RowStep
<1>16. ASSUME NEW w \in Dispatchers, WorkStep(w)
       PROVE  Goal
  <2>1. CASE delivery'[d] = delivery[d]
    BY <1>10, <1>12, <1>13, <1>16, <2>1
  <2>2. CASE delivery'[d] # delivery[d]
    <3>1. \/ ~RowStays(d) /\ ~RowIsRemoved(d) /\ ~RowIsInserted(d) /\ ~RowIsDue(d)
          \/ UNCHANGED batch
      BY <2>2 DEF RowStays, RowIsRemoved, RemoveEndpoint, RowIsInserted, Fanout, RowIsDue,
         LeaseElapses
    <3> QED
      BY <1>6, <1>11, <1>14, <1>15, <3>1 DEF RowStep, RowIsClaimed
  <2> QED
    BY <2>1, <2>2
<1> QED
  BY <1>14, <1>15, <1>16, HandsSteps

-----------------------------------------------------------------------------
(* Theorems                                                                 *)

(* Before the first endpoint nobody holds, has seen or has lost anything. *)
LEMMA InitHolds ==
    ASSUME Init
    PROVE  IInv
<1> USE DEF Init
<1>1. TypeOK
  BY NoBatchIs, WebhookAssumption DEF TypeOK, EndpointRow, DeliveryRow
<1>2. \A w \in Dispatchers : Claims(w) = {} /\ Held(w) = {} /\ InItsPlace(w)
  BY NoBatchIs DEF Claims, Held, InItsPlace
<1>3. Gone = {}
  BY DEF Gone
<1>4. \A d \in Deliveries : Unanswered(d) = {}
  BY NoBatchIs DEF Unanswered
<1>5. HandsInOrder /\ LeasesHold
  BY <1>2 DEF HandsInOrder, LeasesHold
<1>6. RowsInOrder
  BY <1>2, <1>3 DEF RowsInOrder
<1>7. ReceiptsCounted
  <2>1. \A d \in Deliveries : IsFiniteSet(Unanswered(d)) /\ Cardinality(Unanswered(d)) = 0
    BY <1>4, FS_EmptySet
  <2>2. \A d \in Deliveries :
          received[d] = 0 /\ delivery[d].attempts = 0 /\ delivery[d].status = "none"
    OBVIOUS
  <2>3. \A w \in Dispatchers : batch[w].step = "idle"
    BY NoBatchIs
  <2> QED
    BY <2>1, <2>2, <2>3 DEF ReceiptsCounted
<1>8. AttemptsCounted
  <2>1. IsFiniteSet(Gone) /\ AttemptLimit = MaxAttempts
    BY <1>3, FS_EmptySet, WebhookAssumption DEF AttemptLimit
  <2> QED
    BY <2>1, WebhookAssumption DEF AttemptsCounted
<1>9. ChangesCounted
  <2>1. \A d \in Deliveries : StillToRecord(d) = {}
    BY NoBatchIs DEF StillToRecord
  <2>2. \A d \in Deliveries : IsFiniteSet(StillToRecord(d)) /\ Cardinality(StillToRecord(d)) = 0
    BY <2>1, FS_EmptySet
  <2> QED
    BY <2>2 DEF ChangesCounted, Answers
<1> QED
  BY <1>1, <1>5, <1>6, <1>7, <1>8, <1>9 DEF IInv

LEMMA StepHolds ==
    ASSUME IInv, [Next]_vars
    PROVE  IInv'
<1>1. CASE Next
  BY <1>1, TypesHold, HandsStayInOrder, RowsStayInOrder, ReceiptsStayCounted, LeasesStayHeld,
     AttemptsStayCounted, ChangesStayCounted DEF IInv
<1>2. CASE UNCHANGED vars
  <2> USE <1>2 DEF vars
  <2>1. \A w \in Dispatchers :
          Claims(w)' = Claims(w) /\ Held(w)' = Held(w) /\ InItsPlace(w)' = InItsPlace(w)
    BY DEF Claims, Held, InItsPlace
  <2>2. Gone' = Gone /\ AttemptLimit' = AttemptLimit
    BY DEF Gone, AttemptLimit
  <2>3. \A d \in Deliveries : Unanswered(d)' = Unanswered(d)
    BY DEF Unanswered
  <2>4. \A w \in Dispatchers : \A c \in Claims(w) : LeaseHolds(w, c)' = LeaseHolds(w, c)
    BY <2>1 DEF LeaseHolds, Decided
  <2>5. TypeOK' /\ HandsInOrder' /\ RowsInOrder'
    BY <2>1, <2>2 DEF IInv, TypeOK, HandsInOrder, RowsInOrder
  <2>6. ReceiptsCounted'
    BY <2>3 DEF IInv, ReceiptsCounted
  <2>7. LeasesHold'
    BY <2>1, <2>4 DEF IInv, LeasesHold, Overrun
  <2>8. AttemptsCounted'
    BY <2>1, <2>2 DEF IInv, AttemptsCounted, Overrun
  <2>9. ChangesCounted'
    <3>1. \A d \in Deliveries :
            /\ StillToRecord(d)' = StillToRecord(d)
            /\ DecidedOrDue(d)' = DecidedOrDue(d)
      BY <2>2 DEF StillToRecord, Decided, DecidedOrDue
    <3> QED
      BY <3>1 DEF IInv, ChangesCounted, Answers
  <2> QED
    BY <2>5, <2>6, <2>7, <2>8, <2>9 DEF IInv
<1> QED
  BY <1>1, <1>2

(* The inductive invariant holds of every reachable state. *)
THEOREM IInvAlways == Spec => []IInv
<1>1. Init => IInv
  BY InitHolds
<1>2. IInv /\ [Next]_vars => IInv'
  BY StepHolds
<1> QED
  BY <1>1, <1>2, PTL DEF Spec

(* deliver and its rows: what the owner reads beside a delivery is true of  *)
(* the receiver, for any number of workers, stops and late answers.         *)
THEOREM ReceiptsAreTrue == Spec => []ReceiptsAccountedFor
<1>1. IInv => ReceiptsAccountedFor
  <2> SUFFICES ASSUME IInv, NEW d \in Deliveries
               PROVE  /\ delivery[d].status = "delivered" => received[d] > 0
                      /\ received[d] <= delivery[d].attempts
    BY DEF ReceiptsAccountedFor
  <2>1. /\ IsFiniteSet(Unanswered(d))
        /\ received[d] + Cardinality(Unanswered(d)) <= delivery[d].attempts
        /\ delivery[d].status = "delivered" => received[d] > 0
    BY DEF IInv, ReceiptsCounted
  <2>2. Cardinality(Unanswered(d)) \in Nat
    BY <2>1, FS_CardinalityType
  <2>3. received[d] \in Nat /\ delivery[d].attempts \in Nat
    BY DEF IInv, TypeOK, DeliveryRow
  <2> QED
    BY <2>1, <2>2, <2>3
<1> QED
  BY <1>1, IInvAlways, PTL

(* markFailed: a delivery is given up only after all its attempts, and has  *)
(* no more than those and the ones that were lost.                          *)
THEOREM AllAttemptsUsed == Spec => []UsesAllAttempts
<1>1. IInv => UsesAllAttempts
  BY DEF IInv, AttemptsCounted, UsesAllAttempts, AttemptLimit, Overrun
<1> QED
  BY <1>1, IInvAlways, PTL

(* The claim's lease: while it lasts, a delivery is in one worker's hands,  *)
(* and undecided but for what its holder has recorded.                      *)
THEOREM LeaseIsExclusive == Spec => []LeaseExcludes
<1>1. IInv => LeaseExcludes
  <2> SUFFICES ASSUME IInv, NEW w \in Dispatchers, NEW c \in Claims(w),
                      overruns[c.delivery] = 0
               PROVE  /\ \/ delivery[c.delivery].status \in {"pending", "removed"}
                         \/ /\ Decided(c.delivery)
                            /\ batch[w].call # NoCall /\ batch[w].call.delivery = c.delivery
                      /\ \A other \in Dispatchers \ {w} : c.delivery \notin Held(other)
    BY DEF LeaseExcludes, Held
  <2>1. LeaseHolds(w, c) /\ c \in Claim
    BY ClaimsAreClaims DEF IInv, LeasesHold, Overrun
  <2> QED
    BY <2>1, NoCallAssumption DEF LeaseHolds
<1> QED
  BY <1>1, IInvAlways, PTL

(* markDelivered and markFailed: what was decided is taken back only by a   *)
(* call whose lease ran out in its worker's hands, or whose record threw,   *)
(* and by each of them once.                                                *)
THEOREM TakenBackOnce == Spec => []EachOverrunTakesBackOnce
<1>1. IInv => EachOverrunTakesBackOnce
  BY DEF IInv, ChangesCounted, EachOverrunTakesBackOnce
<1> QED
  BY <1>1, IInvAlways, PTL
=============================================================================
