----------------------------- MODULE OutboxProofs -----------------------------
(***************************************************************************)
(* The outbox for any number of events, worker processes and e-mail keys,  *)
(* any batch size and any number of attempts: an event is in one worker's  *)
(* hands, is processed only when what it causes is under way, fails only   *)
(* after its last attempt, and its e-mail goes out as often as the runs of *)
(* its jobs explain.                                                       *)
(***************************************************************************)
EXTENDS Outbox, FiniteSetTheorems, TLAPS

(* A dispatcher's place in its loop: what it works on has left the rest of  *)
(* the batch, and the steps before the present one were done.               *)
InItsPlace(d) ==
    /\ batch[d].event \notin batch[d].rest
    /\ batch[d].event = NoEvent => batch[d].step = "fanout"
    /\ batch[d].event # NoEvent =>
         /\ batch[d].step \in {"row", "enqueue", "processed"} => webhooks[batch[d].event] = 1
         /\ batch[d].step = "processed" => job[Key[batch[d].event]].status # "none"

LoopsInOrder == \A d \in Dispatchers : InItsPlace(d)

(* A pending event has an attempt left. *)
AttemptsLeft ==
    \A e \in Events : event[e].status = "pending" => event[e].attempts < MaxAttempts

(* A job that is not over has a run left, and one that does not exist had none. *)
RunsLeft(j) ==
    /\ j.status \in {"waiting", "accepted"} => j.tries < EmailAttempts /\ j.stalls <= MaxStalls
    /\ j.status \in {"none", "removed"} => j.tries = 0 /\ j.stalls = 0

TriesLeft == \A k \in Keys : RunsLeft(job[k])

IInv ==
    /\ TypeOK
    /\ ClaimedByOne
    /\ LoopsInOrder
    /\ AttemptsLeft
    /\ TriesLeft
    /\ ProcessedWasDone
    /\ ExtraMailsAreReruns
    /\ FailsOnlyAfterAllAttempts

-----------------------------------------------------------------------------
(* One step of each kind, and what it leaves alone                          *)

LEMMA NothingClaimed ==
    NoBatch \in Batch
  BY DEF NoBatch, Batch

(* What a dispatcher holds, and what it does not. *)
LEMMA HeldIs ==
    ASSUME TypeOK, NEW d \in Dispatchers
    PROVE  /\ Held(d) \subseteq Events
           /\ batch[d].rest \subseteq Held(d)
           /\ batch[d].event # NoEvent => batch[d].event \in Held(d)
<1>1. batch[d] \in Batch
  BY DEF TypeOK
<1> QED
  BY <1>1 DEF Held, Batch

(* A dispatcher that goes on to another step holds what it held. *)
LEMMA GoesOn ==
    ASSUME TypeOK, NEW d \in Dispatchers, NEW step, Goes(d, step),
           step \in {"fanout", "row", "enqueue", "processed", "failed"}
    PROVE  /\ batch' \in [Dispatchers -> Batch]
           /\ \A other \in Dispatchers : Held(other)' = Held(other)
           /\ \A other \in Dispatchers \ {d} : batch'[other] = batch[other]
           /\ batch'[d].event = batch[d].event /\ batch'[d].rest = batch[d].rest
           /\ batch'[d].step = step
<1> DEFINE after == [batch[d] EXCEPT !.step = step]
<1>1. batch \in [Dispatchers -> Batch] /\ batch[d] \in Batch
  BY DEF TypeOK
<1>2. /\ after \in Batch /\ after.event = batch[d].event /\ after.rest = batch[d].rest
      /\ after.step = step
  BY <1>1 DEF Batch
<1>3. batch' = [batch EXCEPT ![d] = after]
  BY <1>1 DEF Goes, Batch
<1> HIDE DEF after
<1> QED
  BY <1>1, <1>2, <1>3 DEF Held

(* A dispatcher that is done with its event holds the rest of its batch.    *)
LEMMA EventDone ==
    ASSUME TypeOK, LoopsInOrder, NEW d \in Dispatchers,
           batch' = [batch EXCEPT ![d].event = NoEvent, ![d].step = "fanout"]
    PROVE  /\ batch' \in [Dispatchers -> Batch]
           /\ \A other \in Dispatchers \ {d} :
                batch'[other] = batch[other] /\ Held(other)' = Held(other)
           /\ Held(d)' = Held(d) \ {batch[d].event}
           /\ batch'[d].event = NoEvent /\ batch'[d].rest = batch[d].rest
           /\ batch'[d].step = "fanout"
<1> DEFINE after == [batch[d] EXCEPT !.event = NoEvent, !.step = "fanout"]
<1>1. batch \in [Dispatchers -> Batch] /\ batch[d] \in Batch
  BY DEF TypeOK
<1>2. /\ after \in Batch /\ after.event = NoEvent /\ after.rest = batch[d].rest
      /\ after.step = "fanout"
  BY <1>1 DEF Batch
<1>3. batch' = [batch EXCEPT ![d] = after]
  BY <1>1 DEF Batch
<1> HIDE DEF after
<1>4. batch[d].event \notin batch[d].rest
  BY DEF LoopsInOrder, InItsPlace
<1> QED
  BY <1>1, <1>2, <1>3, <1>4 DEF Held

(* A dispatcher that takes up an event of its batch holds what it held.     *)
LEMMA EventTaken ==
    ASSUME TypeOK, NEW d \in Dispatchers, NEW e \in batch[d].rest,
           batch[d].event = NoEvent,
           NEW step \in {"row", "failed"},
           batch' = [batch EXCEPT ![d] = [rest |-> @.rest \ {e}, event |-> e, step |-> step]]
    PROVE  /\ batch' \in [Dispatchers -> Batch]
           /\ \A other \in Dispatchers : Held(other)' = Held(other)
           /\ \A other \in Dispatchers \ {d} : batch'[other] = batch[other]
           /\ batch'[d].event = e /\ batch'[d].rest = batch[d].rest \ {e}
           /\ batch'[d].step = step
<1> DEFINE after == [rest |-> batch[d].rest \ {e}, event |-> e, step |-> step]
<1>1. batch \in [Dispatchers -> Batch] /\ batch[d] \in Batch /\ NoEvent \notin Events
  BY OutboxAssumption DEF TypeOK
<1>2. e \in Events /\ e # NoEvent
  BY <1>1 DEF Batch
<1>3. /\ after \in Batch /\ after.event = e /\ after.rest = batch[d].rest \ {e}
      /\ after.step = step
  BY <1>1, <1>2 DEF Batch
<1>4. batch' = [batch EXCEPT ![d] = after]
  BY <1>1
<1> HIDE DEF after
<1>5. \A other \in Dispatchers \ {d} : batch'[other] = batch[other]
  BY <1>1, <1>4
<1>6. batch'[d] = after
  BY <1>1, <1>4
<1> QED
  BY <1>1, <1>2, <1>3, <1>4, <1>5, <1>6 DEF Held

-----------------------------------------------------------------------------
(* The dispatcher's steps                                                   *)

(* A step that writes to no table and gives no dispatcher an event.         *)
LEMMA NothingWritten ==
    ASSUME IInv, UNCHANGED <<event, webhooks, job, sent>>, losses' \in 0..MaxLosses,
           batch' \in [Dispatchers -> Batch],
           \A d \in Dispatchers : Held(d)' \subseteq Held(d),
           \A d \in Dispatchers : InItsPlace(d)'
    PROVE  IInv'
<1>1. TypeOK'
  BY DEF IInv, TypeOK
<1>2. ClaimedByOne'
  BY DEF IInv, ClaimedByOne
<1>3. LoopsInOrder'
  BY DEF LoopsInOrder
<1>4. AttemptsLeft' /\ TriesLeft' /\ ProcessedWasDone' /\ ExtraMailsAreReruns'
      /\ FailsOnlyAfterAllAttempts'
  BY DEF IInv, AttemptsLeft, TriesLeft, ProcessedWasDone, ExtraMailsAreReruns,
         FailsOnlyAfterAllAttempts
<1> QED
  BY <1>1, <1>2, <1>3, <1>4 DEF IInv

(* A dispatcher whose own record is unchanged is still in its place when    *)
(* deliveries and jobs have only become more.                               *)
LEMMA OthersInPlace ==
    ASSUME IInv, NEW d \in Dispatchers, batch'[d] = batch[d],
           \A e \in Events : webhooks[e] = 1 => webhooks'[e] = 1,
           \A k \in Keys : job[k].status # "none" => job'[k].status # "none"
    PROVE  InItsPlace(d)'
<1>1. InItsPlace(d)
  BY DEF IInv, LoopsInOrder
<1>2. batch[d].event # NoEvent => batch[d].event \in Events
  BY DEF IInv, TypeOK, Batch
<1>3. batch[d].event # NoEvent => Key[batch[d].event] \in Keys
  BY <1>2, OutboxAssumption
<1> QED
  BY <1>1, <1>2, <1>3 DEF InItsPlace

LEMMA GoesHolds ==
    ASSUME IInv, NEW d \in Dispatchers, NEW step, Goes(d, step),
           UNCHANGED <<event, webhooks, job, sent, losses>>,
           batch[d].event # NoEvent,
           \/ step = "failed"
           \/ step = "enqueue" /\ batch[d].step = "row"
    PROVE  IInv'
<1>1. /\ batch' \in [Dispatchers -> Batch]
      /\ \A other \in Dispatchers : Held(other)' = Held(other)
      /\ \A other \in Dispatchers \ {d} : batch'[other] = batch[other]
      /\ batch'[d].event = batch[d].event /\ batch'[d].rest = batch[d].rest
      /\ batch'[d].step = step
  BY GoesOn DEF IInv
<1>2. InItsPlace(d)'
  BY <1>1 DEF IInv, LoopsInOrder, InItsPlace
<1>3. \A other \in Dispatchers : InItsPlace(other)'
  BY <1>1, <1>2, OthersInPlace
<1>4. losses' \in 0..MaxLosses
  BY DEF IInv, TypeOK
<1> QED
  BY <1>1, <1>3, <1>4, NothingWritten

LEMMA ClaimHolds ==
    ASSUME IInv, NEW d \in Dispatchers, ClaimBatch(d)
    PROVE  IInv'
<1>0. /\ event \in [Events -> EventRow] /\ batch \in [Dispatchers -> Batch]
      /\ batch[d] = NoBatch
  BY DEF IInv, TypeOK, ClaimBatch
<1>1. PICK claimed \in SUBSET Claimable :
        /\ event' = [e \in Events |-> IF e \in claimed THEN ClaimedRow(e) ELSE event[e]]
        /\ batch' = [batch EXCEPT ![d].rest = claimed]
  BY DEF ClaimBatch
<1>2. \A e \in claimed : /\ e \in Events /\ event[e].status = "pending"
                         /\ event[e].attempts < MaxAttempts
  BY DEF Claimable, IInv, AttemptsLeft
<1>3. \A e \in claimed : /\ ClaimedRow(e) \in EventRow
                         /\ ClaimedRow(e).status = "processing"
  <2> SUFFICES ASSUME NEW e \in claimed
               PROVE  ClaimedRow(e) \in EventRow /\ ClaimedRow(e).status = "processing"
    OBVIOUS
  <2>1. event[e] \in EventRow /\ event[e].attempts \in 0..MaxAttempts
    BY <1>0, <1>2 DEF EventRow
  <2>2. event[e].attempts + 1 \in 0..MaxAttempts
    BY <1>2, <2>1, OutboxAssumption
  <2> QED
    BY <2>1, <2>2 DEF ClaimedRow, EventRow
<1> DEFINE after == [rest |-> claimed, event |-> NoEvent, step |-> "fanout"]
<1>4. batch' = [batch EXCEPT ![d] = after] /\ after \in Batch
  <2>1. [batch[d] EXCEPT !.rest = claimed] = after
    BY <1>0 DEF NoBatch
  <2>2. batch' = [batch EXCEPT ![d] = [batch[d] EXCEPT !.rest = claimed]]
    BY <1>0, <1>1
  <2>3. claimed \in SUBSET Events
    BY <1>2
  <2> QED
    BY <2>1, <2>2, <2>3 DEF Batch
<1>5. batch'[d] = after /\ batch' \in [Dispatchers -> Batch]
      /\ \A other \in Dispatchers \ {d} : batch'[other] = batch[other]
  <2> HIDE DEF after
  <2> QED
    BY <1>0, <1>4
<1>6. Held(d)' = claimed /\ \A other \in Dispatchers \ {d} : Held(other)' = Held(other)
  BY <1>5 DEF Held
<1>7. event' \in [Events -> EventRow]
  BY <1>0, <1>1, <1>3
<1>8. \A e \in Events \ claimed : event'[e] = event[e]
  BY <1>1
<1>9. \A e \in claimed : event'[e].status = "processing"
  BY <1>1, <1>2, <1>3
<1>10. UNCHANGED <<webhooks, job, sent, losses>>
  BY DEF ClaimBatch
<1>11. TypeOK'
  BY <1>5, <1>7, <1>10 DEF IInv, TypeOK
<1>12. ClaimedByOne'
  <2>1. \A other \in Dispatchers : \A e \in Held(other) : event[e].status = "processing"
    BY DEF IInv, ClaimedByOne
  <2>2. \A other \in Dispatchers : Held(other) \cap claimed = {} /\ Held(other) \subseteq Events
    BY <1>2, <2>1, HeldIs DEF IInv
  <2>3. \A other \in Dispatchers : \A e \in Held(other)' : event'[e].status = "processing"
    BY <1>6, <1>8, <1>9, <2>1, <2>2
  <2>4. \A a, b \in Dispatchers : a # b => Held(a) \cap Held(b) = {}
    BY DEF IInv, ClaimedByOne
  <2> QED
    BY <1>6, <2>2, <2>3, <2>4 DEF ClaimedByOne
<1>13. LoopsInOrder'
  <2>1. InItsPlace(d)'
    BY <1>2, <1>5, OutboxAssumption DEF InItsPlace
  <2> QED
    BY <1>5, <1>10, <2>1, OthersInPlace DEF LoopsInOrder
<1>14. AttemptsLeft' /\ FailsOnlyAfterAllAttempts' /\ ProcessedWasDone'
  BY <1>8, <1>9, <1>10 DEF IInv, AttemptsLeft, FailsOnlyAfterAllAttempts, ProcessedWasDone
<1>15. TriesLeft' /\ ExtraMailsAreReruns'
  BY <1>10 DEF IInv, TriesLeft, ExtraMailsAreReruns
<1> QED
  BY <1>11, <1>12, <1>13, <1>14, <1>15 DEF IInv

LEMMA FanoutHolds ==
    ASSUME IInv, NEW d \in Dispatchers, FanoutWebhooks(d)
    PROVE  IInv'
<1>0. webhooks \in [Events -> Nat] /\ batch[d] \in Batch /\ losses' \in 0..MaxLosses
  BY DEF IInv, TypeOK, FanoutWebhooks
<1>1. UNCHANGED <<event, job, sent, losses>> /\ batch[d].event = NoEvent
  BY DEF FanoutWebhooks
<1>2. ASSUME NEW e \in batch[d].rest,
             batch' = [batch EXCEPT ![d] = [rest |-> @.rest \ {e}, event |-> e, step |-> "failed"]],
             UNCHANGED webhooks
      PROVE  IInv'
  <2>1. /\ batch' \in [Dispatchers -> Batch]
        /\ \A other \in Dispatchers : Held(other)' = Held(other)
        /\ \A other \in Dispatchers \ {d} : batch'[other] = batch[other]
        /\ batch'[d].event = e /\ batch'[d].rest = batch[d].rest \ {e}
        /\ batch'[d].step = "failed"
    BY <1>1, <1>2, EventTaken DEF IInv
  <2>2. InItsPlace(d)'
    <3>1. e # NoEvent
      BY <1>0, OutboxAssumption DEF Batch
    <3> QED
      BY <2>1, <3>1 DEF InItsPlace
  <2>3. \A other \in Dispatchers : InItsPlace(other)'
    BY <1>1, <1>2, <2>1, <2>2, OthersInPlace
  <2> QED
    BY <1>0, <1>1, <1>2, <2>1, <2>3, NothingWritten
<1>3. ASSUME NEW e \in batch[d].rest,
             batch' = [batch EXCEPT ![d] = [rest |-> @.rest \ {e}, event |-> e, step |-> "row"]],
             webhooks' = [webhooks EXCEPT ![e] = Inserted(e)]
      PROVE  IInv'
  <2>1. /\ batch' \in [Dispatchers -> Batch]
        /\ \A other \in Dispatchers : Held(other)' = Held(other)
        /\ \A other \in Dispatchers \ {d} : batch'[other] = batch[other]
        /\ batch'[d].event = e /\ batch'[d].rest = batch[d].rest \ {e}
        /\ batch'[d].step = "row"
    BY <1>1, <1>3, EventTaken DEF IInv
  <2>2. e \in Events /\ e # NoEvent
    BY <1>0, OutboxAssumption DEF Batch
  <2>3. Inserted(e) = 1
    BY <1>0, <2>2 DEF IInv, ProcessedWasDone, Inserted
  <2>4. /\ webhooks' \in [Events -> Nat] /\ webhooks'[e] = 1
        /\ \A other \in Events \ {e} : webhooks'[other] = webhooks[other]
    BY <1>0, <1>3, <2>2, <2>3
  <2>5. TypeOK'
    BY <1>1, <2>1, <2>4 DEF IInv, TypeOK
  <2>6. ClaimedByOne'
    BY <1>1, <2>1 DEF IInv, ClaimedByOne
  <2>7. LoopsInOrder'
    <3>1. InItsPlace(d)'
      BY <2>1, <2>2, <2>4 DEF InItsPlace
    <3> QED
      BY <1>1, <2>1, <2>4, <3>1, OthersInPlace DEF LoopsInOrder
  <2>8. ProcessedWasDone'
    BY <1>1, <2>4 DEF IInv, ProcessedWasDone
  <2>9. AttemptsLeft' /\ TriesLeft' /\ ExtraMailsAreReruns' /\ FailsOnlyAfterAllAttempts'
    BY <1>1 DEF IInv, AttemptsLeft, TriesLeft, ExtraMailsAreReruns,
                FailsOnlyAfterAllAttempts
  <2> QED
    BY <2>5, <2>6, <2>7, <2>8, <2>9 DEF IInv
<1> QED
  BY <1>2, <1>3 DEF FanoutWebhooks

LEMMA EnqueueHolds ==
    ASSUME IInv, NEW d \in Dispatchers, EnqueueEmail(d)
    PROVE  IInv'
<1> DEFINE k == Key[batch[d].event]
<1>0. /\ batch[d].event \in Events /\ k \in Keys /\ job \in [Keys -> Job]
      /\ batch[d].event # NoEvent /\ batch[d].step = "enqueue"
      /\ UNCHANGED <<event, webhooks, sent, losses>>
  BY OutboxAssumption DEF IInv, TypeOK, Batch, EnqueueEmail
<1>1. CASE Goes(d, "failed") /\ UNCHANGED job
  BY <1>0, <1>1, GoesHolds
<1>2. CASE job' = [job EXCEPT ![k] = AddJob(k)] /\ Goes(d, "processed")
  <2>1. /\ batch' \in [Dispatchers -> Batch]
        /\ \A other \in Dispatchers : Held(other)' = Held(other)
        /\ \A other \in Dispatchers \ {d} : batch'[other] = batch[other]
        /\ batch'[d].event = batch[d].event /\ batch'[d].rest = batch[d].rest
        /\ batch'[d].step = "processed"
    BY <1>2, GoesOn DEF IInv
  <2>2. /\ AddJob(k) \in Job /\ AddJob(k).status # "none" /\ RunsLeft(AddJob(k))
        /\ AddJob(k).runsBefore = job[k].runsBefore /\ Runs(AddJob(k)) = Runs(job[k])
    <3>1. job[k] \in Job /\ RunsLeft(job[k])
      BY <1>0 DEF IInv, TriesLeft
    <3> HIDE DEF k
    <3>2. CASE job[k].status \in {"none", "removed"}
      <4> DEFINE j == AddAgain(k)
      <4>1. /\ j.status = "waiting" /\ j.tries = 0 /\ j.stalls = 0
            /\ j.runsBefore = job[k].runsBefore
        BY <3>1 DEF AddAgain, Job
      <4>2. j \in Job
        <5>1. 0 \in 0..EmailAttempts /\ 0 \in 0..(MaxStalls + 1)
          BY OutboxAssumption
        <5> QED
          BY <3>1, <5>1 DEF AddAgain, Job
      <4>3. AddJob(k) = j /\ job[k].tries = 0 /\ job[k].stalls = 0
        BY <3>1, <3>2 DEF AddJob, RunsLeft
      <4> HIDE DEF j
      <4>4. RunsLeft(j)
        BY <4>1, OutboxAssumption DEF RunsLeft
      <4>5. Runs(j) = 0 /\ Runs(job[k]) = 0
        BY <3>2, <4>1, <4>3 DEF Runs
      <4> QED
        BY <4>1, <4>2, <4>3, <4>4, <4>5
    <3>3. CASE job[k].status \notin {"none", "removed"}
      BY <3>1, <3>3 DEF AddJob
    <3> QED
      BY <3>2, <3>3
  <2> HIDE DEF k
  <2>3. /\ job' \in [Keys -> Job] /\ job'[k] = AddJob(k)
        /\ \A other \in Keys \ {k} : job'[other] = job[other]
    BY <1>0, <1>2, <2>2
  <2>4. \A other \in Keys : job[other].status # "none" => job'[other].status # "none"
    BY <2>2, <2>3
  <2>5. TypeOK'
    BY <1>0, <2>1, <2>3 DEF IInv, TypeOK
  <2>6. ClaimedByOne'
    BY <1>0, <2>1 DEF IInv, ClaimedByOne
  <2>7. LoopsInOrder'
    <3>1. InItsPlace(d)'
      BY <1>0, <2>1, <2>2, <2>3 DEF k, IInv, LoopsInOrder, InItsPlace
    <3> QED
      BY <1>0, <2>1, <2>4, <3>1, OthersInPlace DEF LoopsInOrder
  <2>8. ProcessedWasDone'
    BY <1>0, <2>4, OutboxAssumption DEF IInv, ProcessedWasDone
  <2>9. AttemptsLeft' /\ FailsOnlyAfterAllAttempts'
    BY <1>0 DEF IInv, AttemptsLeft, FailsOnlyAfterAllAttempts
  <2>10. TriesLeft'
    BY <2>2, <2>3 DEF IInv, TriesLeft
  <2>11. ExtraMailsAreReruns'
    BY <1>0, <2>2, <2>3 DEF IInv, ExtraMailsAreReruns
  <2> QED
    BY <2>5, <2>6, <2>7, <2>8, <2>9, <2>10, <2>11 DEF IInv
<1> QED
  BY <1>1, <1>2 DEF EnqueueEmail

LEMMA ProcessedHolds ==
    ASSUME IInv, NEW d \in Dispatchers, MarkProcessed(d)
    PROVE  IInv'
<1> DEFINE e == batch[d].event
<1>0. /\ e \in Events /\ event \in [Events -> EventRow]
      /\ batch[d].event # NoEvent /\ batch[d].step = "processed"
      /\ UNCHANGED <<webhooks, job, sent, losses>>
  BY DEF IInv, TypeOK, Batch, MarkProcessed
<1>1. CASE Goes(d, "failed") /\ UNCHANGED event
  BY <1>0, <1>1, GoesHolds
<1>2. CASE /\ event' = [event EXCEPT ![e].status = "processed"]
           /\ batch' = [batch EXCEPT ![d].event = NoEvent, ![d].step = "fanout"]
  <2>1. /\ batch' \in [Dispatchers -> Batch]
        /\ \A other \in Dispatchers \ {d} :
             batch'[other] = batch[other] /\ Held(other)' = Held(other)
        /\ Held(d)' = Held(d) \ {e}
        /\ batch'[d].event = NoEvent /\ batch'[d].rest = batch[d].rest
        /\ batch'[d].step = "fanout"
    BY <1>2, EventDone DEF IInv
  <2>2. webhooks[e] = 1 /\ job[Key[e]].status # "none" /\ e \in Held(d)
    BY <1>0, HeldIs DEF IInv, LoopsInOrder, InItsPlace
  <2> HIDE DEF e
  <2>3. /\ event' \in [Events -> EventRow] /\ event'[e].status = "processed"
        /\ \A other \in Events \ {e} : event'[other] = event[other]
    <3> DEFINE after == [event[e] EXCEPT !.status = "processed"]
    <3>1. event[e] \in EventRow
      BY <1>0
    <3>2. after \in EventRow /\ after.status = "processed"
      BY <3>1 DEF EventRow
    <3>3. event' = [event EXCEPT ![e] = after]
      BY <1>0, <1>2, <3>1 DEF EventRow
    <3> HIDE DEF after
    <3> QED
      BY <1>0, <3>2, <3>3
  <2>4. TypeOK'
    BY <1>0, <2>1, <2>3 DEF IInv, TypeOK
  <2>5. ClaimedByOne'
    <3>1. /\ \A a \in Dispatchers : \A x \in Held(a) : event[x].status = "processing"
          /\ \A a, b \in Dispatchers : a # b => Held(a) \cap Held(b) = {}
      BY DEF IInv, ClaimedByOne
    <3>2. \A a \in Dispatchers : Held(a)' \subseteq Held(a) \ {e} /\ Held(a) \subseteq Events
      BY <2>1, <2>2, <3>1, HeldIs DEF IInv
    <3>3. \A a \in Dispatchers : \A x \in Held(a)' : event'[x].status = "processing"
      BY <2>3, <3>1, <3>2
    <3>4. \A a, b \in Dispatchers : a # b => Held(a)' \cap Held(b)' = {}
      BY <3>1, <3>2
    <3> QED
      BY <3>3, <3>4 DEF ClaimedByOne
  <2>6. LoopsInOrder'
    <3>1. InItsPlace(d)'
      BY <2>1, OutboxAssumption DEF InItsPlace, IInv, TypeOK, Batch
    <3> QED
      BY <1>0, <2>1, <3>1, OthersInPlace DEF LoopsInOrder
  <2>7. AttemptsLeft' /\ ProcessedWasDone' /\ FailsOnlyAfterAllAttempts'
    BY <1>0, <2>2, <2>3 DEF IInv, AttemptsLeft, ProcessedWasDone, FailsOnlyAfterAllAttempts
  <2>8. TriesLeft' /\ ExtraMailsAreReruns'
    BY <1>0 DEF IInv, TriesLeft, ExtraMailsAreReruns
  <2> QED
    BY <2>4, <2>5, <2>6, <2>7, <2>8 DEF IInv
<1> QED
  BY <1>1, <1>2 DEF MarkProcessed

LEMMA FailedHolds ==
    ASSUME IInv, NEW d \in Dispatchers, MarkFailed(d)
    PROVE  IInv'
<1> DEFINE e == batch[d].event
           status == IF Exhausted(e) THEN "failed" ELSE "pending"
<1>0. /\ e \in Events /\ event \in [Events -> EventRow]
      /\ UNCHANGED <<webhooks, job, sent, losses>>
  BY DEF IInv, TypeOK, Batch, MarkFailed
<1>1. event' = [event EXCEPT ![e].status = status, ![e].due = FALSE]
  BY DEF MarkFailed
<1>2. batch' = [batch EXCEPT ![d].event = NoEvent, ![d].step = "fanout"]
  BY DEF MarkFailed
<1>3. /\ batch' \in [Dispatchers -> Batch]
      /\ \A other \in Dispatchers \ {d} :
           batch'[other] = batch[other] /\ Held(other)' = Held(other)
      /\ Held(d)' = Held(d) \ {e}
      /\ batch'[d].event = NoEvent /\ batch'[d].rest = batch[d].rest
      /\ batch'[d].step = "fanout"
  BY <1>2, EventDone DEF IInv
<1>4. e \in Held(d)
  BY HeldIs DEF IInv, MarkFailed
<1>5. /\ status = "failed" => event[e].attempts = MaxAttempts
      /\ status = "pending" => event[e].attempts < MaxAttempts
      /\ status \in {"failed", "pending"}
  <2>1. event[e].attempts \in 0..MaxAttempts
    BY <1>0 DEF EventRow
  <2> QED
    BY <2>1, OutboxAssumption DEF Exhausted
<1> HIDE DEF e, status
<1>6. /\ event' \in [Events -> EventRow] /\ event'[e].status = status
      /\ event'[e].attempts = event[e].attempts
      /\ \A other \in Events \ {e} : event'[other] = event[other]
  <2> DEFINE after == [event[e] EXCEPT !.status = status, !.due = FALSE]
  <2>1. event[e] \in EventRow
    BY <1>0
  <2>2. after \in EventRow /\ after.status = status /\ after.attempts = event[e].attempts
    BY <1>5, <2>1 DEF EventRow
  <2>3. event' = [event EXCEPT ![e] = after]
    BY <1>0, <1>1, <2>1 DEF EventRow
  <2> HIDE DEF after
  <2> QED
    BY <1>0, <2>2, <2>3
<1>7. TypeOK'
  BY <1>0, <1>3, <1>6 DEF IInv, TypeOK
<1>8. ClaimedByOne'
  <2>1. /\ \A a \in Dispatchers : \A x \in Held(a) : event[x].status = "processing"
        /\ \A a, b \in Dispatchers : a # b => Held(a) \cap Held(b) = {}
    BY DEF IInv, ClaimedByOne
  <2>2. \A a \in Dispatchers : Held(a)' \subseteq Held(a) \ {e} /\ Held(a) \subseteq Events
    BY <1>3, <1>4, <2>1, HeldIs DEF IInv
  <2>3. \A a \in Dispatchers : \A x \in Held(a)' : event'[x].status = "processing"
    BY <1>6, <2>1, <2>2
  <2>4. \A a, b \in Dispatchers : a # b => Held(a)' \cap Held(b)' = {}
    BY <2>1, <2>2
  <2> QED
    BY <2>3, <2>4 DEF ClaimedByOne
<1>9. LoopsInOrder'
  <2>1. InItsPlace(d)'
    BY <1>3, OutboxAssumption DEF InItsPlace, IInv, TypeOK, Batch
  <2> QED
    BY <1>0, <1>3, <2>1, OthersInPlace DEF LoopsInOrder
<1>10. AttemptsLeft' /\ ProcessedWasDone' /\ FailsOnlyAfterAllAttempts'
  BY <1>0, <1>5, <1>6 DEF IInv, AttemptsLeft, ProcessedWasDone, FailsOnlyAfterAllAttempts
<1>11. TriesLeft' /\ ExtraMailsAreReruns'
  BY <1>0 DEF IInv, TriesLeft, ExtraMailsAreReruns
<1> QED
  BY <1>7, <1>8, <1>9, <1>10, <1>11 DEF IInv

LEMMA LossHolds ==
    ASSUME IInv, NEW d \in Dispatchers, LoseBatch(d)
    PROVE  IInv'
<1>1. batch \in [Dispatchers -> Batch] /\ losses \in 0..MaxLosses
  BY DEF IInv, TypeOK
<1>2. batch' = [batch EXCEPT ![d] = NoBatch]
  BY DEF LoseBatch
<1>3. /\ batch' \in [Dispatchers -> Batch] /\ batch'[d] = NoBatch
      /\ \A other \in Dispatchers \ {d} : batch'[other] = batch[other]
  BY <1>1, <1>2, NothingClaimed
<1>4. UNCHANGED <<event, webhooks, job, sent>> /\ losses' \in 0..MaxLosses
  BY <1>1, OutboxAssumption DEF LoseBatch
<1>5. \A other \in Dispatchers : Held(other)' \subseteq Held(other)
  BY <1>3 DEF Held, NoBatch
<1>6. InItsPlace(d)'
  BY <1>3, OutboxAssumption DEF InItsPlace, NoBatch
<1>7. \A other \in Dispatchers : InItsPlace(other)'
  BY <1>3, <1>4, <1>6, OthersInPlace
<1> QED
  BY <1>3, <1>4, <1>5, <1>7, NothingWritten

-----------------------------------------------------------------------------
(* The table's and the mail worker's steps                                  *)

(* An event that nobody holds is written, or its backoff ends.              *)
LEMMA TableHolds ==
    ASSUME IInv, NEW e \in Events, Commit(e) \/ BackoffElapses(e)
    PROVE  IInv'
<1>0. event \in [Events -> EventRow]
  BY DEF IInv, TypeOK
<1>1. /\ event' \in [Events -> EventRow]
      /\ event[e].status \in {"none", "pending"}
      /\ event'[e].status = "pending" /\ event'[e].attempts < MaxAttempts
      /\ \A other \in Events \ {e} : event'[other] = event[other]
  <2>1. CASE Commit(e)
    <3> DEFINE after == [status |-> "pending", attempts |-> 0, due |-> TRUE]
    <3>1. after \in EventRow /\ after.status = "pending" /\ after.attempts < MaxAttempts
      BY OutboxAssumption DEF EventRow
    <3>2. event' = [event EXCEPT ![e] = after] /\ event[e].status = "none"
      BY <2>1 DEF Commit
    <3> HIDE DEF after
    <3> QED
      BY <1>0, <3>1, <3>2
  <2>2. CASE BackoffElapses(e)
    <3> DEFINE after == [event[e] EXCEPT !.due = TRUE]
    <3>1. event[e] \in EventRow /\ event[e].status = "pending" /\ event[e].attempts < MaxAttempts
      BY <1>0, <2>2 DEF BackoffElapses, IInv, AttemptsLeft
    <3>2. after \in EventRow /\ after.status = "pending" /\ after.attempts < MaxAttempts
      BY <3>1 DEF EventRow
    <3>3. event' = [event EXCEPT ![e] = after]
      BY <1>0, <2>2, <3>1 DEF BackoffElapses, EventRow
    <3> HIDE DEF after
    <3> QED
      BY <1>0, <3>1, <3>2, <3>3
  <2> QED
    BY <2>1, <2>2
<1>2. UNCHANGED <<batch, webhooks, job, sent, losses>>
  BY DEF Commit, BackoffElapses
<1>3. TypeOK'
  BY <1>1, <1>2 DEF IInv, TypeOK
<1>4. ClaimedByOne'
  <2>1. \A d \in Dispatchers : Held(d)' = Held(d)
    BY <1>2 DEF Held
  <2>2. \A d \in Dispatchers : \A x \in Held(d) : x \in Events /\ event[x].status = "processing"
    BY HeldIs DEF IInv, ClaimedByOne
  <2>3. \A d \in Dispatchers : \A x \in Held(d) : event'[x].status = "processing"
    BY <1>1, <2>2
  <2> QED
    BY <2>1, <2>3 DEF IInv, ClaimedByOne
<1>5. LoopsInOrder'
  BY <1>2, OthersInPlace DEF LoopsInOrder
<1>6. AttemptsLeft' /\ ProcessedWasDone' /\ FailsOnlyAfterAllAttempts'
  BY <1>1, <1>2 DEF IInv, AttemptsLeft, ProcessedWasDone, FailsOnlyAfterAllAttempts
<1>7. TriesLeft' /\ ExtraMailsAreReruns'
  BY <1>2 DEF IInv, TriesLeft, ExtraMailsAreReruns
<1> QED
  BY <1>3, <1>4, <1>5, <1>6, <1>7 DEF IInv

(* The job of a key becomes another, which has not sent more than its runs. *)
LEMMA JobMoves ==
    ASSUME IInv, UNCHANGED <<event, batch, webhooks, losses>>,
           NEW k \in Keys, NEW j \in Job, NEW mails \in Nat,
           job' = [job EXCEPT ![k] = j], sent' = [sent EXCEPT ![k] = mails],
           j.status # "none", RunsLeft(j), mails <= j.runsBefore + Runs(j)
    PROVE  IInv'
<1>0. job \in [Keys -> Job] /\ sent \in [Keys -> Nat]
  BY DEF IInv, TypeOK
<1>1. /\ job' \in [Keys -> Job] /\ job'[k] = j
      /\ \A other \in Keys \ {k} : job'[other] = job[other]
  BY <1>0
<1>2. /\ sent' \in [Keys -> Nat] /\ sent'[k] = mails
      /\ \A other \in Keys \ {k} : sent'[other] = sent[other]
  BY <1>0
<1>3. \A other \in Keys : job[other].status # "none" => job'[other].status # "none"
  BY <1>1
<1>4. TypeOK' /\ ClaimedByOne'
  BY <1>1, <1>2 DEF IInv, TypeOK, ClaimedByOne, Held
<1>5. LoopsInOrder'
  BY <1>3, OthersInPlace DEF LoopsInOrder
<1>6. AttemptsLeft' /\ FailsOnlyAfterAllAttempts'
  BY DEF IInv, AttemptsLeft, FailsOnlyAfterAllAttempts
<1>7. ProcessedWasDone'
  BY <1>3, OutboxAssumption DEF IInv, ProcessedWasDone
<1>8. TriesLeft'
  BY <1>1 DEF IInv, TriesLeft
<1>9. ExtraMailsAreReruns'
  BY <1>1, <1>2 DEF IInv, ExtraMailsAreReruns
<1> QED
  BY <1>4, <1>5, <1>6, <1>7, <1>8, <1>9 DEF IInv

(* What each step makes of the job, and of the mails sent.                  *)
LEMMA MailHolds ==
    ASSUME IInv, NEW k \in Keys, EmailStep(k) \/ Stall(k) \/ RemoveJob(k)
    PROVE  IInv'
<1>0. /\ job \in [Keys -> Job] /\ sent \in [Keys -> Nat]
      /\ UNCHANGED <<event, batch, webhooks, losses>>
      /\ sent = [sent EXCEPT ![k] = sent[k]]
  BY DEF IInv, TypeOK, EmailStep, SendEmail, MarkDelivered, Stall, RemoveJob
<1>1. /\ job[k] \in Job /\ sent[k] \in Nat /\ RunsLeft(job[k])
      /\ job[k].tries \in Nat /\ job[k].stalls \in Nat /\ job[k].runsBefore \in Nat
      /\ sent[k] <= job[k].runsBefore + Runs(job[k])
      /\ EmailAttempts \in Nat \ {0} /\ MaxStalls \in Nat
  BY <1>0, OutboxAssumption DEF IInv, TriesLeft, ExtraMailsAreReruns, Job
<1>2. CASE /\ job[k].status = "waiting" /\ job' = [job EXCEPT ![k].status = "accepted"]
           /\ sent' = [sent EXCEPT ![k] = @ + 1]
  <2> DEFINE j == [job[k] EXCEPT !.status = "accepted"]
  <2>1. /\ j.status = "accepted" /\ j.tries = job[k].tries /\ j.stalls = job[k].stalls
        /\ j.runsBefore = job[k].runsBefore
    BY <1>1 DEF Job
  <2>3. j \in Job
    BY <1>1, <1>2 DEF Job, RunsLeft
  <2>2. job' = [job EXCEPT ![k] = j] /\ sent' = [sent EXCEPT ![k] = sent[k] + 1]
    BY <1>0, <1>2
  <2> HIDE DEF j
  <2>4. RunsLeft(j) /\ j.status # "none"
    BY <1>1, <1>2, <2>1 DEF RunsLeft
  <2>5. sent[k] + 1 \in Nat /\ sent[k] + 1 <= j.runsBefore + Runs(j)
    BY <1>1, <1>2, <2>1 DEF Runs
  <2> QED
    BY <1>0, <1>1, <2>2, <2>3, <2>4, <2>5, JobMoves
<1>3. CASE /\ job[k].status = "accepted" /\ job' = [job EXCEPT ![k].status = "completed"]
           /\ UNCHANGED sent
  <2> DEFINE j == [job[k] EXCEPT !.status = "completed"]
  <2>1. /\ j.status = "completed" /\ j.tries = job[k].tries /\ j.stalls = job[k].stalls
        /\ j.runsBefore = job[k].runsBefore
    BY <1>1 DEF Job
  <2>3. j \in Job
    BY <1>1, <1>3 DEF Job, RunsLeft
  <2>2. job' = [job EXCEPT ![k] = j] /\ sent' = [sent EXCEPT ![k] = sent[k]]
    BY <1>0, <1>3
  <2> HIDE DEF j
  <2>4. RunsLeft(j) /\ j.status # "none"
    BY <1>1, <1>3, <2>1 DEF RunsLeft
  <2>5. sent[k] \in Nat /\ sent[k] <= j.runsBefore + Runs(j)
    BY <1>1, <1>3, <2>1 DEF Runs
  <2> QED
    BY <1>0, <1>1, <2>2, <2>3, <2>4, <2>5, JobMoves
<1>4. CASE job[k].status \in {"waiting", "accepted"} /\ TryFailed(k) /\ UNCHANGED sent
  <2> DEFINE j == [job[k] EXCEPT
                     !.status = IF job[k].tries + 1 < EmailAttempts THEN "waiting" ELSE "failed",
                     !.tries = job[k].tries + 1]
  <2>1. /\ j.status = (IF job[k].tries + 1 < EmailAttempts THEN "waiting" ELSE "failed")
        /\ j.tries = job[k].tries + 1 /\ j.stalls = job[k].stalls
        /\ j.runsBefore = job[k].runsBefore
    BY <1>1 DEF Job
  <2>3. j \in Job
    <3>1. job[k].tries + 1 \in 0..EmailAttempts
      BY <1>1, <1>4 DEF RunsLeft
    <3> QED
      BY <1>1, <3>1 DEF Job
  <2>2. job' = [job EXCEPT ![k] = j] /\ sent' = [sent EXCEPT ![k] = sent[k]]
    BY <1>0, <1>4 DEF TryFailed
  <2> HIDE DEF j
  <2>4. RunsLeft(j) /\ j.status # "none"
    BY <1>1, <1>4, <2>1 DEF RunsLeft
  <2>5. sent[k] \in Nat /\ sent[k] <= j.runsBefore + Runs(j)
    BY <1>1, <1>4, <2>1 DEF Runs
  <2> QED
    BY <1>0, <1>1, <2>2, <2>3, <2>4, <2>5, JobMoves
<1>5. CASE Stall(k)
  <2> DEFINE j == [job[k] EXCEPT
                     !.status = IF job[k].stalls < MaxStalls THEN "waiting" ELSE "failed",
                     !.stalls = job[k].stalls + 1]
  <2>1. /\ j.status = (IF job[k].stalls < MaxStalls THEN "waiting" ELSE "failed")
        /\ j.tries = job[k].tries /\ j.stalls = job[k].stalls + 1
        /\ j.runsBefore = job[k].runsBefore
    BY <1>1 DEF Job
  <2>3. j \in Job
    <3>1. job[k].stalls + 1 \in 0..(MaxStalls + 1)
      BY <1>1, <1>5 DEF RunsLeft, Stall
    <3> QED
      BY <1>1, <3>1 DEF Job
  <2>2. job' = [job EXCEPT ![k] = j] /\ sent' = [sent EXCEPT ![k] = sent[k]]
    BY <1>0, <1>5 DEF Stall
  <2> HIDE DEF j
  <2>4. RunsLeft(j) /\ j.status # "none"
    BY <1>1, <1>5, <2>1 DEF RunsLeft, Stall
  <2>5. sent[k] \in Nat /\ sent[k] <= j.runsBefore + Runs(j)
    BY <1>1, <1>5, <2>1 DEF Runs, Stall
  <2> QED
    BY <1>0, <1>1, <2>2, <2>3, <2>4, <2>5, JobMoves
<1>6. CASE RemoveJob(k)
  <2> DEFINE j == [status |-> "removed", tries |-> 0, stalls |-> 0,
                   runsBefore |-> job[k].runsBefore + Runs(job[k])]
  <2>1. /\ j \in Job /\ j.status # "none" /\ RunsLeft(j)
        /\ sent[k] <= j.runsBefore + Runs(j)
    BY <1>1 DEF Job, RunsLeft, Runs
  <2>2. job' = [job EXCEPT ![k] = j] /\ sent' = [sent EXCEPT ![k] = sent[k]]
    BY <1>0, <1>6 DEF RemoveJob
  <2> HIDE DEF j
  <2> QED
    BY <1>0, <1>1, <2>1, <2>2, JobMoves
<1> QED
  BY <1>2, <1>3, <1>4, <1>5, <1>6 DEF EmailStep, SendEmail, MarkDelivered

-----------------------------------------------------------------------------
(* The theorems                                                             *)

LEMMA InitHolds ==
    Init => IInv
<1> SUFFICES ASSUME Init
             PROVE  IInv
  OBVIOUS
<1> USE OutboxAssumption
<1>1. [status |-> "none", attempts |-> 0, due |-> FALSE] \in EventRow
  BY DEF EventRow
<1>2. NoJob \in Job
  BY DEF NoJob, Job
<1>3. TypeOK
  <2>1. losses \in 0..MaxLosses /\ webhooks \in [Events -> Nat] /\ sent \in [Keys -> Nat]
    BY DEF Init
  <2> QED
    BY <1>1, <1>2, <2>1, NothingClaimed DEF Init, TypeOK
<1>4. ClaimedByOne /\ LoopsInOrder
  BY DEF Init, ClaimedByOne, Held, LoopsInOrder, InItsPlace, NoBatch
<1>5. AttemptsLeft /\ TriesLeft /\ ProcessedWasDone /\ FailsOnlyAfterAllAttempts
  BY DEF Init, AttemptsLeft, TriesLeft, RunsLeft, NoJob, ProcessedWasDone,
         FailsOnlyAfterAllAttempts
<1>6. ExtraMailsAreReruns
  BY DEF Init, ExtraMailsAreReruns, Runs, NoJob
<1> QED
  BY <1>3, <1>4, <1>5, <1>6 DEF IInv

LEMMA StepHolds ==
    IInv /\ [Next]_vars => IInv'
<1> SUFFICES ASSUME IInv, [Next]_vars
             PROVE  IInv'
  OBVIOUS
<1>1. ASSUME NEW d \in Dispatchers, RecordEmail(d)
      PROVE  IInv'
  BY <1>1, GoesHolds DEF RecordEmail
<1>2. CASE Next
  BY <1>1, <1>2, TableHolds, ClaimHolds, FanoutHolds, EnqueueHolds, ProcessedHolds, FailedHolds,
     LossHolds, MailHolds
     DEF Next, DispatcherStep
<1>3. CASE UNCHANGED vars
  BY <1>3 DEF vars, IInv, TypeOK, ClaimedByOne, Held, LoopsInOrder, InItsPlace, AttemptsLeft,
              TriesLeft, ProcessedWasDone, ExtraMailsAreReruns, FailsOnlyAfterAllAttempts
<1> QED
  BY <1>2, <1>3

(* The table, the loops and the e-mail jobs are as the definitions above    *)
(* say in every state.                                                      *)
THEOREM InvariantHolds == Spec => []IInv
  BY InitHolds, StepHolds, PTL DEF Spec

(* dispatcher.ts: any number of workers may dispatch at once, for no two    *)
(* hold the same event.                                                     *)
THEOREM OneClaim == Spec => []ClaimedByOne
<1>1. IInv => ClaimedByOne
  BY DEF IInv
<1> QED
  BY <1>1, InvariantHolds, PTL

(* An event marked processed has its deliveries and its e-mail under way,   *)
(* each once.                                                               *)
THEOREM Dispatched == Spec => []ProcessedWasDone
<1>1. IInv => ProcessedWasDone
  BY DEF IInv
<1> QED
  BY <1>1, InvariantHolds, PTL

(* email/handler.ts, email/producer.ts: whatever events share its key, a    *)
(* mail goes out once more at most for each failed try, each stalled run,   *)
(* and each run of a job the queue had removed.                             *)
THEOREM MailsExplained == Spec => []ExtraMailsAreReruns
<1>1. IInv => ExtraMailsAreReruns
  BY DEF IInv
<1> QED
  BY <1>1, InvariantHolds, PTL

(* outbox_mark_failed: an event is given up after MAX_ATTEMPTS, not before. *)
THEOREM AllAttemptsMade == Spec => []FailsOnlyAfterAllAttempts
<1>1. IInv => FailsOnlyAfterAllAttempts
  BY DEF IInv
<1> QED
  BY <1>1, InvariantHolds, PTL
-----------------------------------------------------------------------------
(* Refinement: what the table, the queue and the dispatchers do to an event *)
(* is what Dispatch allows.                                                 *)

(* What was begun was taken up: no event has deliveries, an outcome or a    *)
(* holder before an attempt was counted for it.                             *)
BegunWasTaken ==
    \A e \in Events :
        /\ webhooks[e] # 0 => event[e].attempts > 0
        /\ event[e].status \in {"processing", "processed", "failed"} => event[e].attempts > 0
        /\ event[e].status = "none" => event[e].attempts = 0

RefInv == IInv /\ BegunWasTaken

(* The abstract state. *)
StandingNow == [e \in Events |-> Standing[event[e].status]]
TakenNow == [e \in Events |-> event[e].attempts]
UnderWayNow == {e \in Events : webhooks[e] = 1 /\ job[Key[e]].status # "none"}

LEMMA StandingIs ==
    /\ Standing["none"] = "none" /\ Standing["pending"] = "open"
    /\ Standing["processing"] = "taken" /\ Standing["processed"] = "done"
    /\ Standing["failed"] = "givenUp"
  BY DEF Standing

LEMMA AbstractStutter ==
    ASSUME event' = event, UnderWayNow' = UnderWayNow
    PROVE  UNCHANGED Promise!dispatchVars
  BY DEF Promise!dispatchVars, UnderWayNow

(* A statement that writes one row's status, and does not count an attempt. *)
LEMMA RowBecomes ==
    ASSUME IInv, NEW e \in Events, NEW s, NEW row,
           event' = [event EXCEPT ![e] = row], row.status = s,
           row.attempts = event[e].attempts,
           UNCHANGED <<webhooks, job>>
    PROVE  Promise!Becomes(e, Standing[event[e].status], Standing[s])
<1>1. event \in [Events -> EventRow]
  BY DEF IInv, TypeOK
<1>2. \A x \in Events : event'[x] = IF x = e THEN row ELSE event[x]
  BY <1>1
<1>3. StandingNow' = [StandingNow EXCEPT ![e] = Standing[s]]
  <2>1. \A x \in Events : Standing[event'[x].status] = IF x = e THEN Standing[s]
                                                       ELSE Standing[event[x].status]
    BY <1>2
  <2> QED
    BY <2>1 DEF StandingNow
<1>4. TakenNow' = TakenNow
  BY <1>2 DEF TakenNow
<1>5. UnderWayNow' = UnderWayNow
  BY DEF UnderWayNow
<1> QED
  BY <1>3, <1>4, <1>5 DEF Promise!Becomes, StandingNow, TakenNow, UnderWayNow

LEMMA ClaimTakesUp ==
    ASSUME RefInv, NEW d \in Dispatchers, ClaimBatch(d)
    PROVE  BegunWasTaken' /\ Promise!DispatchNext
<1>1. PICK claimed \in SUBSET Claimable :
        event' = [e \in Events |-> IF e \in claimed THEN ClaimedRow(e) ELSE event[e]]
  BY DEF ClaimBatch
<1>2. /\ event \in [Events -> EventRow]
      /\ UNCHANGED <<webhooks, job>>
  BY DEF RefInv, IInv, TypeOK, ClaimBatch
<1>3. claimed \in SUBSET Events
  BY DEF Claimable
<1>4. \A e \in claimed :
        /\ event[e].status = "pending"
        /\ event[e].attempts \in Nat /\ event[e].attempts < MaxAttempts
        /\ event'[e].status = "processing" /\ event'[e].attempts = event[e].attempts + 1
  <2> SUFFICES ASSUME NEW e \in claimed
               PROVE  /\ event[e].status = "pending"
                      /\ event[e].attempts \in Nat /\ event[e].attempts < MaxAttempts
                      /\ event'[e].status = "processing"
                      /\ event'[e].attempts = event[e].attempts + 1
    OBVIOUS
  <2>1. e \in Events /\ event[e].status = "pending" /\ event[e] \in EventRow
    BY <1>2, <1>3 DEF Claimable
  <2>2. event[e].attempts \in Nat /\ event[e].attempts < MaxAttempts
    BY <2>1, OutboxAssumption DEF RefInv, IInv, AttemptsLeft, EventRow
  <2>3. event'[e] = ClaimedRow(e)
    BY <1>1, <2>1
  <2> QED
    BY <2>1, <2>2, <2>3 DEF ClaimedRow, EventRow
<1>5. \A e \in Events \ claimed : event'[e] = event[e]
  BY <1>1
<1>6. BegunWasTaken'
  BY <1>2, <1>4, <1>5 DEF RefInv, BegunWasTaken
<1>7. StandingNow' = [e \in Events |-> IF e \in claimed THEN "taken" ELSE StandingNow[e]]
  BY <1>4, <1>5, StandingIs DEF StandingNow
<1>8. TakenNow' = [e \in Events |-> IF e \in claimed THEN TakenNow[e] + 1 ELSE TakenNow[e]]
  BY <1>3, <1>4, <1>5 DEF TakenNow
<1>9. \A e \in claimed : StandingNow[e] = "open" /\ TakenNow[e] < MaxAttempts
  BY <1>3, <1>4, StandingIs DEF StandingNow, TakenNow
<1>10. UnderWayNow' = UnderWayNow
  BY <1>2 DEF UnderWayNow
<1>11. Promise!TakeUp(claimed)
  BY <1>7, <1>8, <1>9, <1>10 DEF Promise!TakeUp, StandingNow, TakenNow, UnderWayNow
<1> QED
  BY <1>3, <1>6, <1>11 DEF Promise!DispatchNext

LEMMA FanoutSetsUnderWay ==
    ASSUME RefInv, NEW d \in Dispatchers, FanoutWebhooks(d)
    PROVE  BegunWasTaken' /\ (Promise!DispatchNext \/ UNCHANGED Promise!dispatchVars)
<1>1. event' = event /\ job' = job
  BY DEF FanoutWebhooks
<1>2. CASE UNCHANGED webhooks
  <2>1. UnderWayNow' = UnderWayNow
    BY <1>1, <1>2 DEF UnderWayNow
  <2> QED
    BY <1>1, <1>2, <2>1, AbstractStutter DEF RefInv, BegunWasTaken
<1>3. ASSUME NEW e \in batch[d].rest, webhooks' = [webhooks EXCEPT ![e] = Inserted(e)]
      PROVE  BegunWasTaken' /\ Promise!DispatchNext
  <2>1. e \in Events /\ event[e].status = "processing" /\ webhooks \in [Events -> Nat]
    BY <1>3, HeldIs DEF RefInv, IInv, TypeOK, ClaimedByOne
  <2>2. event[e].attempts > 0
    BY <2>1 DEF RefInv, BegunWasTaken
  <2>3. Inserted(e) = 1
    BY <2>1 DEF RefInv, IInv, ProcessedWasDone, Inserted
  <2>4. webhooks'[e] = 1 /\ \A x \in Events \ {e} : webhooks'[x] = webhooks[x]
    BY <1>3, <2>1, <2>3
  <2>5. BegunWasTaken'
    BY <1>1, <2>2, <2>4 DEF RefInv, BegunWasTaken
  <2>6. PICK some \in SUBSET Events : some = IF job[Key[e]].status # "none" THEN {e} ELSE {}
    BY <2>1
  <2>7. /\ UnderWayNow' = UnderWayNow \cup some
        /\ \A x \in some : TakenNow[x] > 0
    BY <1>1, <2>1, <2>2, <2>4, <2>6 DEF UnderWayNow, TakenNow
  <2>8. Promise!SetUnderWay(some)
    BY <1>1, <2>7 DEF Promise!SetUnderWay, TakenNow, UnderWayNow
  <2> QED
    BY <2>5, <2>8 DEF Promise!DispatchNext
<1> QED
  BY <1>2, <1>3 DEF FanoutWebhooks

LEMMA EnqueueSetsUnderWay ==
    ASSUME RefInv, NEW d \in Dispatchers, EnqueueEmail(d)
    PROVE  BegunWasTaken' /\ (Promise!DispatchNext \/ UNCHANGED Promise!dispatchVars)
<1> DEFINE k == Key[batch[d].event]
<1>1. /\ event' = event /\ webhooks' = webhooks
      /\ k \in Keys /\ job \in [Keys -> Job]
  BY OutboxAssumption DEF RefInv, IInv, TypeOK, Batch, EnqueueEmail
<1>2. BegunWasTaken'
  BY <1>1 DEF RefInv, BegunWasTaken
<1>3. CASE UNCHANGED job
  <2>1. UnderWayNow' = UnderWayNow
    BY <1>1, <1>3 DEF UnderWayNow
  <2> QED
    BY <1>1, <1>2, <2>1, AbstractStutter
<1>4. CASE job' = [job EXCEPT ![k] = AddJob(k)]
  <2>0. job[k] \in Job /\ AddJob(k).status # "none"
    BY <1>1 DEF AddJob, AddAgain, Job
  <2>1. job'[k].status # "none" /\ \A x \in Keys \ {k} : job'[x] = job[x]
    BY <1>1, <1>4, <2>0
  <2>2. PICK some \in SUBSET Events : some = {e \in Events : webhooks[e] = 1 /\ Key[e] = k}
    OBVIOUS
  <2>3. /\ UnderWayNow' = UnderWayNow \cup some
        /\ \A x \in some : TakenNow[x] > 0
    BY <1>1, <2>1, <2>2, OutboxAssumption DEF UnderWayNow, TakenNow, RefInv, BegunWasTaken
  <2>4. Promise!SetUnderWay(some)
    BY <1>1, <2>3 DEF Promise!SetUnderWay, TakenNow, UnderWayNow
  <2> QED
    BY <1>2, <2>4 DEF Promise!DispatchNext
<1> QED
  BY <1>3, <1>4 DEF EnqueueEmail

LEMMA ProcessedFinishes ==
    ASSUME RefInv, NEW d \in Dispatchers, MarkProcessed(d)
    PROVE  BegunWasTaken' /\ (Promise!DispatchNext \/ UNCHANGED Promise!dispatchVars)
<1>0. PICK e : e = batch[d].event
  OBVIOUS
<1>1. /\ e \in Events /\ event[e].status = "processing" /\ Key[e] \in Keys
      /\ event \in [Events -> EventRow]
      /\ webhooks[e] = 1 /\ job[Key[e]].status # "none"
      /\ UNCHANGED <<webhooks, job>>
  <2>1. e # NoEvent /\ batch[d].step = "processed"
    BY <1>0 DEF MarkProcessed
  <2>2. e \in Events /\ event[e].status = "processing"
    BY <1>0, <2>1, HeldIs DEF RefInv, IInv, ClaimedByOne
  <2> QED
    BY <1>0, <2>1, <2>2, OutboxAssumption
       DEF RefInv, IInv, TypeOK, LoopsInOrder, InItsPlace, MarkProcessed
<1>2. CASE UNCHANGED event
  <2>1. UnderWayNow' = UnderWayNow
    BY <1>1 DEF UnderWayNow
  <2> QED
    BY <1>1, <1>2, <2>1, AbstractStutter DEF RefInv, BegunWasTaken
<1>3. CASE event' = [event EXCEPT ![e].status = "processed"]
  <2> DEFINE row == [event[e] EXCEPT !.status = "processed"]
  <2>1. row.status = "processed" /\ row.attempts = event[e].attempts
    BY <1>1 DEF EventRow
  <2>2. event' = [event EXCEPT ![e] = row]
    BY <1>3
  <2> HIDE DEF row
  <2>3. Promise!Becomes(e, "taken", "done")
    BY <1>1, <2>1, <2>2, RowBecomes, StandingIs DEF RefInv
  <2>4. e \in UnderWayNow
    BY <1>1 DEF UnderWayNow
  <2>5. Promise!Finish(e)
    BY <2>3, <2>4 DEF Promise!Finish, UnderWayNow
  <2>6. event'[e] = row /\ \A x \in Events \ {e} : event'[x] = event[x]
    BY <1>1, <2>2
  <2>7. BegunWasTaken'
    BY <1>1, <2>1, <2>6 DEF RefInv, BegunWasTaken
  <2> QED
    BY <1>1, <2>5, <2>7 DEF Promise!DispatchNext
<1> QED
  BY <1>0, <1>2, <1>3 DEF MarkProcessed

LEMMA FailedPutsBack ==
    ASSUME RefInv, NEW d \in Dispatchers, MarkFailed(d)
    PROVE  BegunWasTaken' /\ Promise!DispatchNext
<1>0. PICK e : e = batch[d].event
  OBVIOUS
<1> DEFINE row == [event[e] EXCEPT !.status = IF Exhausted(e) THEN "failed" ELSE "pending",
                                  !.due = FALSE]
<1>1. /\ e \in Events /\ event[e].status = "processing"
      /\ event \in [Events -> EventRow]
      /\ UNCHANGED <<webhooks, job>>
  <2>1. e # NoEvent
    BY <1>0 DEF MarkFailed
  <2> QED
    BY <1>0, <2>1, HeldIs DEF RefInv, IInv, TypeOK, ClaimedByOne, MarkFailed
<1>2. event' = [event EXCEPT ![e] = row]
  BY <1>0, <1>1 DEF MarkFailed
<1>3. /\ row.status = IF Exhausted(e) THEN "failed" ELSE "pending"
      /\ row.attempts = event[e].attempts
  BY <1>1 DEF EventRow
<1>4. /\ event[e].attempts \in 0..MaxAttempts /\ event[e].attempts > 0
      /\ TakenNow[e] = event[e].attempts
  BY <1>1 DEF RefInv, BegunWasTaken, EventRow, TakenNow
<1> HIDE DEF row
<1>5. event'[e] = row /\ \A x \in Events \ {e} : event'[x] = event[x]
  BY <1>1, <1>2
<1>6. ASSUME Exhausted(e)
      PROVE  Promise!GiveUp(e)
  <2>1. Promise!Becomes(e, "taken", "givenUp")
    BY <1>1, <1>2, <1>3, <1>6, RowBecomes, StandingIs DEF RefInv
  <2>2. TakenNow[e] = MaxAttempts
    BY <1>4, <1>6, OutboxAssumption DEF Exhausted
  <2> QED
    BY <2>1, <2>2 DEF Promise!GiveUp, TakenNow
<1>7. ASSUME ~Exhausted(e)
      PROVE  Promise!PutBack(e)
  <2>1. Promise!Becomes(e, "taken", "open")
    BY <1>1, <1>2, <1>3, <1>7, RowBecomes, StandingIs DEF RefInv
  <2>2. TakenNow[e] < MaxAttempts
    BY <1>4, <1>7, OutboxAssumption DEF Exhausted
  <2> QED
    BY <2>1, <2>2 DEF Promise!PutBack, TakenNow
<1>8. BegunWasTaken'
  BY <1>1, <1>3, <1>4, <1>5 DEF RefInv, BegunWasTaken
<1> QED
  BY <1>1, <1>6, <1>7, <1>8 DEF Promise!DispatchNext

LEMMA TableAnnounces ==
    ASSUME RefInv, NEW e \in Events, Commit(e) \/ BackoffElapses(e)
    PROVE  BegunWasTaken' /\ (Promise!DispatchNext \/ UNCHANGED Promise!dispatchVars)
<1>1. /\ event \in [Events -> EventRow] /\ webhooks \in [Events -> Nat]
      /\ UNCHANGED <<webhooks, job>>
  BY DEF RefInv, IInv, TypeOK, Commit, BackoffElapses
<1>2. CASE Commit(e)
  <2> DEFINE row == [status |-> "pending", attempts |-> 0, due |-> TRUE]
  <2>1. event[e].status = "none" /\ event[e].attempts = 0 /\ webhooks[e] = 0
    BY <1>1, <1>2 DEF Commit, RefInv, BegunWasTaken
  <2>2. event' = [event EXCEPT ![e] = row] /\ row.status = "pending" /\ row.attempts = 0
    BY <1>2 DEF Commit
  <2> HIDE DEF row
  <2>3. Promise!Announce(e)
    BY <1>1, <2>1, <2>2, RowBecomes, StandingIs DEF RefInv, Promise!Announce
  <2>4. event'[e] = row /\ \A x \in Events \ {e} : event'[x] = event[x]
    BY <1>1, <2>2
  <2>5. BegunWasTaken'
    BY <1>1, <2>1, <2>2, <2>4 DEF RefInv, BegunWasTaken
  <2> QED
    BY <2>3, <2>5 DEF Promise!DispatchNext
<1>3. CASE BackoffElapses(e)
  <2>1. \A x \in Events :
            event'[x].status = event[x].status /\ event'[x].attempts = event[x].attempts
    BY <1>1, <1>3 DEF BackoffElapses, EventRow
  <2>2. BegunWasTaken'
    BY <1>1, <2>1 DEF RefInv, BegunWasTaken
  <2>3. StandingNow' = StandingNow /\ TakenNow' = TakenNow /\ UnderWayNow' = UnderWayNow
    BY <1>1, <2>1 DEF StandingNow, TakenNow, UnderWayNow
  <2> QED
    BY <2>2, <2>3 DEF Promise!dispatchVars, StandingNow, TakenNow, UnderWayNow
<1> QED
  BY <1>2, <1>3

LEMMA MailStutters ==
    ASSUME RefInv, NEW k \in Keys, EmailStep(k) \/ Stall(k) \/ RemoveJob(k)
    PROVE  BegunWasTaken' /\ UNCHANGED Promise!dispatchVars
<1>1. event' = event /\ webhooks' = webhooks /\ job \in [Keys -> Job]
  BY DEF RefInv, IInv, TypeOK, EmailStep, SendEmail, MarkDelivered, Stall, RemoveJob
<1>2. \A x \in Keys : job'[x].status = "none" <=> job[x].status = "none"
  <2>1. job[k].status # "none" /\ \A x \in Keys \ {k} : job'[x] = job[x]
    BY <1>1 DEF EmailStep, SendEmail, MarkDelivered, TryFailed, Stall, RemoveJob
  <2>2. job[k] \in Job /\ job'[k].status # "none"
    BY <1>1 DEF EmailStep, SendEmail, MarkDelivered, TryFailed, Stall, RemoveJob, Job
  <2> QED
    BY <2>1, <2>2
<1>3. UnderWayNow' = UnderWayNow
  BY <1>1, <1>2, OutboxAssumption DEF UnderWayNow
<1> QED
  BY <1>1, <1>3, AbstractStutter DEF RefInv, BegunWasTaken

LEMMA StepImplements ==
    RefInv /\ [Next]_vars => BegunWasTaken' /\ [Promise!DispatchNext]_(Promise!dispatchVars)
<1> SUFFICES ASSUME RefInv, [Next]_vars
             PROVE  BegunWasTaken' /\ (Promise!DispatchNext \/ UNCHANGED Promise!dispatchVars)
  OBVIOUS
<1>1. CASE UNCHANGED <<event, webhooks, job>>
  <2>1. UnderWayNow' = UnderWayNow
    BY <1>1 DEF UnderWayNow
  <2> QED
    BY <1>1, <2>1, AbstractStutter DEF RefInv, BegunWasTaken
<1>2. ASSUME NEW d \in Dispatchers, RecordEmail(d) \/ LoseBatch(d)
      PROVE  UNCHANGED <<event, webhooks, job>>
  BY <1>2 DEF RecordEmail, LoseBatch
<1>3. CASE UNCHANGED vars
  BY <1>1, <1>3 DEF vars
<1>4. CASE Next
  BY <1>1, <1>2, <1>4, ClaimTakesUp, FanoutSetsUnderWay, EnqueueSetsUnderWay, ProcessedFinishes,
     FailedPutsBack, TableAnnounces, MailStutters
     DEF Next, DispatcherStep
<1> QED
  BY <1>3, <1>4

LEMMA InitImplements == Init => BegunWasTaken /\ Promise!DispatchInit
<1> SUFFICES ASSUME Init
             PROVE  BegunWasTaken /\ Promise!DispatchInit
  OBVIOUS
<1>1. BegunWasTaken
  BY DEF Init, BegunWasTaken
<1>2. StandingNow = [e \in Events |-> "none"] /\ TakenNow = [e \in Events |-> 0]
  BY StandingIs DEF Init, StandingNow, TakenNow
<1>3. UnderWayNow = {}
  BY DEF Init, UnderWayNow
<1> QED
  BY <1>1, <1>2, <1>3 DEF Promise!DispatchInit, StandingNow, TakenNow, UnderWayNow

(* The outbox implements Dispatch: whatever the number of events, workers   *)
(* and keys, an event is taken up by one at a time and at most MAX_ATTEMPTS *)
(* times, and is done, or given up, once and for good.                      *)
THEOREM Implementation == Spec => ImplementsDispatch
<1>1. RefInv /\ [Next]_vars => RefInv'
  BY StepHolds, StepImplements DEF RefInv
<1>2. Init => RefInv
  BY InitHolds, InitImplements DEF RefInv
<1> QED
  BY <1>1, <1>2, InitImplements, StepImplements, PTL
     DEF Spec, ImplementsDispatch, Promise!DispatchSpec
-----------------------------------------------------------------------------
(* What a stop costs                                                        *)

(* No dispatcher holds more than a batch. *)
HandsFull == \A d \in Dispatchers : IsFiniteSet(Held(d)) /\ Cardinality(Held(d)) <= BatchSize

StrandedNow == {e \in Events : Stranded(e)}

LossInv == IInv /\ HandsFull /\ AStopStrandsOneBatch

(* A part of what was no more than a batch is no more than a batch. *)
LEMMA PartOfABatch ==
    ASSUME NEW n \in Nat, NEW whole, IsFiniteSet(whole), Cardinality(whole) <= n,
           NEW part \in SUBSET whole
    PROVE  IsFiniteSet(part) /\ Cardinality(part) <= n
<1>1. /\ IsFiniteSet(part) /\ Cardinality(part) <= Cardinality(whole)
  BY FS_Subset
<1>2. Cardinality(whole) \in Nat /\ Cardinality(part) \in Nat
  BY <1>1, FS_CardinalityType
<1> QED
  BY <1>1, <1>2

(* A step under which nobody takes more into hand, and what is let go is    *)
(* no longer being processed, strands nothing.                              *)
LEMMA NothingStranded ==
    ASSUME LossInv, losses' = losses,
           \A d \in Dispatchers : Held(d)' \subseteq Held(d),
           \A e \in Events : event'[e].status = "processing" => event[e].status = "processing",
           \A d \in Dispatchers : \A e \in Held(d) \ Held(d)' : event'[e].status # "processing"
    PROVE  HandsFull' /\ AStopStrandsOneBatch'
<1>1. BatchSize \in Nat /\ losses * BatchSize \in Nat
  BY OutboxAssumption DEF LossInv, IInv, TypeOK
<1>2. HandsFull'
  BY <1>1, PartOfABatch DEF LossInv, HandsFull
<1>3. StrandedNow' \subseteq StrandedNow
  BY DEF StrandedNow, Stranded
<1>4. IsFiniteSet(StrandedNow) /\ Cardinality(StrandedNow) <= losses * BatchSize
  BY DEF LossInv, AStopStrandsOneBatch, StrandedNow
<1>5. IsFiniteSet(StrandedNow') /\ Cardinality(StrandedNow') <= losses * BatchSize
  BY <1>1, <1>3, <1>4, PartOfABatch
<1> QED
  BY <1>2, <1>5 DEF AStopStrandsOneBatch, StrandedNow

LEMMA ClaimStrandsNothing ==
    ASSUME LossInv, NEW d \in Dispatchers, ClaimBatch(d)
    PROVE  HandsFull' /\ AStopStrandsOneBatch'
<1>1. /\ batch \in [Dispatchers -> Batch] /\ batch[d] = NoBatch /\ losses' = losses
      /\ BatchSize \in Nat /\ losses * BatchSize \in Nat
  BY OutboxAssumption DEF LossInv, IInv, TypeOK, ClaimBatch
<1>2. PICK claimed \in SUBSET Claimable :
        /\ IsFiniteSet(claimed)
        /\ Cardinality(claimed) = BatchSize \/ Cardinality(claimed) < BatchSize
        /\ event' = [e \in Events |-> IF e \in claimed THEN ClaimedRow(e) ELSE event[e]]
        /\ batch' = [batch EXCEPT ![d].rest = claimed]
  BY DEF ClaimBatch
<1>3. Cardinality(claimed) <= BatchSize
  <2>1. Cardinality(claimed) \in Nat
    BY <1>2, FS_CardinalityType
  <2> QED
    BY <1>1, <1>2, <2>1
<1> DEFINE after == [rest |-> claimed, event |-> NoEvent, step |-> "fanout"]
<1>4. [batch[d] EXCEPT !.rest = claimed] = after
  BY <1>1 DEF NoBatch
<1>5. batch' = [batch EXCEPT ![d] = after] /\ after.rest = claimed /\ after.event = NoEvent
  BY <1>1, <1>2, <1>4
<1> HIDE DEF after
<1>6. batch'[d] = after /\ \A other \in Dispatchers \ {d} : batch'[other] = batch[other]
  BY <1>1, <1>5
<1>7. Held(d)' = claimed /\ \A other \in Dispatchers \ {d} : Held(other)' = Held(other)
  BY <1>5, <1>6 DEF Held
<1>8. HandsFull'
  BY <1>2, <1>3, <1>7 DEF LossInv, HandsFull
<1>9. Held(d) = {}
  BY <1>1 DEF Held, NoBatch
<1>10. \A e \in Events \ claimed : event'[e] = event[e]
  BY <1>2
<1>11. StrandedNow' \subseteq StrandedNow
  BY <1>7, <1>9, <1>10 DEF StrandedNow, Stranded
<1>12. IsFiniteSet(StrandedNow) /\ Cardinality(StrandedNow) <= losses * BatchSize
  BY DEF LossInv, AStopStrandsOneBatch, StrandedNow
<1>13. IsFiniteSet(StrandedNow') /\ Cardinality(StrandedNow') <= losses * BatchSize
  BY <1>1, <1>11, <1>12, PartOfABatch
<1> QED
  BY <1>1, <1>8, <1>13 DEF AStopStrandsOneBatch, StrandedNow

(* The loop over the batch: what it lets go is written first. *)
LEMMA LoopStrandsNothing ==
    ASSUME LossInv, NEW d \in Dispatchers,
           \/ FanoutWebhooks(d) \/ RecordEmail(d) \/ EnqueueEmail(d)
           \/ MarkProcessed(d) \/ MarkFailed(d)
    PROVE  HandsFull' /\ AStopStrandsOneBatch'
<1>0. TypeOK /\ LoopsInOrder /\ event \in [Events -> EventRow]
  BY DEF LossInv, IInv, TypeOK
<1>1. losses' = losses
  BY DEF FanoutWebhooks, RecordEmail, EnqueueEmail, MarkProcessed, MarkFailed
<1>2. ASSUME \A other \in Dispatchers : Held(other)' = Held(other), event' = event
      PROVE  HandsFull' /\ AStopStrandsOneBatch'
  BY <1>1, <1>2, NothingStranded
<1>3. CASE FanoutWebhooks(d)
  <2>1. event' = event /\ batch[d].event = NoEvent
    BY <1>3 DEF FanoutWebhooks
  <2>2. \E e \in batch[d].rest : \E step \in {"row", "failed"} :
          batch' = [batch EXCEPT ![d] = [rest |-> @.rest \ {e}, event |-> e, step |-> step]]
    BY <1>3 DEF FanoutWebhooks
  <2>3. \A other \in Dispatchers : Held(other)' = Held(other)
    BY <1>0, <2>1, <2>2, EventTaken
  <2> QED
    BY <1>2, <2>1, <2>3
<1>4. ASSUME NEW step \in {"enqueue", "processed", "failed"}, Goes(d, step), event' = event
      PROVE  HandsFull' /\ AStopStrandsOneBatch'
  <2>1. \A other \in Dispatchers : Held(other)' = Held(other)
    BY <1>0, <1>4, GoesOn
  <2> QED
    BY <1>2, <1>4, <2>1
<1>5. ASSUME NEW row, event' = [event EXCEPT ![batch[d].event] = row],
             row.status # "processing", batch[d].event # NoEvent,
             batch' = [batch EXCEPT ![d].event = NoEvent, ![d].step = "fanout"]
      PROVE  HandsFull' /\ AStopStrandsOneBatch'
  <2>1. /\ \A other \in Dispatchers \ {d} : Held(other)' = Held(other)
        /\ Held(d)' = Held(d) \ {batch[d].event}
    BY <1>0, <1>5, EventDone
  <2>2. batch[d].event \in Events
    BY <1>0, <1>5, HeldIs
  <2>3. /\ event'[batch[d].event].status # "processing"
        /\ \A e \in Events \ {batch[d].event} : event'[e] = event[e]
    BY <1>0, <1>5, <2>2
  <2> QED
    BY <1>1, <2>1, <2>3, NothingStranded
<1>6. CASE MarkProcessed(d) /\ event' # event
  <2>1. /\ batch[d].event \in Events /\ batch[d].event # NoEvent
    BY <1>0, <1>6, HeldIs DEF MarkProcessed
  <2>2. [event[batch[d].event] EXCEPT !.status = "processed"].status = "processed"
    BY <1>0, <2>1 DEF EventRow
  <2>3. /\ event' = [event EXCEPT ![batch[d].event] =
                       [event[batch[d].event] EXCEPT !.status = "processed"]]
        /\ batch' = [batch EXCEPT ![d].event = NoEvent, ![d].step = "fanout"]
    BY <1>6 DEF MarkProcessed
  <2> QED
    BY <1>5, <2>1, <2>2, <2>3
<1>7. CASE MarkFailed(d)
  <2> DEFINE status == IF Exhausted(batch[d].event) THEN "failed" ELSE "pending"
             row == [event[batch[d].event] EXCEPT !.status = status, !.due = FALSE]
  <2>1. batch[d].event \in Events /\ batch[d].event # NoEvent
    BY <1>0, <1>7, HeldIs DEF MarkFailed
  <2>2. row.status = status /\ status # "processing"
    BY <1>0, <2>1 DEF EventRow
  <2>3. event' = [event EXCEPT ![batch[d].event] = row]
    BY <1>0, <1>7, <2>1 DEF MarkFailed
  <2>4. batch' = [batch EXCEPT ![d].event = NoEvent, ![d].step = "fanout"]
    BY <1>7 DEF MarkFailed
  <2> HIDE DEF row
  <2> QED
    BY <1>5, <2>1, <2>2, <2>3, <2>4
<1>8. CASE (RecordEmail(d) \/ EnqueueEmail(d) \/ MarkProcessed(d)) /\ event' = event
  <2>1. CASE \E step \in {"enqueue", "processed", "failed"} : Goes(d, step)
    BY <1>4, <1>8, <2>1
  <2>2. CASE /\ MarkProcessed(d)
             /\ event' = [event EXCEPT ![batch[d].event].status = "processed"]
    <3>1. batch[d].event \in Events /\ event[batch[d].event].status = "processing"
      BY <1>0, <2>2, HeldIs DEF MarkProcessed, LossInv, IInv, ClaimedByOne
    <3>2. event'[batch[d].event].status = "processed"
      BY <1>0, <2>2, <3>1 DEF EventRow
    <3> QED
      BY <1>8, <3>1, <3>2
  <2> QED
    BY <1>8, <2>1, <2>2 DEF RecordEmail, EnqueueEmail, MarkProcessed
<1> QED
  BY <1>3, <1>6, <1>7, <1>8 DEF RecordEmail, EnqueueEmail

(* A stop strands what its dispatcher held. *)
LEMMA StopStrandsABatch ==
    ASSUME LossInv, NEW d \in Dispatchers, LoseBatch(d)
    PROVE  HandsFull' /\ AStopStrandsOneBatch'
<1>1. /\ batch \in [Dispatchers -> Batch] /\ batch' = [batch EXCEPT ![d] = NoBatch]
      /\ event' = event /\ losses' = losses + 1 /\ losses \in Nat
      /\ BatchSize \in Nat
  BY OutboxAssumption DEF LossInv, IInv, TypeOK, LoseBatch
<1>2. Held(d)' = {} /\ \A other \in Dispatchers \ {d} : Held(other)' = Held(other)
  <2>1. batch'[d] = NoBatch /\ \A other \in Dispatchers \ {d} : batch'[other] = batch[other]
    BY <1>1
  <2> QED
    BY <2>1 DEF Held, NoBatch
<1>3. HandsFull'
  BY <1>1, <1>2, FS_EmptySet DEF LossInv, HandsFull
<1>4. StrandedNow' \subseteq StrandedNow \cup Held(d)
  BY <1>1, <1>2 DEF StrandedNow, Stranded
<1>5. /\ IsFiniteSet(StrandedNow) /\ Cardinality(StrandedNow) <= losses * BatchSize
      /\ IsFiniteSet(Held(d)) /\ Cardinality(Held(d)) <= BatchSize
  BY DEF LossInv, HandsFull, AStopStrandsOneBatch, StrandedNow
<1>6. /\ IsFiniteSet(StrandedNow \cup Held(d))
      /\ Cardinality(StrandedNow \cup Held(d)) =
           Cardinality(StrandedNow) + Cardinality(Held(d)) - Cardinality(StrandedNow \cap Held(d))
  BY <1>5, FS_Union
<1>7. /\ Cardinality(StrandedNow) \in Nat /\ Cardinality(Held(d)) \in Nat
      /\ Cardinality(StrandedNow \cap Held(d)) \in Nat
  <2>1. IsFiniteSet(StrandedNow \cap Held(d))
    BY <1>5, FS_Subset
  <2> QED
    BY <1>5, <2>1, FS_CardinalityType
<1>8. (losses + 1) * BatchSize = losses * BatchSize + BatchSize /\ (losses + 1) * BatchSize \in Nat
  BY <1>1
<1>9. Cardinality(StrandedNow \cup Held(d)) <= (losses + 1) * BatchSize
  <2>1. losses * BatchSize \in Nat
    BY <1>1
  <2> QED
    BY <1>1, <1>5, <1>6, <1>7, <1>8, <2>1
<1>10. IsFiniteSet(StrandedNow') /\ Cardinality(StrandedNow') <= (losses + 1) * BatchSize
  BY <1>4, <1>6, <1>8, <1>9, PartOfABatch
<1> QED
  BY <1>1, <1>3, <1>10 DEF AStopStrandsOneBatch, StrandedNow

(* A stopped worker strands the events in its hands and no other: after any *)
(* number of stops no more than a batch for each is in the table, being     *)
(* processed by nobody.                                                     *)
THEOREM StopsBounded == Spec => []AStopStrandsOneBatch
<1>1. Init => LossInv
  <2> SUFFICES ASSUME Init
               PROVE  LossInv
    OBVIOUS
  <2>1. \A d \in Dispatchers : Held(d) = {}
    BY DEF Init, Held, NoBatch
  <2>2. StrandedNow = {}
    BY DEF Init, StrandedNow, Stranded
  <2>3. 0 * BatchSize = 0 /\ losses = 0 /\ BatchSize \in Nat
    BY OutboxAssumption DEF Init
  <2> QED
    BY <2>1, <2>2, <2>3, InitHolds, FS_EmptySet
       DEF LossInv, HandsFull, AStopStrandsOneBatch, StrandedNow
<1>2. LossInv /\ [Next]_vars => LossInv'
  <2> SUFFICES ASSUME LossInv, [Next]_vars
               PROVE  HandsFull' /\ AStopStrandsOneBatch'
    BY StepHolds DEF LossInv
  <2>1. ASSUME \A d \in Dispatchers : batch'[d] = batch[d], losses' = losses,
               \A e \in Events :
                 event'[e].status = "processing" => event[e].status = "processing"
        PROVE  HandsFull' /\ AStopStrandsOneBatch'
    <3>1. \A d \in Dispatchers : Held(d)' = Held(d)
      BY <2>1 DEF Held
    <3> QED
      BY <2>1, <3>1, NothingStranded
  <2>2. CASE UNCHANGED vars
    BY <2>1, <2>2 DEF vars
  <2>3. ASSUME NEW e \in Events, Commit(e) \/ BackoffElapses(e)
        PROVE  HandsFull' /\ AStopStrandsOneBatch'
    <3>1. event \in [Events -> EventRow]
      BY DEF LossInv, IInv, TypeOK
    <3>2. \A x \in Events : event'[x].status = "processing" => event[x].status = "processing"
      BY <2>3, <3>1 DEF Commit, BackoffElapses, EventRow
    <3> QED
      BY <2>1, <2>3, <3>2 DEF Commit, BackoffElapses
  <2>4. ASSUME NEW k \in Keys, EmailStep(k) \/ Stall(k) \/ RemoveJob(k)
        PROVE  HandsFull' /\ AStopStrandsOneBatch'
    BY <2>1, <2>4 DEF EmailStep, SendEmail, MarkDelivered, Stall, RemoveJob
  <2> QED
    BY <2>2, <2>3, <2>4, ClaimStrandsNothing, LoopStrandsNothing, StopStrandsABatch
       DEF Next, DispatcherStep
<1>3. LossInv => AStopStrandsOneBatch
  BY DEF LossInv
<1> QED
  BY <1>1, <1>2, <1>3, PTL DEF Spec
=============================================================================
