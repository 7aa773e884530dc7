------------------------------- MODULE Outbox -------------------------------
(***************************************************************************)
(* The transactional outbox and the mails it causes: the SQL functions     *)
(* outbox_claim_batch, outbox_mark_processed and outbox_mark_failed        *)
(* (migration 20260816000000_contacts), apps/worker/src/outbox/            *)
(* dispatcher.ts, integrations/webhook-fanout.ts up to the rows it         *)
(* inserts, email/producer.ts and email/handler.ts.                        *)
(*                                                                         *)
(* An event is written by the transaction whose effect it announces; each  *)
(* worker process claims events in batches and works through them.  Every  *)
(* statement and every call of the queue or of the mail server may fail,   *)
(* and a process may stop between any two of them.                         *)
(*                                                                         *)
(* The events are of a type one webhook endpoint subscribes to and that    *)
(* has an addressee (dispatcher.ts skips either effect when there is none, *)
(* and marks the event processed all the same).                            *)
(***************************************************************************)
EXTENDS Naturals, FiniteSets

CONSTANTS
    Events,         \* outbox rows
    Dispatchers,    \* worker processes
    Keys,           \* e-mail idempotency keys, which are also queue job ids
    Key,            \* the key of an event's e-mail
    BatchSize,      \* BATCH_SIZE
    MaxAttempts,    \* MAX_ATTEMPTS of an event
    EmailAttempts,  \* attempts of an e-mail job
    MaxStalls,      \* how often the queue hands out a stalled job again
    MaxLosses,      \* bound: how often a dispatcher stops, or loses the database
    NoEvent         \* a dispatcher between two events

ASSUME OutboxAssumption ==
    /\ Key \in [Events -> Keys]
    /\ BatchSize \in Nat \ {0}
    /\ MaxAttempts \in Nat \ {0}
    /\ EmailAttempts \in Nat \ {0}
    /\ MaxStalls \in Nat
    /\ MaxLosses \in Nat
    /\ NoEvent \notin Events

VARIABLES
    event,     \* outbox_events
    batch,     \* what each dispatcher has claimed and not finished
    webhooks,  \* how many webhook_deliveries rows each event has
    job,       \* the e-mail queue
    sent,      \* how often the mail server accepted the e-mail of a key
    losses     \* stops and outages so far

vars == <<event, batch, webhooks, job, sent, losses>>

EventRow ==
    [status : {"none", "pending", "processing", "processed", "failed"},
     attempts : 0..MaxAttempts,
     due : BOOLEAN]

Batch ==
    [rest : SUBSET Events,
     event : Events \cup {NoEvent},
     step : {"fanout", "row", "enqueue", "processed", "failed"}]

(* Not in the code: whether the queue had a job of the key and has removed   *)
(* it, and how many runs the removed ones had.                               *)
Job ==
    [status : {"none", "waiting", "accepted", "completed", "failed", "removed"},
     tries : 0..EmailAttempts,
     stalls : 0..(MaxStalls + 1),
     runsBefore : Nat]

NoJob == [status |-> "none", tries |-> 0, stalls |-> 0, runsBefore |-> 0]

NoBatch == [rest |-> {}, event |-> NoEvent, step |-> "fanout"]

Init ==
    /\ event = [e \in Events |-> [status |-> "none", attempts |-> 0, due |-> FALSE]]
    /\ batch = [d \in Dispatchers |-> NoBatch]
    /\ webhooks = [e \in Events |-> 0]
    /\ job = [k \in Keys |-> NoJob]
    /\ sent = [k \in Keys |-> 0]
    /\ losses = 0

-----------------------------------------------------------------------------
(* The table                                                                *)

(* The transaction that announces something commits, and with it the event. *)
Commit(e) ==
    /\ event[e].status = "none"
    /\ event' = [event EXCEPT ![e] = [status |-> "pending", attempts |-> 0, due |-> TRUE]]
    /\ UNCHANGED <<batch, webhooks, job, sent, losses>>

BackoffElapses(e) ==
    /\ event[e].status = "pending"
    /\ ~event[e].due
    /\ event' = [event EXCEPT ![e].due = TRUE]
    /\ UNCHANGED <<batch, webhooks, job, sent, losses>>

ClaimableOnce ==
    {e \in Events : event[e].status = "pending" /\ event[e].due /\ event[e].attempts = 0}

Claimable == {e \in Events : event[e].status = "pending" /\ event[e].due}

ClaimedStillPending(e) == [event[e] EXCEPT !.attempts = @ + 1]

(* The row outbox_claim_batch leaves behind. *)
ClaimedRow(e) == [event[e] EXCEPT !.status = "processing", !.attempts = @ + 1]

(* FOR UPDATE SKIP LOCKED and the change of status are one statement; its   *)
(* LIMIT is the batch size.                                                 *)
ClaimBatch(d) ==
    /\ batch[d] = NoBatch
    /\ \E claimed \in SUBSET Claimable :
        /\ IsFiniteSet(claimed)
        /\ claimed # {}
        /\ \/ Cardinality(claimed) = BatchSize
           \/ claimed = Claimable /\ Cardinality(claimed) < BatchSize
        /\ event' = [e \in Events |-> IF e \in claimed THEN ClaimedRow(e) ELSE event[e]]
        /\ batch' = [batch EXCEPT ![d].rest = claimed]
    /\ UNCHANGED <<webhooks, job, sent, losses>>

-----------------------------------------------------------------------------
(* The dispatcher's loop over its batch.  A step that throws takes the      *)
(* event to mark_failed.                                                    *)

Goes(d, step) == batch' = [batch EXCEPT ![d].step = step]

(* createMany with skipDuplicates, unique on (endpoint, event). *)
Inserted(e) == IF webhooks[e] = 0 THEN 1 ELSE webhooks[e]

FanoutWebhooks(d) ==
    /\ batch[d].event = NoEvent
    /\ \E e \in batch[d].rest :
        \/ /\ batch' = [batch EXCEPT ![d] = [rest |-> @.rest \ {e}, event |-> e, step |-> "row"]]
           /\ webhooks' = [webhooks EXCEPT ![e] = Inserted(e)]
        \/ /\ batch' = [batch EXCEPT ![d] = [rest |-> @.rest \ {e}, event |-> e, step |-> "failed"]]
           /\ UNCHANGED webhooks
    /\ UNCHANGED <<event, job, sent, losses>>

(* enqueueEmail inserts a notification_deliveries row, then adds the job:   *)
(* two systems.  The row is a log that nothing here reads.                  *)
RecordEmail(d) ==
    /\ batch[d].event # NoEvent
    /\ batch[d].step = "row"
    /\ Goes(d, "enqueue") \/ Goes(d, "failed")
    /\ UNCHANGED <<event, webhooks, job, sent, losses>>

AddAgain(k) == [job[k] EXCEPT !.status = "waiting", !.tries = 0, !.stalls = 0]

(* The queue knows the key as long as it keeps the job: until then a second *)
(* add of it is ignored, be the job waiting, completed or failed.           *)
AddJob(k) ==
    IF job[k].status \in {"none", "removed"} THEN AddAgain(k) ELSE job[k]

EnqueueEmail(d) ==
    LET e == batch[d].event
    IN  /\ e # NoEvent
        /\ batch[d].step = "enqueue"
        /\ \/ /\ job' = [job EXCEPT ![Key[e]] = AddJob(Key[e])]
              /\ Goes(d, "processed")
           \/ /\ Goes(d, "failed")
              /\ UNCHANGED job
        /\ UNCHANGED <<event, webhooks, sent, losses>>

MarkProcessed(d) ==
    LET e == batch[d].event
    IN  /\ e # NoEvent
        /\ batch[d].step = "processed"
        /\ \/ /\ event' = [event EXCEPT ![e].status = "processed"]
              /\ batch' = [batch EXCEPT ![d].event = NoEvent, ![d].step = "fanout"]
           \/ /\ Goes(d, "failed")
              /\ UNCHANGED event
        /\ UNCHANGED <<webhooks, job, sent, losses>>

GivesUpEarly(e) == event[e].attempts + 1 >= MaxAttempts

Exhausted(e) == event[e].attempts >= MaxAttempts

FailsSilently(d) ==
    /\ batch[d].event # NoEvent
    /\ batch[d].step = "failed"
    /\ batch' = [batch EXCEPT ![d].event = NoEvent, ![d].step = "fanout"]
    /\ UNCHANGED <<event, webhooks, job, sent, losses>>

MarkFailed(d) ==
    LET e == batch[d].event
    IN  /\ e # NoEvent
        /\ batch[d].step = "failed"
        /\ event' = [event EXCEPT
             ![e].status = IF Exhausted(e) THEN "failed" ELSE "pending", ![e].due = FALSE]
        /\ batch' = [batch EXCEPT ![d].event = NoEvent, ![d].step = "fanout"]
        /\ UNCHANGED <<webhooks, job, sent, losses>>

(* The process stops; or mark_failed itself throws, which leaves the loop   *)
(* and with it the rest of the batch.                                       *)
LoseBatch(d) ==
    /\ losses < MaxLosses
    /\ batch[d] # NoBatch
    /\ batch' = [batch EXCEPT ![d] = NoBatch]
    /\ losses' = losses + 1
    /\ UNCHANGED <<event, webhooks, job, sent>>

-----------------------------------------------------------------------------
(* The e-mail worker                                                        *)

TryFailed(k) ==
    job' = [job EXCEPT
      ![k].status = IF job[k].tries + 1 < EmailAttempts THEN "waiting" ELSE "failed",
      ![k].tries = @ + 1]

SendEmail(k) ==
    /\ job[k].status = "waiting"
    /\ \/ /\ job' = [job EXCEPT ![k].status = "accepted"]
          /\ sent' = [sent EXCEPT ![k] = @ + 1]
       \/ /\ TryFailed(k)
          /\ UNCHANGED sent
    /\ UNCHANGED <<event, batch, webhooks, losses>>

(* The e-mail is out; should recording it fail, the queue tries it again. *)
MarkDelivered(k) ==
    /\ job[k].status = "accepted"
    /\ \/ job' = [job EXCEPT ![k].status = "completed"]
       \/ TryFailed(k)
    /\ UNCHANGED <<event, batch, webhooks, sent, losses>>

(* The process stops, before or after the mail server has accepted the       *)
(* e-mail.  The queue finds the job stalled and hands it out again, which is *)
(* no failed try; the last time it gives the job up.                         *)
Stall(k) ==
    /\ job[k].status \in {"waiting", "accepted"}
    /\ job' = [job EXCEPT
         ![k].status = IF job[k].stalls < MaxStalls THEN "waiting" ELSE "failed",
         ![k].stalls = @ + 1]
    /\ UNCHANGED <<event, batch, webhooks, sent, losses>>

(* The runs of a job: those that failed, those that stalled, and the last.   *)
Runs(j) == j.tries + j.stalls + (IF j.status \in {"accepted", "completed"} THEN 1 ELSE 0)

(* removeOnComplete and removeOnFail: what is over is kept for a time, and   *)
(* as long as there is not too much of it.                                   *)
RemoveJob(k) ==
    /\ job[k].status \in {"completed", "failed"}
    /\ job' = [job EXCEPT ![k] =
         [status |-> "removed", tries |-> 0, stalls |-> 0,
          runsBefore |-> @.runsBefore + Runs(@)]]
    /\ UNCHANGED <<event, batch, webhooks, sent, losses>>

DispatcherStep(d) ==
    \/ ClaimBatch(d)
    \/ FanoutWebhooks(d)
    \/ RecordEmail(d)
    \/ EnqueueEmail(d)
    \/ MarkProcessed(d)
    \/ MarkFailed(d)

EmailStep(k) == SendEmail(k) \/ MarkDelivered(k)

Next ==
    \/ \E e \in Events : Commit(e) \/ BackoffElapses(e)
    \/ \E d \in Dispatchers : DispatcherStep(d) \/ LoseBatch(d)
    \/ \E k \in Keys : EmailStep(k) \/ Stall(k) \/ RemoveJob(k)

(* The dispatch job is repeated every two seconds, the queue hands every    *)
(* waiting job to the e-mail worker, and time passes.  Nothing obliges a    *)
(* step to succeed.                                                         *)
Fairness ==
    /\ \A e \in Events : WF_vars(BackoffElapses(e))
    /\ \A d \in Dispatchers : WF_vars(DispatcherStep(d))
    /\ \A k \in Keys : WF_vars(EmailStep(k))

Spec == Init /\ [][Next]_vars

FairSpec == Spec /\ Fairness

-----------------------------------------------------------------------------
(* Properties                                                               *)

(* Every column and every local holds a value of its type. *)
TypeOK ==
    /\ event \in [Events -> EventRow]
    /\ batch \in [Dispatchers -> Batch]
    /\ webhooks \in [Events -> Nat]
    /\ job \in [Keys -> Job]
    /\ sent \in [Keys -> Nat]
    /\ losses \in 0..MaxLosses

Held(d) == batch[d].rest \cup ({batch[d].event} \ {NoEvent})

(* dispatcher.ts: several workers at once are safe, for no two of them hold *)
(* the same event; and what one holds, nobody else has finished or failed.  *)
ClaimedByOne ==
    \A d \in Dispatchers :
        /\ \A e \in Held(d) : event[e].status = "processing"
        /\ \A other \in Dispatchers \ {d} : Held(d) \cap Held(other) = {}

(* An event is marked processed only when all it causes is under way: its   *)
(* deliveries are rows, once each however often it was tried, and its       *)
(* e-mail is known to the queue.                                            *)
ProcessedWasDone ==
    \A e \in Events :
        /\ webhooks[e] <= 1
        /\ event[e].status = "processed" =>
             webhooks[e] = 1 /\ job[Key[e]].status # "none"

(* However many events, attempts and workers ask for the e-mail of a key,   *)
(* it goes out once, and once more at most for each run that failed or      *)
(* stalled after it had gone out, and for each run of a job that the queue  *)
(* had removed when it was asked again.  handler.ts and producer.ts admit   *)
(* no others.                                                               *)
ExtraMailsAreReruns ==
    \A k \in Keys : sent[k] <= job[k].runsBefore + Runs(job[k])

(* mark_failed returns an event to the queue until its attempts are used    *)
(* up: an outage shorter than they last loses nothing.                      *)
FailsOnlyAfterAllAttempts ==
    \A e \in Events : event[e].status = "failed" => event[e].attempts = MaxAttempts

(* An event whose dispatcher was lost while holding it. *)
Stranded(e) ==
    /\ event[e].status = "processing"
    /\ \A d \in Dispatchers : e \notin Held(d)

(* A stop costs what one dispatcher held, and nothing else strands an       *)
(* event: neither a step that throws, nor a call that fails, nor another    *)
(* dispatcher's batch.                                                      *)
AStopStrandsOneBatch ==
    LET stranded == {e \in Events : Stranded(e)}
    IN  IsFiniteSet(stranded) /\ Cardinality(stranded) <= losses * BatchSize

(* Every event comes to an end, processed or given up, unless it is         *)
(* stranded: no event is retried for ever and none is forgotten in the      *)
(* table.                                                                   *)
EventsResolve ==
    \A e \in Events :
        (event[e].status = "pending")
            ~> (event[e].status \in {"processed", "failed"} \/ Stranded(e))

(* The promise of Dispatch: an event maps to its status and its attempts,   *)
(* and what it causes is under way when its deliveries are rows, once each, *)
(* and the queue knows its e-mail.                                          *)
Standing == [none |-> "none", pending |-> "open", processing |-> "taken",
             processed |-> "done", failed |-> "givenUp"]

Promise == INSTANCE Dispatch WITH
    standing <- [e \in Events |-> Standing[event[e].status]],
    taken <- [e \in Events |-> event[e].attempts],
    underWay <- {e \in Events : webhooks[e] = 1 /\ job[Key[e]].status # "none"}

(* The outbox, its functions, the dispatchers and the e-mail queue together *)
(* implement the promise: what two workers do to one event is what one      *)
(* does, no attempt is skipped or repeated, and an outage shorter than the  *)
(* attempts loses nothing.                                                  *)
ImplementsDispatch == Promise!DispatchSpec

-----------------------------------------------------------------------------
(* What comments and docs say, and the code does not do                     *)

(* docs/contacts/capture.md, 5: the outbox is there so that no failure      *)
(* leaves a row without its notification.  A claim has no expiry: nothing   *)
(* ever looks at an event that is "processing" and held by nobody.          *)
NoEventIsStranded == \A e \in Events : ~Stranded(e)

(* producer.ts:39: the key keeps one visitor from being thanked twice for    *)
(* one event.  It does while the queue keeps the job (producer.ts:78) and no *)
(* run fails, or stalls, between sending and recording (handler.ts:16).      *)
ThankedOnce == \A k \in Keys : sent[k] <= 1
=============================================================================
