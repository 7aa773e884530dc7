-------------------------------- MODULE Scans --------------------------------
(***************************************************************************)
(* Scanning a paper card: create, scanQr, confirm and discard of           *)
(* apps/api/src/scans/scans.service.ts and the extraction job of           *)
(* apps/worker/src/scans/handler.ts.                                       *)
(*                                                                         *)
(* The worker reads the row, marks it, asks an engine elsewhere and writes *)
(* what it read; meanwhile the person who took the picture may type the    *)
(* contact in and confirm it, or throw the scan away.  Either deletes the  *)
(* picture in further steps.  Processes may stop, statements, storage and  *)
(* the queue may fail, and a run that lost its job to the queue's patience *)
(* may go on beside the one that got it.                                   *)
(***************************************************************************)
EXTENDS Naturals

CONSTANTS
    Scans,       \* rows of scan_jobs
    Requests,    \* windows of the person, with the API call each makes
    Runs,        \* places in the workers' processes, four in each
    Attempts,    \* attempts of the extraction job
    MaxFaults,   \* bound: how often a process stops or something fails
    NoScan       \* a request or a run about no scan

ASSUME ScansAssumption ==
    /\ Attempts \in Nat \ {0}
    /\ MaxFaults \in Nat
    /\ NoScan \notin Scans

VARIABLES
    scan,       \* scan_jobs
    stored,     \* scans whose picture is in object storage
    job,        \* the extraction of a scan
    run,        \* handleScanExtraction under way
    request,    \* a confirmation or a discarding under way
    contacts,   \* how many contacts were written from a scan
    blind,      \* of these, by windows another had overtaken
    reopened,   \* how often an extraction wrote to a saved scan
    decided,    \* scans somebody has confirmed or discarded
    cut,        \* steps at which the removal of a picture was cut short
    lost,       \* scans whose job, or the end of whose run, was lost
    faults

ghosts == <<contacts, blind, reopened, decided, cut, lost>>

vars == <<scan, stored, job, run, request, ghosts, faults>>

Row ==
    [status : {"none", "pending", "processing", "review", "saved", "failed", "discarded"},
     file : {"none", "uploaded", "deleted"}]  \* fileId, and deletedAt of its file

Job ==
    [queue : {"none", "waiting", "active", "exhausted"},
     attempts : 0..Attempts,  \* attempts that have thrown
     stalled : BOOLEAN,       \* whether a run has lost it before
     holders : SUBSET Runs]   \* the run that has it

NoJob == [queue |-> "none", attempts |-> 0, stalled |-> FALSE, holders |-> {}]

Run == [step : {"idle", "look", "mark", "recognize"}, scan : Scans \cup {NoScan}]

NoRun == [step |-> "idle", scan |-> NoScan]

Removal == {"image", "find", "mark", "delete", "forget"}

Request ==
    [step : {"idle", "read", "write"} \cup Removal,
     scan : Scans \cup {NoScan},
     overtaken : BOOLEAN]   \* whether another saved the scan since it was read

NoRequest == [step |-> "idle", scan |-> NoScan, overtaken |-> FALSE]

TypeOK ==
    /\ scan \in [Scans -> Row]
    /\ stored \in SUBSET Scans
    /\ job \in [Scans -> Job]
    /\ run \in [Runs -> Run]
    /\ request \in [Requests -> Request]
    /\ contacts \in [Scans -> Nat]
    /\ blind \in [Scans -> Nat]
    /\ reopened \in [Scans -> Nat]
    /\ decided \in SUBSET Scans
    /\ cut \in [Scans -> SUBSET Removal]
    /\ lost \in SUBSET Scans
    /\ faults \in 0..MaxFaults

Init ==
    /\ scan = [s \in Scans |-> [status |-> "none", file |-> "none"]]
    /\ stored = {}
    /\ job = [s \in Scans |-> NoJob]
    /\ run = [r \in Runs |-> NoRun]
    /\ request = [c \in Requests |-> NoRequest]
    /\ contacts = [s \in Scans |-> 0]
    /\ blind = [s \in Scans |-> 0]
    /\ reopened = [s \in Scans |-> 0]
    /\ decided = {}
    /\ cut = [s \in Scans |-> {}]
    /\ lost = {}
    /\ faults = 0

Busy == {"pending", "processing"}

Fault == faults < MaxFaults /\ faults' = faults + 1

-----------------------------------------------------------------------------
(* create and scanQr                                                        *)

(* The picture has been uploaded; the job may not reach the queue. *)
Create(s) ==
    /\ scan[s].status = "none"
    /\ scan' = [scan EXCEPT ![s] = [@ EXCEPT !.status = "pending", !.file = "uploaded"]]
    /\ stored' = stored \cup {s}
    /\ \/ job' = [job EXCEPT ![s].queue = "waiting"] /\ UNCHANGED <<lost, faults>>
       \/ Fault /\ lost' = lost \cup {s} /\ UNCHANGED job
    /\ UNCHANGED <<run, request, contacts, blind, reopened, decided, cut>>

ScanQr(s) ==
    /\ scan[s].status = "none"
    /\ scan' = [scan EXCEPT ![s].status = "review"]
    /\ UNCHANGED <<stored, job, run, request, ghosts, faults>>

-----------------------------------------------------------------------------
(* handleScanExtraction                                                     *)

Free == {r \in Runs : run[r] = NoRun}

(* In a free place: they are alike. *)
RunJob(s) ==
    /\ job[s].queue = "waiting"
    /\ Free # {}
    /\ LET r == CHOOSE r \in Free : TRUE
       IN  /\ run' = [run EXCEPT ![r] = [step |-> "look", scan |-> s]]
           /\ job' = [job EXCEPT ![s] = [@ EXCEPT !.queue = "active", !.holders = {r}]]
    /\ UNCHANGED <<scan, stored, request, ghosts, faults>>

JobDone(s) == job' = [job EXCEPT ![s] = NoJob]

RunEnds(r) == run' = [run EXCEPT ![r] = NoRun]

RunGoesOn(r, step) == run' = [run EXCEPT ![r].step = step]

Holds(r) == r \in job[run[r].scan].holders

(* A run that lost its job ends unnoticed. *)
Completes(r) == RunEnds(r) /\ IF Holds(r) THEN JobDone(run[r].scan) ELSE UNCHANGED job

(* fail: what is settled is left alone. *)
Fail(s) ==
    scan' = IF scan[s].status \in Busy THEN [scan EXCEPT ![s].status = "failed"] ELSE scan

Reopens(s) ==
    reopened' = IF scan[s].status = "saved" THEN [reopened EXCEPT ![s] = @ + 1] ELSE reopened

(* The row and its file are read, what is settled is passed over. *)
Look(r) ==
    /\ run[r].step = "look"
    /\ LET s == run[r].scan
       IN  \/ scan[s].status \notin Busy /\ Completes(r) /\ UNCHANGED scan
           \/ scan[s].status \in Busy /\ scan[s].file # "uploaded" /\ Completes(r) /\ Fail(s)
           \/ /\ scan[s].status \in Busy /\ scan[s].file = "uploaded"
              /\ RunGoesOn(r, "mark")
              /\ UNCHANGED <<scan, job>>
    /\ UNCHANGED <<stored, request, ghosts, faults>>

(* By identity, whatever the row has become. *)
MarkProcessing(r) ==
    /\ run[r].step = "mark"
    /\ scan' = [scan EXCEPT ![run[r].scan].status = "processing"]
    /\ RunGoesOn(r, "recognize")
    /\ Reopens(run[r].scan)
    /\ UNCHANGED <<stored, job, request, contacts, blind, decided, cut, lost, faults>>

(* review, by identity: with what was read, or with nothing for the person  *)
(* to fill in, also when no engine is configured.                           *)
Review(r) ==
    /\ run[r].step = "recognize"
    /\ LET s == run[r].scan
       IN  scan' = [scan EXCEPT ![s].status = "review"] /\ Reopens(s)
    /\ Completes(r)
    /\ UNCHANGED <<stored, request, contacts, blind, decided, cut, lost, faults>>

NeverExhausted(s) == FALSE

Exhausted(s) == job[s].attempts + 1 >= Attempts

Again(s) == [job[s] EXCEPT !.queue = "waiting", !.holders = {}]

(* What is thrown ends the run, and the attempt of the job if it has one; a *)
(* run without one may leave the row it marked.                             *)
RunFails(r) ==
    LET s == run[r].scan
    IN  /\ run[r].step # "idle"
        /\ IF Holds(r)
           THEN /\ job' = [job EXCEPT ![s] =
                     IF Exhausted(s) THEN [NoJob EXCEPT !.queue = "exhausted"]
                     ELSE IF job[s].attempts + 1 < Attempts
                     THEN [Again(s) EXCEPT !.attempts = @ + 1]
                     ELSE NoJob]
                /\ UNCHANGED lost
           ELSE lost' = lost \cup {s} /\ UNCHANGED job
        /\ RunEnds(r)
        /\ UNCHANGED <<scan, stored, request, contacts, blind, reopened, decided, cut, faults>>

(* handleScanExtractionFailure, whose own failure is only logged. *)
MarkFailed(s) ==
    /\ job[s].queue = "exhausted"
    /\ \/ Fail(s) /\ UNCHANGED <<lost, faults>>
       \/ Fault /\ lost' = lost \cup {s} /\ UNCHANGED scan
    /\ JobDone(s)
    /\ UNCHANGED <<stored, run, request, contacts, blind, reopened, decided, cut>>

(* The run's process stops, or is too slow to keep its job and goes on: the *)
(* queue hands the job out again, once, and tells the hook nothing when it  *)
(* gives it up the second time.                                             *)
WorkerStops(s) ==
    /\ job[s].queue = "active"
    /\ Fault
    /\ IF job[s].stalled
       THEN JobDone(s) /\ lost' = lost \cup {s}
       ELSE job' = [job EXCEPT ![s] = [Again(s) EXCEPT !.stalled = TRUE]] /\ UNCHANGED lost
    /\ \/ UNCHANGED run
       \/ \E r \in job[s].holders : RunEnds(r)
    /\ UNCHANGED <<scan, stored, request, contacts, blind, reopened, decided, cut>>

-----------------------------------------------------------------------------
(* confirm and discard                                                      *)

Leave(c) == request' = [request EXCEPT ![c] = NoRequest]

GoTo(c, step) == request' = [request EXCEPT ![c].step = step]

StartConfirm(c, s) ==
    /\ request[c] = NoRequest
    /\ scan[s].status # "none"
    /\ request' = [request EXCEPT ![c] = [NoRequest EXCEPT !.step = "read", !.scan = s]]
    /\ UNCHANGED <<scan, stored, job, run, ghosts, faults>>

NeverSaved(s) == FALSE

Saved(s) == scan[s].status = "saved"

(* The transaction reads the row; what is saved is answered as before, *)
ReadScan(c) ==
    /\ request[c].step = "read"
    /\ GoTo(c, IF Saved(request[c].scan) THEN "image" ELSE "write")
    /\ UNCHANGED <<scan, stored, job, run, ghosts, faults>>

(* else a contact is written with its consents and its event, and the row   *)
(* marked by identity.                                                      *)
SaveContact(c) ==
    LET s == request[c].scan
    IN  /\ request[c].step = "write"
        /\ contacts' = [contacts EXCEPT ![s] = @ + 1]
        /\ blind' = IF request[c].overtaken THEN [blind EXCEPT ![s] = @ + 1] ELSE blind
        /\ scan' = [scan EXCEPT ![s].status = "saved"]
        /\ decided' = decided \cup {s}
        /\ request' = [d \in Requests |->
             IF d = c THEN [NoRequest EXCEPT !.step = "image", !.scan = s]
             ELSE IF request[d].step = "write" /\ request[d].scan = s
             THEN [request[d] EXCEPT !.overtaken = TRUE]
             ELSE request[d]]
        /\ UNCHANGED <<stored, job, run, reopened, cut, lost, faults>>

Discard(c, s) ==
    /\ request[c] = NoRequest
    /\ scan[s].status \in Busy \cup {"review", "failed"}
    /\ scan' = [scan EXCEPT ![s].status = "discarded"]
    /\ decided' = decided \cup {s}
    /\ request' = [request EXCEPT ![c] = [NoRequest EXCEPT !.step = "image", !.scan = s]]
    /\ UNCHANGED <<stored, job, run, contacts, blind, reopened, cut, lost, faults>>

(* deleteImage: the row names the picture; *)
FindImage(c) ==
    /\ request[c].step = "image"
    /\ IF scan[request[c].scan].file # "none" THEN GoTo(c, "find") ELSE Leave(c)
    /\ UNCHANGED <<scan, stored, job, run, ghosts, faults>>

(* FilesService.remove finds its file, unless that was marked before, *)
FindFile(c) ==
    /\ request[c].step = "find"
    /\ IF scan[request[c].scan].file = "uploaded" THEN GoTo(c, "mark") ELSE Leave(c)
    /\ UNCHANGED <<scan, stored, job, run, ghosts, faults>>

(* marks it by identity, *)
MarkFile(c) ==
    /\ request[c].step = "mark"
    /\ scan' = [scan EXCEPT ![request[c].scan].file = IF @ = "none" THEN @ ELSE "deleted"]
    /\ GoTo(c, "delete")
    /\ UNCHANGED <<stored, job, run, ghosts, faults>>

NotRemoved(s) == stored

Removed(s) == stored \ {s}

(* and deletes the object, whose failure it keeps to itself; *)
DeleteObject(c) ==
    LET s == request[c].scan
    IN  /\ request[c].step = "delete"
        /\ \/ stored' = Removed(s) /\ UNCHANGED <<cut, faults>>
           \/ Fault /\ cut' = [cut EXCEPT ![s] = @ \cup {"delete"}] /\ UNCHANGED stored
        /\ GoTo(c, "forget")
        /\ UNCHANGED <<scan, job, run, contacts, blind, reopened, decided, lost>>

(* then the row forgets it. *)
ForgetImage(c) ==
    /\ request[c].step = "forget"
    /\ scan' = [scan EXCEPT ![request[c].scan].file = "none"]
    /\ Leave(c)
    /\ UNCHANGED <<stored, job, run, ghosts, faults>>

(* The API's process stops, or a statement fails, which deleteImage logs. *)
RequestFails(c) ==
    LET r == request[c]
    IN  /\ r # NoRequest
        /\ Fault
        /\ cut' = IF r.step \in Removal THEN [cut EXCEPT ![r.scan] = @ \cup {r.step}] ELSE cut
        /\ Leave(c)
        /\ UNCHANGED <<scan, stored, job, run, contacts, blind, reopened, decided, lost>>

-----------------------------------------------------------------------------

RunStep(r) == Look(r) \/ MarkProcessing(r) \/ Review(r) \/ RunFails(r)

RequestStep(c) ==
    \/ \E s \in Scans : StartConfirm(c, s) \/ Discard(c, s)
    \/ ReadScan(c)
    \/ SaveContact(c)
    \/ FindImage(c)
    \/ FindFile(c)
    \/ MarkFile(c)
    \/ DeleteObject(c)
    \/ ForgetImage(c)
    \/ RequestFails(c)

Next ==
    \/ \E s \in Scans : Create(s) \/ ScanQr(s) \/ RunJob(s) \/ MarkFailed(s) \/ WorkerStops(s)
    \/ \E r \in Runs : RunStep(r)
    \/ \E c \in Requests : RequestStep(c)

Spec == Init /\ [][Next]_vars

(* The workers go on with what they have and what waits; no attempt has to  *)
(* succeed, and nobody has to decide on a scan.                             *)
Fairness ==
    /\ \A s \in Scans : WF_vars(RunJob(s)) /\ WF_vars(MarkFailed(s))
    /\ \A r \in Runs : WF_vars(RunStep(r))

FairSpec == Spec /\ Fairness

-----------------------------------------------------------------------------
(* Properties                                                               *)

(* confirm: a form sent again, from one window or from two, writes one      *)
(* contact.  A further one has its cause, one for each: a window that had   *)
(* read the scan before another saved it, or an extraction that wrote over  *)
(* the saved scan.                                                          *)
ExtraContactsAreExplained ==
    \A s \in Scans : contacts[s] <= 1 + blind[s] + reopened[s]

(* deleteImage, FilesService.remove: what is left of the picture of a       *)
(* decided scan tells where its removal was cut short: before the mark,     *)
(* with the picture still in use; at the deletion, with an object nothing   *)
(* shows; or after it, with a row that names a deleted file.  Whatever      *)
(* fails, a file that is shown has its object.                              *)
RemovalStopsWhereItWasCut ==
    \A s \in Scans :
        /\ scan[s].file = "uploaded" => s \in stored
        /\ s \in decided /\ (\A c \in Requests : request[c].scan # s) =>
            /\ scan[s].file = "uploaded" => cut[s] \cap {"image", "find", "mark"} # {}
            /\ s \in stored /\ scan[s].file # "uploaded" => "delete" \in cut[s]
            /\ scan[s].file = "deleted" => cut[s] \cap {"delete", "forget"} # {}

(* handleScanExtractionFailure: however its attempts end, who decides       *)
(* meanwhile and whatever runs beside it, the extraction of a scan leaves   *)
(* no spinner turning for ever, unless the job never came to the queue or   *)
(* was given up by it, the hook failed, or a run without a job ended early. *)
ScansEnd == \A s \in Scans : <>[](scan[s].status \in Busy => s \in lost)

-----------------------------------------------------------------------------
(* What docs and comments say, and the code does not do                     *)

(* handler.ts, above handleScanExtraction: what is saved or discarded is    *)
(* passed over.  But the row is read before the engine is asked, and then   *)
(* written by identity.                                                     *)
DecidedStaysDecided ==
    [][\A s \in Scans : scan[s].status \in {"saved", "discarded"} =>
            scan'[s].status \in {"saved", "discarded"}]_scan

(* confirm: a screen that is open twice gets the same answer, and no second *)
(* row is written.  But the row is read without a lock, and written by      *)
(* identity.                                                                *)
OneContactPerScan == \A s \in Scans : contacts[s] <= 1

(* docs/events/lead-capture.md, deleteImage and FilesService.remove: a      *)
(* deletion that fails is picked up by a later clean-up.  But there is no   *)
(* such job: once no window is about a scan, what is left of it stays.      *)
PicturesAreCleanedUp ==
    \A s \in Scans :
        s \in decided ~> s \notin stored \/ \E c \in Requests : request[c].scan = s

(* deleteImage: the row carries the time at which its picture should have   *)
(* been deleted.  But it is stamped only after a deletion, and also where   *)
(* storage had failed.                                                      *)
StampedMeansDeleted ==
    \A s \in Scans : s \in decided /\ scan[s].file = "none" => s \notin stored

(* main.ts and handler.ts, at the failed hook: no scan is processing for    *)
(* ever.  But the hook is not told of a job given up as stalled, and its    *)
(* own failure is logged.                                                   *)
NoSpinnerForEver ==
    \A s \in Scans : scan[s].status \in Busy ~> scan[s].status \notin Busy
=============================================================================
