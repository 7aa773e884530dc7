----------------------------- MODULE ScansProofs -----------------------------
(***************************************************************************)
(* Scans for any number of scans, windows, places, attempts and faults:    *)
(* why a scan left more than one contact, where the removal of its picture *)
(* stopped, and what a spinner still waits for.                            *)
(***************************************************************************)
EXTENDS Scans, TLAPS

(* A call under way is about a scan, and so is a run; a job is held by a    *)
(* run about its scan.                                                      *)
RequestsAreAbout ==
    \A c \in Requests : request[c].scan \in Scans \/ request[c] = NoRequest

RunsAreAbout ==
    /\ \A r \in Runs : run[r].scan \in Scans \/ run[r] = NoRun
    /\ \A s \in Scans : \A r \in job[s].holders : run[r].scan = s

(* Before its upload a scan is nobody's business. *)
NobodyBefore ==
    \A s \in Scans : scan[s].status = "none" =>
        /\ s \notin decided
        /\ \A c \in Requests : request[c].scan # s

(* One contact goes with the scan being saved; a window nobody has          *)
(* overtaken still finds room for its own.                                  *)
ContactsFollow(s) ==
    /\ Saved(s) => contacts[s] <= blind[s] + reopened[s] + 1
    /\ ~Saved(s) => contacts[s] <= blind[s] + reopened[s]
    /\ \A c \in Requests :
          request[c].step = "write" /\ request[c].scan = s /\ ~request[c].overtaken
            => contacts[s] <= blind[s] + reopened[s]

ContactsFollowRow == \A s \in Scans : ContactsFollow(s)

At(s, steps) == \E c \in Requests : request[c].scan = s /\ request[c].step \in steps

CutAt(s, steps) == cut[s] \cap steps # {}

BeforeMark == {"image", "find", "mark"}

AfterMark == {"delete", "forget"}

(* Where the picture is, and who is on the way to remove it or was cut      *)
(* short there.                                                             *)
PictureFollows(s) ==
    /\ scan[s].file = "uploaded" => s \in stored /\ ~At(s, AfterMark)
    /\ s \in decided /\ scan[s].file = "uploaded" => At(s, BeforeMark) \/ CutAt(s, BeforeMark)
    /\ s \in stored /\ scan[s].file # "uploaded" => At(s, {"delete"}) \/ "delete" \in cut[s]
    /\ scan[s].file = "deleted" => At(s, AfterMark) \/ CutAt(s, AfterMark)

PicturesFollowRow == \A s \in Scans : PictureFollows(s)

Recognizing(s) == \E r \in Runs : run[r].scan = s /\ run[r].step = "recognize"

(* A scan that is pending or processing has a job, or a run that will write *)
(* to it, unless one of them was lost.                                      *)
SpinnersTurnForSomething ==
    \A s \in Scans : scan[s].status \in Busy =>
        \/ job[s].queue # "none"
        \/ s \in lost
        \/ Recognizing(s)

IInv ==
    /\ TypeOK
    /\ RequestsAreAbout
    /\ RunsAreAbout
    /\ NobodyBefore
    /\ ContactsFollowRow
    /\ PicturesFollowRow
    /\ SpinnersTurnForSomething

JobStep(s) == Create(s) \/ ScanQr(s) \/ RunJob(s) \/ MarkFailed(s) \/ WorkerStops(s)

LEMMA NextIsAStep ==
    ASSUME Next
    PROVE  \/ \E s \in Scans : JobStep(s)
           \/ \E r \in Runs : RunStep(r)
           \/ \E c \in Requests : RequestStep(c)
  BY Zenon DEF Next, JobStep

-----------------------------------------------------------------------------
(* Types                                                                    *)

LEMMA NoJobIsJob == NoJob \in Job
  BY ScansAssumption DEF NoJob, Job

LEMMA NoRunIsRun == NoRun \in Run /\ NoRun.scan = NoScan /\ NoRun.step = "idle"
  BY DEF NoRun, Run

LEMMA NoRequestIsRequest ==
    /\ NoRequest \in Request
    /\ NoRequest.scan = NoScan
    /\ NoRequest.step = "idle"
  BY DEF NoRequest, Request

LEMMA FreePlace ==
    ASSUME TypeOK, NEW s \in Scans, RunJob(s)
    PROVE  \E r \in Runs :
              /\ run[r] = NoRun
              /\ run' = [run EXCEPT ![r] = [step |-> "look", scan |-> s]]
              /\ job' = [job EXCEPT ![s] = [@ EXCEPT !.queue = "active", !.holders = {r}]]
<1> DEFINE r == CHOOSE r \in Free : TRUE
<1>1. r \in Free
  BY DEF RunJob
<1>2. r \in Runs /\ run[r] = NoRun
  BY <1>1 DEF Free
<1>3. /\ run' = [run EXCEPT ![r] = [step |-> "look", scan |-> s]]
      /\ job' = [job EXCEPT ![s] = [@ EXCEPT !.queue = "active", !.holders = {r}]]
  BY DEF RunJob
<1> HIDE DEF r
<1> QED
  BY <1>2, <1>3

(* What the steps of a job do to it. *)
LEMMA AgainIsJob ==
    ASSUME TypeOK, NEW s \in Scans
    PROVE  /\ Again(s) \in Job
           /\ [Again(s) EXCEPT !.stalled = TRUE] \in Job
           /\ job[s].attempts + 1 < Attempts => [Again(s) EXCEPT !.attempts = @ + 1] \in Job
           /\ [NoJob EXCEPT !.queue = "exhausted"] \in Job
<1> USE ScansAssumption
<1> DEFINE again == Again(s)
<1>1. job[s] \in Job
  BY DEF TypeOK
<1>2. again \in Job
  BY <1>1 DEF Again, Job
<1>3. again.attempts = job[s].attempts
  BY <1>1 DEF Again, Job
<1>4. [NoJob EXCEPT !.queue = "exhausted"] \in Job
  BY NoJobIsJob DEF Job
<1> HIDE DEF again
<1>5. [again EXCEPT !.stalled = TRUE] \in Job
  BY <1>2 DEF Job
<1>6. ASSUME job[s].attempts + 1 < Attempts
      PROVE  [again EXCEPT !.attempts = again.attempts + 1] \in Job
  <2>1. job[s].attempts \in Nat
    BY <1>1 DEF Job
  <2>2. again.attempts + 1 \in 0..Attempts
    BY <1>3, <1>6, <2>1
  <2> QED
    BY <1>2, <2>2 DEF Job
<1> QED
  BY <1>2, <1>4, <1>5, <1>6 DEF again

LEMMA TypesHoldJob ==
    ASSUME TypeOK, NEW s \in Scans, JobStep(s)
    PROVE  TypeOK'
<1> USE ScansAssumption DEF TypeOK
<1>1. CASE Create(s)
  <2>1. scan' \in [Scans -> Row]
    BY <1>1 DEF Create, Row
  <2>2. job' \in [Scans -> Job]
    <3> DEFINE queued == [job[s] EXCEPT !.queue = "waiting"]
    <3>1. job[s] \in Job
      OBVIOUS
    <3>2. queued \in Job
      BY <3>1 DEF Job
    <3>3. job' = job \/ job' = [job EXCEPT ![s] = queued]
      BY <1>1 DEF Create
    <3> HIDE DEF queued
    <3> QED
      BY <3>2, <3>3
  <2>3. faults' \in 0..MaxFaults /\ lost' \in SUBSET Scans
    BY <1>1 DEF Create, Fault
  <2> QED
    BY <1>1, <2>1, <2>2, <2>3 DEF Create
<1>2. CASE ScanQr(s)
  <2>1. scan' \in [Scans -> Row]
    BY <1>2 DEF ScanQr, Row
  <2> QED
    BY <1>2, <2>1 DEF ScanQr, ghosts
<1>3. CASE RunJob(s)
  <2>1. PICK r \in Runs :
           /\ run' = [run EXCEPT ![r] = [step |-> "look", scan |-> s]]
           /\ job' = [job EXCEPT ![s] = [@ EXCEPT !.queue = "active", !.holders = {r}]]
    BY <1>3, FreePlace
  <2>2. run' \in [Runs -> Run]
    BY <2>1 DEF Run
  <2>3. job' \in [Scans -> Job]
    <3> DEFINE held == [job[s] EXCEPT !.queue = "active", !.holders = {r}]
    <3>1. job[s] \in Job
      OBVIOUS
    <3>2. held \in Job
      BY <3>1 DEF Job
    <3>3. job' = [job EXCEPT ![s] = held]
      BY <2>1
    <3> HIDE DEF held
    <3> QED
      BY <3>2, <3>3
  <2> QED
    BY <1>3, <2>2, <2>3 DEF RunJob, ghosts
<1>4. CASE MarkFailed(s)
  <2>1. scan' \in [Scans -> Row]
    BY <1>4 DEF MarkFailed, Fail, Row
  <2>2. job' \in [Scans -> Job]
    BY <1>4, NoJobIsJob DEF MarkFailed, JobDone
  <2>3. faults' \in 0..MaxFaults /\ lost' \in SUBSET Scans
    BY <1>4 DEF MarkFailed, Fault
  <2> QED
    BY <1>4, <2>1, <2>2, <2>3 DEF MarkFailed
<1>5. CASE WorkerStops(s)
  <2> DEFINE again == [Again(s) EXCEPT !.stalled = TRUE]
  <2>0. again \in Job
    BY AgainIsJob
  <2>1. job' = [job EXCEPT ![s] = NoJob] \/ job' = [job EXCEPT ![s] = again]
    BY <1>5 DEF WorkerStops, JobDone
  <2> HIDE DEF again
  <2>2. job' \in [Scans -> Job]
    BY <2>0, <2>1, NoJobIsJob
  <2>3. run' \in [Runs -> Run]
    BY <1>5, NoRunIsRun DEF WorkerStops, RunEnds, Job
  <2>4. faults' \in 0..MaxFaults /\ lost' \in SUBSET Scans
    BY <1>5 DEF WorkerStops, Fault
  <2> QED
    BY <1>5, <2>2, <2>3, <2>4 DEF WorkerStops
<1> QED
  BY <1>1, <1>2, <1>3, <1>4, <1>5 DEF JobStep

(* A run about a scan ends, or goes on about it; the job changes with it    *)
(* only if it is the run's.                                                 *)
LEMMA RunShape ==
    ASSUME TypeOK, RunsAreAbout, NEW r \in Runs, RunStep(r)
    PROVE  /\ run[r].scan \in Scans
           /\ run' = [run EXCEPT ![r] = NoRun]
                \/ \E step \in {"mark", "recognize"} : run' = [run EXCEPT ![r].step = step]
           /\ run' = [run EXCEPT ![r] = NoRun] => run[r].step # "idle"
           /\ \/ job' = job /\ (run'[r] # NoRun \/ ~Holds(r))
              \/ /\ Holds(r) /\ run' = [run EXCEPT ![r] = NoRun]
                 /\ \E j \in Job : /\ job' = [job EXCEPT ![run[r].scan] = j]
                                   /\ j.holders = {}
<1> USE DEF TypeOK
<1> DEFINE s == run[r].scan
<1>1. run[r].step # "idle"
  BY DEF RunStep, Look, MarkProcessing, Review, RunFails
<1>2. s \in Scans
  BY <1>1, NoRunIsRun DEF RunsAreAbout
<1>3. NoJob \in Job /\ NoJob.holders = {}
  BY NoJobIsJob DEF NoJob
<1>4. ASSUME Completes(r)
      PROVE  /\ run' = [run EXCEPT ![r] = NoRun]
             /\ IF Holds(r) THEN job' = [job EXCEPT ![s] = NoJob] ELSE job' = job
  BY <1>4 DEF Completes, RunEnds, JobDone
<1>5. ASSUME NEW step \in {"mark", "recognize"}, RunGoesOn(r, step), job' = job
      PROVE  run' = [run EXCEPT ![r].step = step] /\ run'[r] # NoRun
  <2>1. run' = [run EXCEPT ![r].step = step]
    BY <1>5 DEF RunGoesOn
  <2>2. run'[r].step = step
    BY <2>1 DEF Run
  <2> QED
    BY <2>1, <2>2, NoRunIsRun
<1>6. CASE Look(r)
  <2>1. Completes(r) \/ (RunGoesOn(r, "mark") /\ job' = job)
    BY <1>6 DEF Look
  <2> HIDE DEF s
  <2>2. CASE Completes(r)
    BY <1>1, <1>2, <1>3, <1>4, <2>2 DEF s
  <2>3. CASE RunGoesOn(r, "mark") /\ job' = job
    BY <1>1, <1>2, <1>5, <2>3 DEF s
  <2> QED
    BY <2>1, <2>2, <2>3
<1>7. CASE MarkProcessing(r)
  <2>1. RunGoesOn(r, "recognize") /\ job' = job
    BY <1>7 DEF MarkProcessing
  <2> QED
    BY <1>1, <1>2, <1>5, <2>1
<1>8. CASE Review(r)
  <2>1. Completes(r)
    BY <1>8 DEF Review
  <2> QED
    BY <1>1, <1>2, <1>3, <1>4, <2>1
<1>9. CASE RunFails(r)
  <2>1. run' = [run EXCEPT ![r] = NoRun]
    BY <1>9 DEF RunFails, RunEnds
  <2>2. CASE ~Holds(r)
    BY <1>1, <1>2, <1>9, <2>1, <2>2 DEF RunFails
  <2>3. CASE Holds(r)
    <3> DEFINE again == [Again(s) EXCEPT !.attempts = @ + 1]
               over == [NoJob EXCEPT !.queue = "exhausted"]
    <3>1. \/ job' = [job EXCEPT ![s] = over]
          \/ job[s].attempts + 1 < Attempts /\ job' = [job EXCEPT ![s] = again]
          \/ job' = [job EXCEPT ![s] = NoJob]
      BY <1>9, <2>3 DEF RunFails
    <3>2. over \in Job /\ (job[s].attempts + 1 < Attempts => again \in Job)
      BY <1>2, AgainIsJob
    <3>3. over.holders = {}
      BY DEF NoJob
    <3>4. again.holders = {}
      <4>1. job[s] \in Job
        BY <1>2
      <4>2. Again(s).holders = {} /\ Again(s) \in Job
        BY <1>2, <4>1, AgainIsJob DEF Again, Job
      <4> QED
        BY <4>2 DEF Job
    <3> HIDE DEF again, over
    <3>5. \E j \in Job : job' = [job EXCEPT ![s] = j] /\ j.holders = {}
      BY <1>3, <3>1, <3>2, <3>3, <3>4
    <3> QED
      BY <1>1, <1>2, <2>1, <2>3, <3>5
  <2> QED
    BY <2>2, <2>3
<1> QED
  BY <1>6, <1>7, <1>8, <1>9 DEF RunStep

LEMMA TypesHoldRun ==
    ASSUME TypeOK, RunsAreAbout, NEW r \in Runs, RunStep(r)
    PROVE  TypeOK'
<1> USE DEF TypeOK
<1>1. run[r].scan \in Scans
  BY RunShape
<1>2. run' \in [Runs -> Run]
  <2>1. \/ run' = [run EXCEPT ![r] = NoRun]
        \/ \E step \in {"mark", "recognize"} : run' = [run EXCEPT ![r].step = step]
    BY RunShape
  <2>2. CASE run' = [run EXCEPT ![r] = NoRun]
    BY <2>2, NoRunIsRun
  <2>3. CASE \E step \in {"mark", "recognize"} : run' = [run EXCEPT ![r].step = step]
    BY <2>3 DEF Run
  <2> QED
    BY <2>1, <2>2, <2>3
<1>3. job' \in [Scans -> Job]
  <2>1. \/ job' = job
        \/ \E j \in Job : job' = [job EXCEPT ![run[r].scan] = j]
    BY RunShape
  <2> QED
    BY <2>1
<1>4. /\ scan' \in [Scans -> Row]
      /\ reopened' \in [Scans -> Nat]
      /\ lost' \in SUBSET Scans
      /\ UNCHANGED <<stored, request, contacts, blind, decided, cut, faults>>
  <2>1. CASE Look(r)
    BY <1>1, <2>1 DEF Look, Fail, Row, ghosts
  <2>2. CASE MarkProcessing(r)
    BY <1>1, <2>2 DEF MarkProcessing, Reopens, Row
  <2>3. CASE Review(r)
    BY <1>1, <2>3 DEF Review, Reopens, Row
  <2>4. CASE RunFails(r)
    BY <1>1, <2>4 DEF RunFails
  <2> QED
    BY <2>1, <2>2, <2>3, <2>4 DEF RunStep
<1> QED
  BY <1>2, <1>3, <1>4

(* A step of a request changes no other request, but for the notice that it *)
(* was overtaken, and leaves the worker alone.                              *)
LEMMA RequestShape ==
    ASSUME TypeOK, RequestsAreAbout, NEW c \in Requests, RequestStep(c)
    PROVE  /\ UNCHANGED <<job, run, reopened, lost>>
           /\ request' \in [Requests -> Request]
           /\ \A d \in Requests \ {c} :
                 request'[d].step = request[d].step /\ request'[d].scan = request[d].scan
           /\ \/ request'[c] = NoRequest
              \/ /\ request[c] = NoRequest
                 /\ request'[c].step \in {"read", "image"}
                 /\ request'[c].scan \in {s \in Scans : scan[s].status # "none"}
              \/ /\ request[c].scan \in Scans
                 /\ request'[c].scan = request[c].scan
<1> USE DEF TypeOK
<1>0. request[c] \in Request
  OBVIOUS
<1>1. ASSUME request[c].step # "idle"
      PROVE  request[c].scan \in Scans
  BY <1>1, NoRequestIsRequest DEF RequestsAreAbout
<1>2. ASSUME NEW new \in Request, request' = [request EXCEPT ![c] = new],
             \/ new = NoRequest
             \/ /\ request[c] = NoRequest
                /\ new.step \in {"read", "image"}
                /\ new.scan \in {s \in Scans : scan[s].status # "none"}
             \/ request[c].scan \in Scans /\ new.scan = request[c].scan
      PROVE  /\ request' \in [Requests -> Request]
             /\ \A d \in Requests \ {c} :
                   request'[d].step = request[d].step /\ request'[d].scan = request[d].scan
             /\ request'[c] = new
  BY <1>2
<1>3. ASSUME NEW step \in {"image", "write", "find", "mark", "delete", "forget"},
             GoTo(c, step), request[c].step # "idle"
      PROVE  /\ request' = [request EXCEPT ![c] = [request[c] EXCEPT !.step = step]]
             /\ [request[c] EXCEPT !.step = step] \in Request
             /\ [request[c] EXCEPT !.step = step].scan = request[c].scan
             /\ request[c].scan \in Scans
  BY <1>0, <1>1, <1>3 DEF GoTo, Request, Removal
<1>4. ASSUME Leave(c)
      PROVE  request' = [request EXCEPT ![c] = NoRequest]
  BY <1>4 DEF Leave
<1>5. CASE \E s \in Scans : StartConfirm(c, s)
  <2>1. PICK s \in Scans : StartConfirm(c, s)
    BY <1>5
  <2> DEFINE new == [NoRequest EXCEPT !.step = "read", !.scan = s]
  <2>2. new \in Request /\ new.step = "read" /\ new.scan = s
    BY DEF NoRequest, Request
  <2>3. /\ request' = [request EXCEPT ![c] = new]
        /\ request[c] = NoRequest /\ scan[s].status # "none"
        /\ UNCHANGED <<job, run, reopened, lost>>
    BY <2>1 DEF StartConfirm, ghosts
  <2> HIDE DEF new
  <2> QED
    BY <1>2, <2>2, <2>3
<1>6. CASE \E s \in Scans : Discard(c, s)
  <2>1. PICK s \in Scans : Discard(c, s)
    BY <1>6
  <2> DEFINE new == [NoRequest EXCEPT !.step = "image", !.scan = s]
  <2>2. new \in Request /\ new.step = "image" /\ new.scan = s
    BY DEF NoRequest, Request, Removal
  <2>3. /\ request' = [request EXCEPT ![c] = new]
        /\ request[c] = NoRequest /\ scan[s].status # "none"
        /\ UNCHANGED <<job, run, reopened, lost>>
    BY <2>1 DEF Discard, Busy
  <2> HIDE DEF new
  <2> QED
    BY <1>2, <2>2, <2>3
<1>7. CASE SaveContact(c)
  <2> DEFINE s == request[c].scan
             new == [NoRequest EXCEPT !.step = "image", !.scan = s]
  <2>1. s \in Scans
    BY <1>1, <1>7 DEF SaveContact
  <2>2. new \in Request /\ new.scan = s
    BY <2>1 DEF NoRequest, Request, Removal
  <2>3. \A d \in Requests : [request[d] EXCEPT !.overtaken = TRUE] \in Request
    BY DEF Request
  <2>4. request' = [d \in Requests |->
             IF d = c THEN new
             ELSE IF request[d].step = "write" /\ request[d].scan = s
             THEN [request[d] EXCEPT !.overtaken = TRUE]
             ELSE request[d]]
    BY <1>7 DEF SaveContact
  <2>5. UNCHANGED <<job, run, reopened, lost>>
    BY <1>7 DEF SaveContact
  <2>6. \A d \in Requests : /\ [request[d] EXCEPT !.overtaken = TRUE].step = request[d].step
                            /\ [request[d] EXCEPT !.overtaken = TRUE].scan = request[d].scan
    BY DEF Request
  <2> HIDE DEF new
  <2>7. request' \in [Requests -> Request]
    BY <2>2, <2>3, <2>4
  <2> QED
    BY <2>1, <2>2, <2>4, <2>5, <2>6, <2>7
<1>8. CASE ReadScan(c) \/ FindImage(c) \/ FindFile(c) \/ MarkFile(c) \/ DeleteObject(c)
             \/ ForgetImage(c) \/ RequestFails(c)
  <2>1. /\ UNCHANGED <<job, run, reopened, lost>>
        /\ \/ Leave(c)
           \/ request[c].step # "idle"
              /\ \E step \in {"image", "write", "find", "mark", "delete", "forget"} :
                    GoTo(c, step)
    BY <1>8 DEF ReadScan, FindImage, FindFile, MarkFile, DeleteObject, ForgetImage,
                RequestFails, ghosts
  <2>2. CASE Leave(c)
    BY <1>2, <1>4, <2>1, <2>2, NoRequestIsRequest
  <2>3. CASE request[c].step # "idle"
              /\ \E step \in {"image", "write", "find", "mark", "delete", "forget"} :
                    GoTo(c, step)
    <3>1. PICK step \in {"image", "write", "find", "mark", "delete", "forget"} : GoTo(c, step)
      BY <2>3
    <3> DEFINE new == [request[c] EXCEPT !.step = step]
    <3>2. /\ request' = [request EXCEPT ![c] = new]
          /\ new \in Request /\ new.scan = request[c].scan
          /\ request[c].scan \in Scans
      BY <1>3, <2>3, <3>1
    <3> HIDE DEF new
    <3> QED
      BY <1>2, <2>1, <3>2
  <2> QED
    BY <2>1, <2>2, <2>3
<1> QED
  BY <1>5, <1>6, <1>7, <1>8 DEF RequestStep

LEMMA TypesHoldRequest ==
    ASSUME TypeOK, RequestsAreAbout, NEW c \in Requests, RequestStep(c)
    PROVE  TypeOK'
<1> USE DEF TypeOK
<1>1. /\ UNCHANGED <<job, run, reopened, lost>>
      /\ request' \in [Requests -> Request]
  BY RequestShape
<1>2. ASSUME request[c].step # "idle"
      PROVE  request[c].scan \in Scans
  BY <1>2, NoRequestIsRequest DEF RequestsAreAbout
<1>3. faults' \in 0..MaxFaults
  <2>1. UNCHANGED faults \/ Fault
    BY DEF RequestStep, StartConfirm, Discard, ReadScan, SaveContact, FindImage, FindFile,
           MarkFile, DeleteObject, ForgetImage, RequestFails
  <2> QED
    BY <2>1, ScansAssumption DEF Fault
<1>4. /\ scan' \in [Scans -> Row]
      /\ stored' \in SUBSET Scans
      /\ contacts' \in [Scans -> Nat]
      /\ blind' \in [Scans -> Nat]
      /\ decided' \in SUBSET Scans
      /\ cut' \in [Scans -> SUBSET Removal]
  <2>1. CASE \E s \in Scans : StartConfirm(c, s)
    BY <2>1 DEF StartConfirm, ghosts
  <2>2. CASE \E s \in Scans : Discard(c, s)
    <3>1. PICK s \in Scans : Discard(c, s)
      BY <2>2
    <3> QED
      BY <3>1 DEF Discard, Row
  <2>3. CASE SaveContact(c)
    <3> DEFINE s == request[c].scan
    <3>1. s \in Scans
      BY <1>2, <2>3 DEF SaveContact
    <3>2. /\ scan' = [scan EXCEPT ![s].status = "saved"]
          /\ contacts' = [contacts EXCEPT ![s] = @ + 1]
          /\ blind' = blind \/ blind' = [blind EXCEPT ![s] = @ + 1]
          /\ decided' = decided \cup {s}
          /\ UNCHANGED <<stored, cut>>
      BY <2>3 DEF SaveContact
    <3> HIDE DEF s
    <3> QED
      BY <3>1, <3>2 DEF Row
  <2>4. CASE ReadScan(c) \/ FindImage(c) \/ FindFile(c)
    BY <2>4 DEF ReadScan, FindImage, FindFile, ghosts
  <2>5. CASE MarkFile(c)
    BY <1>2, <2>5 DEF MarkFile, Row, ghosts
  <2>6. CASE DeleteObject(c)
    BY <1>2, <2>6 DEF DeleteObject, Removed, Removal
  <2>7. CASE ForgetImage(c)
    BY <1>2, <2>7 DEF ForgetImage, Row, ghosts
  <2>8. CASE RequestFails(c)
    <3>1. /\ UNCHANGED <<scan, stored, contacts, blind, decided>>
          /\ \/ cut' = cut
             \/ /\ request[c].step \in Removal
                /\ cut' = [cut EXCEPT ![request[c].scan] = @ \cup {request[c].step}]
      BY <2>8 DEF RequestFails
    <3> QED
      BY <1>2, <3>1 DEF Removal
  <2> QED
    BY <2>1, <2>2, <2>3, <2>4, <2>5, <2>6, <2>7, <2>8 DEF RequestStep
<1> QED
  BY <1>1, <1>3, <1>4

LEMMA TypesHold ==
    ASSUME TypeOK, RequestsAreAbout, RunsAreAbout, Next
    PROVE  TypeOK'
  BY NextIsAStep, TypesHoldJob, TypesHoldRun, TypesHoldRequest

-----------------------------------------------------------------------------
(* Frames: what the worker, and what a request, leaves alone                *)

Worker == (\E s \in Scans : JobStep(s)) \/ (\E r \in Runs : RunStep(r))

(* The worker knows of no request, writes no contact and decides nothing;   *)
(* what it does to a saved row is counted, and only an upload brings a      *)
(* picture.                                                                 *)
LEMMA WorkerFrame ==
    ASSUME TypeOK, RunsAreAbout, Worker
    PROVE  /\ UNCHANGED <<request, contacts, blind, decided, cut>>
           /\ \A t \in Scans :
                /\ scan'[t].status = "none" => scan[t].status = "none"
                /\ \/ reopened'[t] = reopened[t] /\ (Saved(t)' <=> Saved(t))
                   \/ reopened'[t] = reopened[t] + 1 /\ ~Saved(t)'
                /\ \/ (t \in stored' <=> t \in stored) /\ scan'[t].file = scan[t].file
                   \/ scan[t].status = "none" /\ t \in stored' /\ scan'[t].file = "uploaded"
<1> USE DEF TypeOK
<1>1. ASSUME NEW s \in Scans, Create(s)
      PROVE  /\ UNCHANGED <<request, contacts, blind, decided, cut, reopened>>
             /\ scan[s].status = "none" /\ scan'[s].status = "pending"
             /\ scan'[s].file = "uploaded" /\ stored' = stored \cup {s}
             /\ \A t \in Scans \ {s} : scan'[t] = scan[t]
  BY <1>1 DEF Create, Row
<1>2. ASSUME NEW s \in Scans, ScanQr(s)
      PROVE  /\ UNCHANGED <<request, contacts, blind, decided, cut, reopened, stored>>
             /\ scan[s].status = "none" /\ scan'[s].status = "review"
             /\ \A t \in Scans : scan'[t].file = scan[t].file
             /\ \A t \in Scans \ {s} : scan'[t] = scan[t]
  BY <1>2 DEF ScanQr, Row, ghosts
<1>3. ASSUME NEW s \in Scans, RunJob(s) \/ WorkerStops(s)
      PROVE  UNCHANGED <<request, contacts, blind, decided, cut, reopened, stored, scan>>
  BY <1>3 DEF RunJob, WorkerStops, ghosts
<1>4. ASSUME NEW s \in Scans, Fail(s)
      PROVE  \A t \in Scans :
                /\ scan'[t].status = "none" <=> scan[t].status = "none"
                /\ Saved(t)' <=> Saved(t)
                /\ scan'[t].file = scan[t].file
  BY <1>4 DEF Fail, Row, Busy, Saved
<1>5. ASSUME NEW s \in Scans, MarkFailed(s)
      PROVE  /\ UNCHANGED <<request, contacts, blind, decided, cut, reopened, stored>>
             /\ Fail(s) \/ UNCHANGED scan
  BY <1>5 DEF MarkFailed
<1>6. ASSUME NEW r \in Runs, RunStep(r)
      PROVE  /\ UNCHANGED <<request, contacts, blind, decided, cut, stored>>
             /\ \/ UNCHANGED <<scan, reopened>>
                \/ Fail(run[r].scan) /\ UNCHANGED reopened
                \/ \E status \in {"processing", "review"} :
                      /\ scan' = [scan EXCEPT ![run[r].scan].status = status]
                      /\ Reopens(run[r].scan)
  BY <1>6 DEF RunStep, Look, MarkProcessing, Review, RunFails, ghosts
<1>7. ASSUME NEW s \in Scans, NEW status \in {"processing", "review"},
             scan' = [scan EXCEPT ![s].status = status], Reopens(s)
      PROVE  /\ \A t \in Scans : scan'[t].file = scan[t].file
             /\ scan'[s].status = status
             /\ \/ reopened'[s] = reopened[s] /\ ~Saved(s)
                \/ reopened'[s] = reopened[s] + 1
             /\ \A t \in Scans \ {s} : scan'[t] = scan[t] /\ reopened'[t] = reopened[t]
  BY <1>7 DEF Reopens, Row, Saved
<1> DEFINE Same == UNCHANGED <<request, contacts, blind, decided, cut>>
           Frame == \A t \in Scans :
                /\ scan'[t].status = "none" => scan[t].status = "none"
                /\ \/ reopened'[t] = reopened[t] /\ (Saved(t)' <=> Saved(t))
                   \/ reopened'[t] = reopened[t] + 1 /\ ~Saved(t)'
                /\ \/ (t \in stored' <=> t \in stored) /\ scan'[t].file = scan[t].file
                   \/ scan[t].status = "none" /\ t \in stored' /\ scan'[t].file = "uploaded"
<1>8. ASSUME NEW s \in Scans, JobStep(s)
      PROVE  Same /\ Frame
  <2>1. CASE Create(s)
    BY <1>1, <2>1 DEF Saved
  <2>2. CASE ScanQr(s)
    BY <1>2, <2>2 DEF Saved
  <2>3. CASE RunJob(s) \/ WorkerStops(s)
    BY <1>3, <2>3 DEF Saved
  <2>4. CASE MarkFailed(s)
    BY <1>4, <1>5, <2>4 DEF Saved
  <2> QED
    BY <1>8, <2>1, <2>2, <2>3, <2>4 DEF JobStep
<1>9. ASSUME NEW r \in Runs, RunStep(r)
      PROVE  Same /\ Frame
  <2>1. run[r].scan \in Scans
    BY <1>9, RunShape
  <2>2. CASE UNCHANGED <<scan, reopened>>
    BY <1>6, <1>9, <2>2 DEF Saved
  <2>3. CASE Fail(run[r].scan) /\ UNCHANGED reopened
    BY <1>4, <1>6, <1>9, <2>1, <2>3
  <2>4. CASE \E status \in {"processing", "review"} :
                /\ scan' = [scan EXCEPT ![run[r].scan].status = status]
                /\ Reopens(run[r].scan)
    BY <1>6, <1>7, <1>9, <2>1, <2>4 DEF Saved
  <2> QED
    BY <1>6, <1>9, <2>2, <2>3, <2>4
<1> QED
  BY <1>8, <1>9 DEF Worker

(* A request makes no scan new again, and decides on the one it is about. *)
LEMMA RequestFrame ==
    ASSUME TypeOK, RequestsAreAbout, NEW c \in Requests, RequestStep(c)
    PROVE  \A t \in Scans :
              /\ scan'[t].status = "none" => scan[t].status = "none"
              /\ t \in decided' => t \in decided \/ request'[c].scan = t
<1> USE DEF TypeOK
<1>1. CASE \E s \in Scans : StartConfirm(c, s)
  BY <1>1 DEF StartConfirm, ghosts
<1>2. CASE \E s \in Scans : Discard(c, s)
  <2>1. PICK s \in Scans : Discard(c, s)
    BY <1>2
  <2>2. /\ scan[s].status # "none"
        /\ scan' = [scan EXCEPT ![s].status = "discarded"]
        /\ decided' = decided \cup {s}
        /\ request'[c].scan = s
    BY <2>1 DEF Discard, Busy, NoRequest
  <2> QED
    BY <2>2 DEF Row
<1>3. CASE SaveContact(c)
  <2>1. request[c].scan \in Scans
    BY <1>3, NoRequestIsRequest DEF SaveContact, RequestsAreAbout
  <2>2. /\ scan' = [scan EXCEPT ![request[c].scan].status = "saved"]
        /\ decided' = decided \cup {request[c].scan}
        /\ request'[c].scan = request[c].scan
    BY <1>3 DEF SaveContact, NoRequest
  <2> QED
    BY <2>1, <2>2 DEF Row
<1>4. CASE ReadScan(c) \/ FindImage(c) \/ FindFile(c) \/ DeleteObject(c) \/ RequestFails(c)
  BY <1>4 DEF ReadScan, FindImage, FindFile, DeleteObject, RequestFails, ghosts
<1>5. CASE MarkFile(c) \/ ForgetImage(c)
  <2>1. /\ UNCHANGED decided
        /\ \E file \in {"none", "uploaded", "deleted"} :
              scan' = [scan EXCEPT ![request[c].scan].file = file]
    BY <1>5 DEF MarkFile, ForgetImage, ghosts
  <2> QED
    BY <2>1 DEF Row
<1> QED
  BY <1>1, <1>2, <1>3, <1>4, <1>5 DEF RequestStep

-----------------------------------------------------------------------------
(* Who is about what                                                        *)

LEMMA RequestsHold ==
    ASSUME TypeOK, RequestsAreAbout, RunsAreAbout, Next
    PROVE  RequestsAreAbout'
<1> USE DEF TypeOK
<1>1. CASE Worker
  BY <1>1, WorkerFrame DEF RequestsAreAbout
<1>2. ASSUME NEW c \in Requests, RequestStep(c)
      PROVE  RequestsAreAbout'
  <2>1. request'[c].scan \in Scans \/ request'[c] = NoRequest
    BY <1>2, RequestShape
  <2>2. ASSUME NEW d \in Requests \ {c}
        PROVE  request'[d].scan \in Scans \/ request'[d] = NoRequest
    <3>1. CASE SaveContact(c)
      <4>1. request'[d] = request[d] \/ request[d].step = "write"
        BY <3>1 DEF SaveContact
      <4>2. request[d].step = "write" => request[d].scan \in Scans
        BY NoRequestIsRequest DEF RequestsAreAbout
      <4>3. request'[d].scan = request[d].scan
        BY <1>2, RequestShape
      <4> QED
        BY <4>1, <4>2, <4>3 DEF RequestsAreAbout
    <3>2. CASE ~SaveContact(c)
      <4>1. request'[d] = request[d]
        BY <1>2, <3>2 DEF RequestStep, StartConfirm, Discard, ReadScan, FindImage, FindFile,
                          MarkFile, DeleteObject, ForgetImage, RequestFails, GoTo, Leave
      <4> QED
        BY <4>1 DEF RequestsAreAbout
    <3> QED
      BY <3>1, <3>2
  <2> QED
    BY <2>1, <2>2 DEF RequestsAreAbout
<1> QED
  BY <1>1, <1>2, NextIsAStep DEF Worker

LEMMA RunsHold ==
    ASSUME TypeOK, RequestsAreAbout, RunsAreAbout, Next
    PROVE  RunsAreAbout'
<1> USE DEF TypeOK
<1>0. \A r \in Runs : run[r] = NoRun => run[r].scan \notin Scans
  BY NoRunIsRun, ScansAssumption
<1>1. ASSUME NEW s \in Scans, Create(s) \/ ScanQr(s) \/ MarkFailed(s)
      PROVE  RunsAreAbout'
  <2>1. UNCHANGED run
    BY <1>1 DEF Create, ScanQr, MarkFailed
  <2>2. \A t \in Scans : job'[t].holders \subseteq job[t].holders
    <3>1. NoJob.holders = {}
      BY DEF NoJob
    <3>2. CASE ScanQr(s)
      BY <3>2 DEF ScanQr
    <3>3. CASE Create(s)
      <4>1. job' = job \/ job' = [job EXCEPT ![s].queue = "waiting"]
        BY <3>3 DEF Create
      <4> QED
        BY <4>1 DEF Job
    <3>4. CASE MarkFailed(s)
      BY <3>1, <3>4 DEF MarkFailed, JobDone
    <3> QED
      BY <1>1, <3>2, <3>3, <3>4
  <2> QED
    BY <2>1, <2>2 DEF RunsAreAbout, NoRun
<1>2. ASSUME NEW s \in Scans, RunJob(s)
      PROVE  RunsAreAbout'
  <2>1. PICK r \in Runs :
           /\ run[r] = NoRun
           /\ run' = [run EXCEPT ![r] = [step |-> "look", scan |-> s]]
           /\ job' = [job EXCEPT ![s] = [@ EXCEPT !.queue = "active", !.holders = {r}]]
    BY <1>2, FreePlace
  <2>2. run'[r].scan = s /\ \A q \in Runs \ {r} : run'[q] = run[q]
    BY <2>1
  <2>3. job'[s].holders = {r} /\ \A t \in Scans \ {s} : job'[t] = job[t]
    <3>1. job[s] \in Job
      OBVIOUS
    <3>2. [job[s] EXCEPT !.queue = "active", !.holders = {r}].holders = {r}
      BY <3>1 DEF Job
    <3> QED
      BY <2>1, <3>2
  <2>4. \A t \in Scans : r \notin job[t].holders
    BY <1>0, <2>1 DEF RunsAreAbout
  <2>5. \A t \in Scans : job[t].holders \subseteq Runs
    BY DEF Job
  <2> QED
    BY <2>2, <2>3, <2>4, <2>5 DEF RunsAreAbout
<1>3. ASSUME NEW s \in Scans, WorkerStops(s)
      PROVE  RunsAreAbout'
  <2>1. job'[s].holders = {} /\ \A t \in Scans \ {s} : job'[t] = job[t]
    <3> DEFINE again == [Again(s) EXCEPT !.stalled = TRUE]
    <3>1. job[s] \in Job /\ Again(s) \in Job
      BY AgainIsJob
    <3>2. Again(s).holders = {}
      BY <3>1 DEF Again, Job
    <3>3. again.holders = {} /\ NoJob.holders = {}
      BY <3>1, <3>2 DEF Job, NoJob
    <3>4. job' = [job EXCEPT ![s] = NoJob] \/ job' = [job EXCEPT ![s] = again]
      BY <1>3 DEF WorkerStops, JobDone
    <3> HIDE DEF again
    <3> QED
      BY <3>3, <3>4
  <2>2. run' = run \/ \E r \in job[s].holders : run' = [run EXCEPT ![r] = NoRun]
    BY <1>3 DEF WorkerStops, RunEnds
  <2>3. CASE run' = run
    BY <2>1, <2>3 DEF RunsAreAbout, NoRun
  <2>4. ASSUME NEW r \in job[s].holders, run' = [run EXCEPT ![r] = NoRun]
        PROVE  RunsAreAbout'
    <3>1. r \in Runs
      BY DEF Job
    <3>2. run[r].scan = s
      BY DEF RunsAreAbout
    <3>3. \A t \in Scans \ {s} : r \notin job[t].holders
      BY <3>2 DEF RunsAreAbout
    <3> QED
      BY <2>1, <2>4, <3>1, <3>3 DEF RunsAreAbout, NoRun, Job
  <2> QED
    BY <2>2, <2>3, <2>4
<1>4. ASSUME NEW r \in Runs, RunStep(r)
      PROVE  RunsAreAbout'
  <2>1. run[r].scan \in Scans
    BY <1>4, RunShape
  <2>2. \A t \in Scans : job[t].holders \subseteq Runs
    BY DEF Job
  <2>3. CASE \E step \in {"mark", "recognize"} : run' = [run EXCEPT ![r].step = step]
    <3>1. /\ run'[r].scan = run[r].scan
          /\ \A q \in Runs \ {r} : run'[q] = run[q]
      BY <2>3 DEF Run
    <3>2. \A t \in Scans : job'[t].holders \subseteq job[t].holders
      <4>1. \/ job' = job
            \/ \E j \in Job : job' = [job EXCEPT ![run[r].scan] = j] /\ j.holders = {}
        BY <1>4, RunShape
      <4> QED
        BY <2>1, <4>1
    <3> QED
      BY <2>1, <2>2, <3>1, <3>2 DEF RunsAreAbout
  <2>4. CASE run' = [run EXCEPT ![r] = NoRun]
    <3>1. /\ run'[r] = NoRun
          /\ \A q \in Runs \ {r} : run'[q] = run[q]
      BY <2>4
    <3>2. /\ \A t \in Scans : job'[t].holders \subseteq job[t].holders
          /\ r \notin job'[run[r].scan].holders
      <4>1. \/ job' = job /\ ~Holds(r)
            \/ \E j \in Job : job' = [job EXCEPT ![run[r].scan] = j] /\ j.holders = {}
        BY <1>4, <3>1, RunShape
      <4> QED
        BY <2>1, <4>1 DEF Holds
    <3>3. \A t \in Scans : r \notin job'[t].holders
      BY <3>2 DEF RunsAreAbout
    <3> QED
      BY <2>2, <3>1, <3>2, <3>3 DEF RunsAreAbout
  <2> QED
    BY <1>4, <2>3, <2>4, RunShape
<1>5. ASSUME NEW c \in Requests, RequestStep(c)
      PROVE  RunsAreAbout'
  <2>1. UNCHANGED <<job, run>>
    BY <1>5, RequestShape
  <2> QED
    BY <2>1 DEF RunsAreAbout, NoRun
<1> QED
  BY <1>1, <1>2, <1>3, <1>4, <1>5, NextIsAStep DEF JobStep

LEMMA NobodyBeforeHolds ==
    ASSUME TypeOK, RequestsAreAbout, RunsAreAbout, NobodyBefore, Next
    PROVE  NobodyBefore'
<1>1. CASE Worker
  BY <1>1, WorkerFrame DEF NobodyBefore
<1>2. ASSUME NEW c \in Requests, RequestStep(c)
      PROVE  NobodyBefore'
  <2> SUFFICES ASSUME NEW t \in Scans, scan'[t].status = "none"
               PROVE  t \notin decided' /\ \A d \in Requests : request'[d].scan # t
    BY DEF NobodyBefore
  <2>1. /\ scan[t].status = "none"
        /\ t \in decided' => t \in decided \/ request'[c].scan = t
    BY <1>2, RequestFrame
  <2>2. t \notin decided /\ \A d \in Requests : request[d].scan # t
    BY <2>1 DEF NobodyBefore
  <2>3. request'[c].scan # t
    BY <1>2, <2>1, <2>2, RequestShape, NoRequestIsRequest, ScansAssumption
  <2>4. \A d \in Requests \ {c} : request'[d].scan = request[d].scan
    BY <1>2, RequestShape
  <2> QED
    BY <2>1, <2>2, <2>3, <2>4
<1> QED
  BY <1>1, <1>2, NextIsAStep DEF Worker

-----------------------------------------------------------------------------
(* Contacts                                                                 *)

LEMMA ContactsHold ==
    ASSUME TypeOK, RequestsAreAbout, RunsAreAbout, ContactsFollowRow, Next
    PROVE  ContactsFollowRow'
<1> USE DEF TypeOK
<1>0. \A t \in Scans : contacts[t] \in Nat /\ blind[t] \in Nat /\ reopened[t] \in Nat
  OBVIOUS
<1>1. CASE Worker
  <2> SUFFICES ASSUME NEW t \in Scans
               PROVE  ContactsFollow(t)'
    BY DEF ContactsFollowRow
  <2>1. /\ UNCHANGED <<request, contacts, blind>>
        /\ \/ reopened'[t] = reopened[t] /\ (Saved(t)' <=> Saved(t))
           \/ reopened'[t] = reopened[t] + 1 /\ ~Saved(t)'
    BY <1>1, WorkerFrame
  <2>2. ContactsFollow(t)
    BY DEF ContactsFollowRow
  <2> QED
    BY <1>0, <2>1, <2>2 DEF ContactsFollow
<1>2. ASSUME NEW c \in Requests, RequestStep(c)
      PROVE  ContactsFollowRow'
  <2> SUFFICES ASSUME NEW t \in Scans
               PROVE  ContactsFollow(t)'
    BY DEF ContactsFollowRow
  <2>1. ContactsFollow(t) /\ UNCHANGED reopened
    BY <1>2, RequestShape DEF ContactsFollowRow
  <2>2. CASE SaveContact(c)
    <3> DEFINE s == request[c].scan
    <3>1. s \in Scans
      BY <2>2, NoRequestIsRequest DEF SaveContact, RequestsAreAbout
    <3>2. /\ contacts' = [contacts EXCEPT ![s] = @ + 1]
          /\ blind' = IF request[c].overtaken THEN [blind EXCEPT ![s] = @ + 1] ELSE blind
          /\ scan' = [scan EXCEPT ![s].status = "saved"]
          /\ request[c].step = "write"
      BY <2>2 DEF SaveContact
    <3>3. \A d \in Requests : request'[d].step = "write" /\ ~request'[d].overtaken
            => /\ request[d].step = "write" /\ ~request[d].overtaken
               /\ request'[d].scan = request[d].scan /\ request[d].scan # s
      BY <2>2 DEF SaveContact, NoRequest, Request
    <3> HIDE DEF s
    <3>4. CASE t # s
      <4>1. contacts'[t] = contacts[t] /\ blind'[t] = blind[t] /\ (Saved(t)' <=> Saved(t))
        BY <3>1, <3>2, <3>4 DEF Saved
      <4> QED
        BY <2>1, <3>3, <4>1 DEF ContactsFollow
    <3>5. CASE t = s
      <4>1. contacts'[t] = contacts[t] + 1 /\ Saved(t)'
        BY <3>1, <3>2, <3>5 DEF Saved, Row
      <4>2. CASE request[c].overtaken
        <5>1. blind'[t] = blind[t] + 1
          BY <3>1, <3>2, <3>5, <4>2
        <5> QED
          BY <1>0, <2>1, <3>3, <3>5, <4>1, <5>1 DEF ContactsFollow
      <4>3. CASE ~request[c].overtaken
        <5>1. blind'[t] = blind[t]
          BY <3>2, <4>3
        <5>2. contacts[t] <= blind[t] + reopened[t]
          BY <2>1, <3>2, <3>5, <4>3 DEF ContactsFollow, s
        <5> QED
          BY <1>0, <2>1, <3>3, <3>5, <4>1, <5>1, <5>2 DEF ContactsFollow
      <4> QED
        BY <4>2, <4>3
    <3> QED
      BY <3>4, <3>5
  <2>3. CASE ReadScan(c)
    <3>1. /\ UNCHANGED <<scan, contacts, blind>>
          /\ request' = [request EXCEPT ![c].step = IF Saved(request[c].scan) THEN "image"
                                                    ELSE "write"]
      BY <2>3 DEF ReadScan, GoTo, ghosts
    <3>2. ASSUME NEW d \in Requests, request'[d].step = "write"
          PROVE  /\ request'[d].scan = request[d].scan
                 /\ request'[d].overtaken = request[d].overtaken
                 /\ request[d].step = "write" \/ ~Saved(request[d].scan)
      BY <3>1, <3>2 DEF Request
    <3> QED
      BY <2>1, <3>1, <3>2 DEF ContactsFollow, Saved
  <2>4. CASE ~SaveContact(c) /\ ~ReadScan(c)
    <3>1. /\ UNCHANGED <<contacts, blind>>
          /\ \A d \in Requests \ {c} : request'[d] = request[d]
          /\ request'[c].step # "write"
      <4>1. ASSUME NEW s \in Scans, StartConfirm(c, s) \/ Discard(c, s)
            PROVE  /\ UNCHANGED <<contacts, blind>>
                   /\ \A d \in Requests \ {c} : request'[d] = request[d]
                   /\ request'[c].step # "write"
        <5>1. CASE StartConfirm(c, s)
          BY <5>1 DEF StartConfirm, NoRequest, ghosts
        <5>2. CASE Discard(c, s)
          BY <5>2 DEF Discard, NoRequest
        <5> QED
          BY <4>1, <5>1, <5>2
      <4>2. CASE FindImage(c) \/ FindFile(c) \/ MarkFile(c) \/ DeleteObject(c)
        <5>1. /\ UNCHANGED <<contacts, blind>>
              /\ Leave(c) \/ \E step \in {"find", "mark", "delete", "forget"} : GoTo(c, step)
          BY <4>2 DEF FindImage, FindFile, MarkFile, DeleteObject, ghosts
        <5> QED
          BY <5>1 DEF GoTo, Leave, NoRequest, Request
      <4>3. CASE ForgetImage(c) \/ RequestFails(c)
        BY <4>3 DEF ForgetImage, RequestFails, Leave, NoRequest, ghosts
      <4> QED
        BY <1>2, <2>4, <4>1, <4>2, <4>3 DEF RequestStep
    <3>2. Saved(t)' <=> Saved(t)
      <4>1. CASE \E s \in Scans : Discard(c, s)
        BY <4>1 DEF Discard, Saved, Busy, Row
      <4>2. CASE \E file \in {"none", "uploaded", "deleted"} :
                    scan' = [scan EXCEPT ![request[c].scan].file = file]
        BY <4>2 DEF Saved, Row
      <4>3. CASE UNCHANGED scan
        BY <4>3 DEF Saved
      <4> QED
        BY <1>2, <2>4, <4>1, <4>2, <4>3 DEF RequestStep, StartConfirm, FindImage, FindFile,
             MarkFile, DeleteObject, ForgetImage, RequestFails
    <3> QED
      BY <2>1, <3>1, <3>2 DEF ContactsFollow
  <2> QED
    BY <2>2, <2>3, <2>4
<1> QED
  BY <1>1, <1>2, NextIsAStep DEF Worker

-----------------------------------------------------------------------------
(* Pictures                                                                 *)

(* The picture of a scan, and who is about it, apart from one request. *)
SamePicture(t) ==
    /\ scan'[t].file = scan[t].file
    /\ t \in stored' <=> t \in stored
    /\ cut'[t] = cut[t]

LEMMA PicturesHold ==
    ASSUME TypeOK, RequestsAreAbout, RunsAreAbout, NobodyBefore, PicturesFollowRow, Next
    PROVE  PicturesFollowRow'
<1> USE DEF TypeOK
<1>1. CASE Worker
  <2> SUFFICES ASSUME NEW t \in Scans
               PROVE  PictureFollows(t)'
    BY DEF PicturesFollowRow
  <2>1. UNCHANGED <<request, decided, cut>>
    BY <1>1, WorkerFrame
  <2>2. PictureFollows(t)
    BY DEF PicturesFollowRow
  <2>3. CASE (t \in stored' <=> t \in stored) /\ scan'[t].file = scan[t].file
    BY <2>1, <2>2, <2>3 DEF PictureFollows, At, CutAt
  <2>4. CASE scan[t].status = "none" /\ t \in stored' /\ scan'[t].file = "uploaded"
    <3>1. t \notin decided /\ \A c \in Requests : request[c].scan # t
      BY <2>4 DEF NobodyBefore
    <3> QED
      BY <2>1, <2>4, <3>1 DEF PictureFollows, At
  <2> QED
    BY <1>1, <2>3, <2>4, WorkerFrame
<1>2. ASSUME NEW c \in Requests, RequestStep(c)
      PROVE  PicturesFollowRow'
  <2> SUFFICES ASSUME NEW t \in Scans
               PROVE  PictureFollows(t)'
    BY DEF PicturesFollowRow
  <2>1. PictureFollows(t)
    BY DEF PicturesFollowRow
  <2> DEFINE Else(steps) == \E d \in Requests \ {c} :
                               request[d].scan = t /\ request[d].step \in steps
             now == request[c]
             next == request'[c]
  <2>2. ASSUME NEW steps
        PROVE  /\ At(t, steps) <=> Else(steps) \/ (now.scan = t /\ now.step \in steps)
               /\ At(t, steps)' <=> Else(steps) \/ (next.scan = t /\ next.step \in steps)
    <3>1. \A d \in Requests \ {c} :
             request'[d].step = request[d].step /\ request'[d].scan = request[d].scan
      BY <1>2, RequestShape
    <3> QED
      BY <3>1 DEF At
  <2>3. now \in Request /\ scan[t].file \in {"none", "uploaded", "deleted"}
    BY DEF Row
  <2> HIDE DEF Else
  <2> DEFINE Follows ==
        /\ scan[t].file = "uploaded" =>
              /\ t \in stored
              /\ ~Else(AfterMark)
              /\ ~(now.scan = t /\ now.step \in AfterMark)
        /\ t \in decided /\ scan[t].file = "uploaded" =>
              \/ Else(BeforeMark)
              \/ now.scan = t /\ now.step \in BeforeMark
              \/ CutAt(t, BeforeMark)
        /\ t \in stored /\ scan[t].file # "uploaded" =>
              \/ Else({"delete"})
              \/ now.scan = t /\ now.step = "delete"
              \/ "delete" \in cut[t]
        /\ scan[t].file = "deleted" =>
              \/ Else(AfterMark)
              \/ now.scan = t /\ now.step \in AfterMark
              \/ CutAt(t, AfterMark)
             FollowsNext ==
        /\ scan'[t].file = "uploaded" =>
              /\ t \in stored'
              /\ ~Else(AfterMark)
              /\ ~(next.scan = t /\ next.step \in AfterMark)
        /\ t \in decided' /\ scan'[t].file = "uploaded" =>
              \/ Else(BeforeMark)
              \/ next.scan = t /\ next.step \in BeforeMark
              \/ CutAt(t, BeforeMark)'
        /\ t \in stored' /\ scan'[t].file # "uploaded" =>
              \/ Else({"delete"})
              \/ next.scan = t /\ next.step = "delete"
              \/ "delete" \in cut'[t]
        /\ scan'[t].file = "deleted" =>
              \/ Else(AfterMark)
              \/ next.scan = t /\ next.step \in AfterMark
              \/ CutAt(t, AfterMark)'
  <2>4. Follows
    BY <2>1, <2>2 DEF PictureFollows
  <2> SUFFICES FollowsNext
    BY <2>2 DEF PictureFollows
  <2> HIDE DEF now, next
  <2> USE DEF CutAt, BeforeMark, AfterMark
  <2>5. CASE \E s \in Scans : StartConfirm(c, s)
    <3>1. /\ SamePicture(t) /\ UNCHANGED decided
          /\ now.step = "idle" /\ next.step = "read"
      BY <2>5 DEF StartConfirm, SamePicture, NoRequest, ghosts, now, next
    <3> QED
      BY <2>4, <3>1 DEF SamePicture
  <2>6. CASE \E s \in Scans : Discard(c, s)
    <3>1. PICK s \in Scans : Discard(c, s)
      BY <2>6
    <3>2. /\ SamePicture(t)
          /\ decided' = decided \cup {s}
          /\ now.step = "idle" /\ next.step = "image" /\ next.scan = s
      BY <3>1 DEF Discard, SamePicture, NoRequest, Row, now, next
    <3> QED
      BY <2>4, <3>2 DEF SamePicture
  <2>7. CASE ReadScan(c)
    <3>1. /\ SamePicture(t) /\ UNCHANGED decided
          /\ now.step = "read" /\ next.step \in {"image", "write"} /\ next.scan = now.scan
      BY <2>3, <2>7 DEF ReadScan, GoTo, SamePicture, Request, ghosts, now, next
    <3> QED
      BY <2>4, <3>1 DEF SamePicture
  <2>8. CASE SaveContact(c)
    <3>1. /\ SamePicture(t)
          /\ decided' = decided \cup {now.scan}
          /\ now.step = "write" /\ next.step = "image" /\ next.scan = now.scan
      BY <2>8 DEF SaveContact, SamePicture, NoRequest, Row, now, next
    <3> QED
      BY <2>4, <3>1 DEF SamePicture
  <2>9. CASE FindImage(c)
    <3>1. /\ SamePicture(t) /\ UNCHANGED decided
          /\ now.step = "image"
          /\ \/ next.step = "find" /\ next.scan = now.scan
             \/ scan[now.scan].file = "none" /\ next.step = "idle"
      BY <2>3, <2>9 DEF FindImage, GoTo, Leave, SamePicture, NoRequest, Request, ghosts, now, next
    <3> QED
      BY <2>4, <3>1 DEF SamePicture
  <2>10. CASE FindFile(c)
    <3>1. /\ SamePicture(t) /\ UNCHANGED decided
          /\ now.step = "find"
          /\ \/ next.step = "mark" /\ next.scan = now.scan
             \/ scan[now.scan].file # "uploaded" /\ next.step = "idle"
      BY <2>3, <2>10 DEF FindFile, GoTo, Leave, SamePicture, NoRequest, Request, ghosts, now, next
    <3> QED
      BY <2>4, <3>1 DEF SamePicture
  <2>11. CASE MarkFile(c)
    <3>1. /\ UNCHANGED <<stored, decided, cut>>
          /\ now.step = "mark" /\ next.step = "delete" /\ next.scan = now.scan
          /\ t = now.scan => /\ scan'[t].file # "uploaded"
                             /\ scan[t].file = "none" => scan'[t].file = "none"
          /\ t # now.scan => scan'[t] = scan[t]
      BY <2>3, <2>11 DEF MarkFile, GoTo, Row, Request, ghosts, now, next
    <3> QED
      BY <2>3, <2>4, <3>1
  <2>12. CASE DeleteObject(c)
    <3>1. /\ UNCHANGED <<scan, decided>>
          /\ now.step = "delete" /\ next.step = "forget" /\ next.scan = now.scan
          /\ \/ stored' = stored \ {now.scan} /\ UNCHANGED cut
             \/ stored' = stored /\ cut' = [cut EXCEPT ![now.scan] = @ \cup {"delete"}]
      BY <2>3, <2>12 DEF DeleteObject, Removed, GoTo, Request, now, next
    <3>2. t # now.scan => (t \in stored' <=> t \in stored) /\ cut'[t] = cut[t]
      BY <3>1
    <3>3. t = now.scan => /\ t \in stored' => "delete" \in cut'[t]
                          /\ cut[t] \subseteq cut'[t]
                          /\ scan[t].file # "uploaded"
      BY <2>4, <3>1
    <3> QED
      BY <2>4, <3>1, <3>2, <3>3
  <2>13. CASE ForgetImage(c)
    <3>1. /\ UNCHANGED <<stored, decided, cut>>
          /\ now.step = "forget" /\ next.step = "idle"
          /\ t = now.scan => scan'[t].file = "none"
          /\ t # now.scan => scan'[t] = scan[t]
      BY <2>13 DEF ForgetImage, Leave, NoRequest, Row, ghosts, now, next
    <3> QED
      BY <2>4, <3>1
  <2>14. CASE RequestFails(c)
    <3>1. /\ UNCHANGED <<scan, stored, decided>>
          /\ next.step = "idle"
          /\ cut' = IF now.step \in Removal
                    THEN [cut EXCEPT ![now.scan] = @ \cup {now.step}] ELSE cut
      BY <2>14 DEF RequestFails, Leave, NoRequest, now, next
    <3>2. cut[t] \subseteq cut'[t]
      BY <3>1
    <3>3. now.scan = t /\ now.step \in Removal => now.step \in cut'[t]
      BY <3>1
    <3> QED
      BY <2>4, <3>1, <3>2, <3>3 DEF Removal
  <2> QED
    BY <1>2, <2>5, <2>6, <2>7, <2>8, <2>9, <2>10, <2>11, <2>12, <2>13, <2>14 DEF RequestStep
<1> QED
  BY <1>1, <1>2, NextIsAStep DEF Worker

-----------------------------------------------------------------------------
(* Spinners                                                                 *)

LEMMA SpinnersHold ==
    ASSUME TypeOK, RequestsAreAbout, RunsAreAbout, SpinnersTurnForSomething, Next
    PROVE  SpinnersTurnForSomething'
<1> USE DEF TypeOK
<1> SUFFICES ASSUME NEW t \in Scans, scan'[t].status \in Busy
             PROVE  job'[t].queue # "none" \/ t \in lost' \/ Recognizing(t)'
  BY DEF SpinnersTurnForSomething
<1>0. ASSUME scan[t].status \in Busy
      PROVE  job[t].queue # "none" \/ t \in lost \/ Recognizing(t)
  BY <1>0 DEF SpinnersTurnForSomething
<1>1. ASSUME NEW s \in Scans, Create(s) \/ ScanQr(s)
      PROVE  job'[t].queue # "none" \/ t \in lost' \/ Recognizing(t)'
  <2>1. UNCHANGED run
    BY <1>1 DEF Create, ScanQr
  <2>2. CASE t # s
    <3>1. scan'[t] = scan[t] /\ job'[t] = job[t] /\ lost \subseteq lost'
      BY <1>1, <2>2 DEF Create, ScanQr, ghosts
    <3> QED
      BY <1>0, <2>1, <3>1 DEF Recognizing
  <2>3. CASE t = s
    BY <1>1, <2>3 DEF Create, ScanQr, Busy, Row, Job
  <2> QED
    BY <2>2, <2>3
<1>2. ASSUME NEW s \in Scans, RunJob(s)
      PROVE  job'[t].queue # "none" \/ t \in lost' \/ Recognizing(t)'
  <2>1. PICK r \in Runs :
           /\ run[r] = NoRun
           /\ run' = [run EXCEPT ![r] = [step |-> "look", scan |-> s]]
           /\ job' = [job EXCEPT ![s] = [@ EXCEPT !.queue = "active", !.holders = {r}]]
    BY <1>2, FreePlace
  <2>2. Recognizing(t) => Recognizing(t)'
    BY <2>1, NoRunIsRun DEF Recognizing
  <2>3. job[t].queue # "none" => job'[t].queue # "none"
    BY <2>1 DEF Job
  <2>4. UNCHANGED <<scan, lost>>
    BY <1>2 DEF RunJob, ghosts
  <2> QED
    BY <1>0, <2>2, <2>3, <2>4
<1>3. ASSUME NEW s \in Scans, MarkFailed(s)
      PROVE  job'[t].queue # "none" \/ t \in lost' \/ Recognizing(t)'
  <2>1. /\ UNCHANGED run
        /\ job' = [job EXCEPT ![s] = NoJob]
        /\ \/ Fail(s) /\ UNCHANGED lost
           \/ lost' = lost \cup {s} /\ UNCHANGED scan
    BY <1>3 DEF MarkFailed, JobDone
  <2>2. CASE t # s
    <3>1. scan'[t] = scan[t] /\ job'[t] = job[t] /\ lost \subseteq lost'
      BY <2>1, <2>2 DEF Fail
    <3> QED
      BY <1>0, <2>1, <3>1 DEF Recognizing
  <2>3. CASE t = s
    <3>1. Fail(s) => scan'[s].status \notin Busy
      BY DEF Fail, Busy, Row
    <3> QED
      BY <2>1, <2>3, <3>1
  <2> QED
    BY <2>2, <2>3
<1>4. ASSUME NEW s \in Scans, WorkerStops(s)
      PROVE  job'[t].queue # "none" \/ t \in lost' \/ Recognizing(t)'
  <2> DEFINE again == [Again(s) EXCEPT !.stalled = TRUE]
  <2>1. again.queue # "none"
    <3>1. Again(s) \in Job /\ job[s] \in Job
      BY AgainIsJob
    <3>2. Again(s).queue = "waiting"
      BY <3>1 DEF Again, Job
    <3> QED
      BY <3>1, <3>2 DEF Job
  <2>2. \/ job' = [job EXCEPT ![s] = NoJob] /\ lost' = lost \cup {s}
        \/ job' = [job EXCEPT ![s] = again] /\ lost' = lost
    BY <1>4 DEF WorkerStops, JobDone
  <2> HIDE DEF again
  <2>3. CASE t = s
    BY <2>1, <2>2, <2>3
  <2>4. CASE t # s
    <3>1. scan' = scan /\ job'[t] = job[t] /\ lost \subseteq lost'
      BY <1>4, <2>2, <2>4 DEF WorkerStops
    <3>2. Recognizing(t) => Recognizing(t)'
      <4>1. run' = run \/ \E r \in job[s].holders : run' = [run EXCEPT ![r] = NoRun]
        BY <1>4 DEF WorkerStops, RunEnds
      <4>2. \A r \in job[s].holders : run[r].scan # t
        BY <2>4 DEF RunsAreAbout
      <4> QED
        BY <4>1, <4>2 DEF Recognizing
    <3> QED
      BY <1>0, <3>1, <3>2
  <2> QED
    BY <2>3, <2>4
<1>5. ASSUME NEW r \in Runs, RunStep(r)
      PROVE  job'[t].queue # "none" \/ t \in lost' \/ Recognizing(t)'
  <2>1. run[r].scan \in Scans
    BY <1>5, RunShape
  <2>2. CASE t # run[r].scan
    <3>1. scan'[t] = scan[t] /\ lost \subseteq lost'
      BY <1>5, <2>2 DEF RunStep, Look, MarkProcessing, Review, RunFails, Fail, ghosts
    <3>2. job'[t] = job[t]
      <4>1. job' = job \/ \E j \in Job : job' = [job EXCEPT ![run[r].scan] = j]
        BY <1>5, RunShape
      <4> QED
        BY <2>2, <4>1
    <3>3. Recognizing(t) => Recognizing(t)'
      <4>1. \A q \in Runs \ {r} : run'[q] = run[q]
        BY <1>5, RunShape
      <4> QED
        BY <2>2, <4>1 DEF Recognizing
    <3> QED
      BY <1>0, <3>1, <3>2, <3>3
  <2>3. CASE t = run[r].scan
    <3>1. CASE Look(r)
      <4>1. /\ UNCHANGED lost
            /\ \/ Completes(r) /\ scan'[t].status \notin Busy
               \/ RunGoesOn(r, "mark") /\ UNCHANGED <<scan, job>>
        BY <2>1, <2>3, <3>1 DEF Look, Fail, Busy, Row, ghosts
      <4>2. RunGoesOn(r, "mark") => (Recognizing(t) => Recognizing(t)')
        BY <3>1 DEF RunGoesOn, Recognizing, Run, Look
      <4> QED
        BY <1>0, <4>1, <4>2
    <3>2. CASE MarkProcessing(r)
      <4>1. run'[r].scan = t /\ run'[r].step = "recognize"
        BY <2>3, <3>2 DEF MarkProcessing, RunGoesOn, Run
      <4> QED
        BY <4>1 DEF Recognizing
    <3>3. CASE Review(r)
      BY <2>1, <2>3, <3>3 DEF Review, Busy, Row
    <3>4. CASE RunFails(r)
      <4>1. CASE ~Holds(r)
        BY <2>3, <3>4, <4>1 DEF RunFails
      <4>2. CASE Holds(r)
        <5> DEFINE again == [Again(t) EXCEPT !.attempts = @ + 1]
                   over == [NoJob EXCEPT !.queue = "exhausted"]
        <5>1. \/ job' = [job EXCEPT ![t] = over]
              \/ job[t].attempts + 1 < Attempts /\ job' = [job EXCEPT ![t] = again]
          <6>1. job[t].attempts \in Nat /\ Attempts \in Nat
            BY ScansAssumption DEF Job
          <6> QED
            BY <2>3, <3>4, <4>2, <6>1 DEF RunFails, Exhausted
        <5>2. over.queue # "none" /\ again.queue # "none"
          <6>1. Again(t) \in Job /\ job[t] \in Job
            BY AgainIsJob
          <6>2. Again(t).queue = "waiting"
            BY <6>1 DEF Again, Job
          <6> QED
            BY <6>1, <6>2 DEF Job, NoJob
        <5> HIDE DEF again, over
        <5> QED
          BY <5>1, <5>2
      <4> QED
        BY <4>1, <4>2
    <3> QED
      BY <1>5, <3>1, <3>2, <3>3, <3>4 DEF RunStep
  <2> QED
    BY <2>2, <2>3
<1>6. ASSUME NEW c \in Requests, RequestStep(c)
      PROVE  job'[t].queue # "none" \/ t \in lost' \/ Recognizing(t)'
  <2>1. UNCHANGED <<job, run, lost>>
    BY <1>6, RequestShape
  <2>2. scan[t].status \in Busy
    <3>1. CASE \E s \in Scans, status \in {"saved", "discarded"} :
                  scan' = [scan EXCEPT ![s].status = status]
      BY <3>1 DEF Busy, Row
    <3>2. CASE \E file \in {"none", "uploaded", "deleted"} :
                  scan' = [scan EXCEPT ![request[c].scan].file = file]
      BY <3>2 DEF Row
    <3>3. CASE SaveContact(c)
      <4>1. request[c].scan \in Scans
        BY <3>3, NoRequestIsRequest DEF SaveContact, RequestsAreAbout
      <4> QED
        BY <3>1, <3>3, <4>1 DEF SaveContact
    <3>4. CASE UNCHANGED scan
      BY <3>4
    <3> QED
      BY <1>6, <3>1, <3>2, <3>3, <3>4 DEF RequestStep, StartConfirm, Discard, ReadScan, FindImage,
           FindFile, MarkFile, DeleteObject, ForgetImage, RequestFails, ghosts
  <2> QED
    BY <1>0, <2>1, <2>2 DEF Recognizing
<1> QED
  BY <1>1, <1>2, <1>3, <1>4, <1>5, <1>6, NextIsAStep DEF JobStep

-----------------------------------------------------------------------------
(* The invariant                                                            *)

LEMMA InitHolds ==
    ASSUME Init
    PROVE  IInv
<1>1. TypeOK
  BY NoJobIsJob, NoRunIsRun, NoRequestIsRequest, ScansAssumption DEF Init, TypeOK, Row
<1>2. RequestsAreAbout /\ RunsAreAbout
  BY DEF Init, RequestsAreAbout, RunsAreAbout, NoJob
<1>3. NobodyBefore
  <2>1. \A c \in Requests : request[c].scan = NoScan
    BY NoRequestIsRequest DEF Init
  <2> QED
    BY <2>1, ScansAssumption DEF Init, NobodyBefore
<1>4. ContactsFollowRow
  <2>1. \A c \in Requests : request[c].step = "idle"
    BY NoRequestIsRequest DEF Init
  <2>2. \A s \in Scans : /\ contacts[s] = 0 /\ blind[s] = 0 /\ reopened[s] = 0
                         /\ scan[s].status = "none"
    BY DEF Init
  <2> SUFFICES ASSUME NEW s \in Scans
               PROVE  ContactsFollow(s)
    BY DEF ContactsFollowRow
  <2>3. contacts[s] <= blind[s] + reopened[s]
    BY <2>2
  <2> QED
    BY <2>1, <2>2, <2>3 DEF ContactsFollow, Saved
<1>5. PicturesFollowRow
  BY DEF Init, PicturesFollowRow, PictureFollows
<1>6. SpinnersTurnForSomething
  BY DEF Init, SpinnersTurnForSomething, Busy
<1> QED
  BY <1>1, <1>2, <1>3, <1>4, <1>5, <1>6 DEF IInv

LEMMA StepHolds ==
    ASSUME IInv, [Next]_vars
    PROVE  IInv'
<1>1. CASE Next
  BY <1>1, TypesHold, RequestsHold, RunsHold, NobodyBeforeHolds, ContactsHold, PicturesHold,
     SpinnersHold
     DEF IInv
<1>2. CASE UNCHANGED vars
  <2>1. TypeOK' /\ RequestsAreAbout' /\ RunsAreAbout' /\ NobodyBefore'
    BY <1>2 DEF vars, ghosts, IInv, TypeOK, RequestsAreAbout, RunsAreAbout, NobodyBefore
  <2>2. ContactsFollowRow' /\ SpinnersTurnForSomething'
    BY <1>2 DEF vars, ghosts, IInv, ContactsFollowRow, ContactsFollow, Saved,
                SpinnersTurnForSomething, Recognizing
  <2>3. PicturesFollowRow'
    BY <1>2 DEF vars, ghosts, IInv, PicturesFollowRow, PictureFollows, At, CutAt
  <2> QED
    BY <2>1, <2>2, <2>3 DEF IInv
<1> QED
  BY <1>1, <1>2

THEOREM InvariantHolds == Spec => []IInv
<1>1. Init => IInv
  BY InitHolds
<1>2. IInv /\ [Next]_vars => IInv'
  BY StepHolds
<1> QED
  BY <1>1, <1>2, PTL DEF Spec

(* scans.service.ts, confirm: for any number of windows, places and         *)
(* attempts, and whatever overlaps or fails, each contact beyond the first  *)
(* of a scan has a cause of its own: a window that wrote after another had  *)
(* saved what it read, or an extraction that wrote over the saved row.      *)
THEOREM ExtraContacts == Spec => []ExtraContactsAreExplained
<1>1. IInv => ExtraContactsAreExplained
  <2> SUFFICES ASSUME IInv, NEW s \in Scans
               PROVE  contacts[s] <= 1 + blind[s] + reopened[s]
    BY DEF ExtraContactsAreExplained
  <2>1. contacts[s] \in Nat /\ blind[s] \in Nat /\ reopened[s] \in Nat
    BY DEF IInv, TypeOK
  <2>2. ContactsFollow(s)
    BY DEF IInv, ContactsFollowRow
  <2> QED
    BY <2>1, <2>2 DEF ContactsFollow
<1> QED
  BY <1>1, InvariantHolds, PTL

(* scans.service.ts, deleteImage, with files.service.ts, remove: whatever   *)
(* stops or fails, the picture of a scan that was decided on is left only   *)
(* where its removal was cut short, in the state that step leaves, and a    *)
(* file in use always has its object.                                       *)
THEOREM RemovalStops == Spec => []RemovalStopsWhereItWasCut
<1>1. IInv => RemovalStopsWhereItWasCut
  <2> SUFFICES ASSUME IInv, NEW s \in Scans
               PROVE  /\ scan[s].file = "uploaded" => s \in stored
                      /\ s \in decided /\ (\A c \in Requests : request[c].scan # s) =>
                           /\ scan[s].file = "uploaded" => CutAt(s, BeforeMark)
                           /\ s \in stored /\ scan[s].file # "uploaded"
                                => "delete" \in cut[s]
                           /\ scan[s].file = "deleted" => CutAt(s, AfterMark)
    BY DEF RemovalStopsWhereItWasCut, CutAt, BeforeMark, AfterMark
  <2>1. PictureFollows(s)
    BY DEF IInv, PicturesFollowRow
  <2>2. (\A c \in Requests : request[c].scan # s) => \A steps : ~At(s, steps)
    BY DEF At
  <2> QED
    BY <2>1, <2>2 DEF PictureFollows
<1> QED
  BY <1>1, InvariantHolds, PTL

(* handler.ts, handleScanExtraction and its failed hook: a scan that is     *)
(* pending or processing has its job in the queue or a run that will write  *)
(* to it, unless the queue, a stop or a failure lost one of them.           *)
THEOREM SpinnersKnown == Spec => []SpinnersTurnForSomething
<1>1. IInv => SpinnersTurnForSomething
  BY DEF IInv
<1> QED
  BY <1>1, InvariantHolds, PTL
=============================================================================
