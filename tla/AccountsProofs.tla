--------------------------- MODULE AccountsProofs ---------------------------
(***************************************************************************)
(* Accounts for any number of users, files, calls, deletions and attempts: *)
(* rows are the last to go, a deletion that says completed is one, however *)
(* many run side by side, nobody loses an organisation with another's      *)
(* account, an organisation is left empty only where every deletion passed *)
(* it by, and no deletion that was requested is left without a job, unless *)
(* the job or the failure's mark was lost.                                 *)
(***************************************************************************)
EXTENDS Accounts, TLAPS

-----------------------------------------------------------------------------
(* The invariant                                                            *)

(* A call under way knows what it is about; one that goes on to enqueue is  *)
(* the only one to know its deletion, and that has no job yet.              *)
SessionsHold ==
    \A c \in Requests :
        /\ session[c].step = "provision" => session[c].sub \in Identities
        /\ session[c].step \in {"start", "mark", "enqueue", "join", "ticket"} =>
             session[c].user \in Users
        /\ session[c].step \in {"join", "ticket"} => session[c].org \in Users
        /\ session[c].step = "enqueue" =>
             /\ session[c].deletion \in Deletions
             /\ deletion[session[c].deletion].status # "none"
             /\ job[session[c].deletion].queue = "none"
             /\ \A b \in Requests \ {c} :
                  session[b].step = "enqueue" => session[b].deletion # session[c].deletion

(* A deletion is of somebody who has or had an account, and a job is of a   *)
(* deletion.                                                                *)
DeletionsHold ==
    \A d \in Deletions :
        /\ deletion[d].status # "none" =>
             deletion[d].user \in Users /\ user[deletion[d].user].status # "none"
        /\ job[d].queue # "none" => deletion[d].status # "none"

(* A job that does not run remembers nothing, one that runs has counted the *)
(* members before it lists files, and has nothing left to list or to delete *)
(* when it comes to the identity.                                           *)
JobsHold ==
    \A d \in Deletions :
        /\ job[d].queue # "active" \/ job[d].step \in {"mark", "find"} =>
             job[d].orgs = {} /\ job[d].left = {}
        /\ job[d].queue # "active" => job[d].step = "mark"
        /\ job[d].queue # "active" \/ job[d].step # "objects" => job[d].keys = {}
        /\ job[d].step \in {"identity", "rows", "complete"} => job[d].left = {}
        /\ \A o \in job[d].orgs : user[o].status # "none"

(* The order of the job: the identity goes before the rows, and these       *)
(* before the deletion is completed.                                        *)
OrderHolds ==
    /\ \A u \in Users : user[u].status = "gone" => user[u].sub \notin provider
    /\ \A d \in Deletions :
        /\ At(d, "rows") => user[deletion[d].user].sub \notin provider
        /\ At(d, "complete") \/ deletion[d].status = "completed" =>
             user[deletion[d].user].status = "gone"

(* A file belongs to an organisation somebody got, and keeps its row as     *)
(* long as that exists.                                                     *)
FilesHold ==
    /\ \A o \in Users : org[o].exists => user[o].status # "none"
    /\ \A f \in Files :
        /\ file[f].org = NoUser => ~file[f].row /\ ~file[f].stored
        /\ file[f].org # NoUser => user[file[f].org].status # "none"
        /\ file[f].org # NoUser /\ ~file[f].row => ~org[file[f].org].exists

(* What is stored and has no row, or is stored in an organisation the job   *)
(* has listed and is not on its list, came after the listing.               *)
ObjectsHold ==
    \A f \in Files : file[f].stored =>
        /\ ~file[f].row => f \in late
        /\ file[f].row => \A d \in Deletions :
             file[f].org \in job[d].orgs \ job[d].left => f \in late \cup job[d].keys

(* Who else is in an organisation that a job has counted came after it.     *)
CountsHold ==
    \A d \in Deletions : \A o \in job[d].orgs \ hasty : org[o].members \subseteq {deletion[d].user}

(* Who is in an organisation has an account.                                *)
MembersHold == \A o \in Users : \A u \in org[o].members : Exists(u)

(* When all who are in an organisation are about to leave it, or nobody is  *)
(* left, the last of their jobs to count passed it by.                      *)
PassedHold ==
    \A o \in Users :
        org[o].exists /\ (\A v \in org[o].members : Leaves(v, o)) => o \in passedBy

IInv ==
    /\ TypeOK
    /\ SessionsHold
    /\ DeletionsHold
    /\ JobsHold
    /\ OrderHolds
    /\ FilesHold
    /\ ObjectsHold
    /\ CountsHold
    /\ MembersHold
    /\ PassedHold
    /\ NoDeletionIsForgotten

-----------------------------------------------------------------------------
(* What a step leaves alone is never opaque below. *)
USE DEF rows, ghosts

LEMMA NoSessionIsSession ==
    NoSession \in Session /\ NoSession.step = "idle"
  BY DEF NoSession, Session

LEMMA NoJobIsJob ==
    /\ NoJob \in Job
    /\ NoJob.queue = "none" /\ NoJob.step = "mark"
    /\ NoJob.orgs = {} /\ NoJob.left = {} /\ NoJob.keys = {}
  BY AccountsAssumption DEF NoJob, Job

(* A job that leaves its worker, whatever becomes of it: it has forgotten   *)
(* what it found.                                                           *)
JobEnds(d) ==
    /\ job'[d] \in Job
    /\ job'[d].queue # "active" /\ job'[d].step = "mark"
    /\ job'[d].orgs = {} /\ job'[d].left = {} /\ job'[d].keys = {}
    /\ \A e \in Deletions \ {d} : job'[e] = job[e]
    /\ job' \in [Deletions -> Job]

LEMMA ThrowEnds ==
    ASSUME TypeOK, NEW d \in Deletions, Throw(d)
    PROVE  JobEnds(d) /\ job'[d].queue \in {"waiting", "exhausted"}
<1> DEFINE thrown == IF Exhausted(d) THEN [NoJob EXCEPT !.queue = "exhausted"]
                     ELSE [Restarted(d) EXCEPT !.attempts = @ + 1]
<1>1. job' = [job EXCEPT ![d] = thrown]
  BY DEF Throw
<1>2. job[d] \in Job /\ job \in [Deletions -> Job]
  BY DEF TypeOK
<1>3. /\ thrown \in Job
      /\ thrown.queue \in {"waiting", "exhausted"} /\ thrown.step = "mark"
      /\ thrown.orgs = {} /\ thrown.left = {} /\ thrown.keys = {}
  <2>1. CASE Exhausted(d)
    <3>1. thrown = [NoJob EXCEPT !.queue = "exhausted"]
      BY <2>1
    <3> HIDE DEF thrown
    <3> QED
      BY <3>1, NoJobIsJob DEF Job
  <2>2. CASE ~Exhausted(d)
    <3>1. /\ job[d].attempts \in Nat /\ job[d].attempts + 1 \in 0..Attempts
          /\ job[d].stalled \in BOOLEAN
      BY <1>2, <2>2, AccountsAssumption DEF Exhausted, Job
    <3>2. thrown = [NoJob EXCEPT !.queue = "waiting", !.stalled = job[d].stalled,
                                 !.attempts = job[d].attempts + 1]
      BY <2>2 DEF Restarted, NoJob
    <3> HIDE DEF thrown
    <3> QED
      BY <3>1, <3>2 DEF NoJob, Job
  <2> QED
    BY <2>1, <2>2
<1> HIDE DEF thrown
<1> QED
  BY <1>1, <1>2, <1>3 DEF JobEnds

LEMMA JobDoneEnds ==
    ASSUME TypeOK, NEW d \in Deletions, JobDone(d)
    PROVE  JobEnds(d) /\ job'[d].queue = "none"
  BY NoJobIsJob DEF JobDone, JobEnds, TypeOK

LEMMA StopEnds ==
    ASSUME TypeOK, NEW d \in Deletions, WorkerStops(d)
    PROVE  /\ JobEnds(d)
           /\ \/ job'[d].queue = "waiting"
              \/ job'[d].queue = "none" /\ lost' = lost \cup {d}
<1>1. CASE job[d].stalled
  BY <1>1, JobDoneEnds DEF WorkerStops
<1>2. CASE ~job[d].stalled
  <2> DEFINE again == [Restarted(d) EXCEPT !.stalled = TRUE]
  <2>1. job' = [job EXCEPT ![d] = again]
    BY <1>2 DEF WorkerStops
  <2>2. job[d] \in Job /\ job \in [Deletions -> Job]
    BY DEF TypeOK
  <2>3. /\ again \in Job /\ again.queue = "waiting" /\ again.step = "mark"
        /\ again.orgs = {} /\ again.left = {} /\ again.keys = {}
    BY <2>2, AccountsAssumption DEF Restarted, NoJob, Job
  <2> HIDE DEF again
  <2>4. /\ job' \in [Deletions -> Job] /\ job'[d] = again
        /\ \A e \in Deletions \ {d} : job'[e] = job[e]
    BY <2>1, <2>2, <2>3
  <2> QED
    BY <2>3, <2>4 DEF JobEnds
<1> QED
  BY <1>1, <1>2

(* What a running job changes of itself.                                    *)
JobGoesOn(d) ==
    /\ job' \in [Deletions -> Job]
    /\ job[d].queue = "active" /\ job'[d].queue = "active"
    /\ \A e \in Deletions \ {d} : job'[e] = job[e]

LEMMA ThenGoesOn ==
    ASSUME TypeOK, NEW d \in Deletions, job[d].queue = "active",
           NEW step \in {"mark", "find", "list", "objects", "identity", "rows", "complete"},
           Then(d, step)
    PROVE  /\ JobGoesOn(d)
           /\ job'[d].step = step
           /\ UNCHANGED <<job[d].orgs, job[d].left, job[d].keys>>
<1>1. job[d] \in Job /\ job \in [Deletions -> Job]
  BY DEF TypeOK
<1> QED
  BY <1>1 DEF Then, JobGoesOn, Job

-----------------------------------------------------------------------------
(* Types                                                                    *)

LEMMA TypesHold ==
    ASSUME TypeOK, SessionsHold, [Next]_vars
    PROVE  TypeOK'
<1> USE DEF TypeOK
<1>0. /\ user \in [Users -> UserRow] /\ org \in [Users -> Organization]
      /\ file \in [Files -> FileObject] /\ deletion \in [Deletions -> DeletionRequest]
      /\ session \in [Requests -> Session] /\ job \in [Deletions -> Job]
  OBVIOUS
<1>1. ASSUME NEW c \in Requests, Call(c) PROVE TypeOK'
  <2>1. session[c] \in Session
    BY <1>0
  <2>2. ASSUME NEW s \in Identities,
               session' = [session EXCEPT ![c] = [@ EXCEPT !.step = "provision", !.sub = s]]
        PROVE  session' \in [Requests -> Session]
    BY <1>0, <2>1, <2>2 DEF Session
  <2>3. ASSUME NEW u \in Users,
               session' = [session EXCEPT ![c] = [@ EXCEPT !.step = "start", !.user = u]]
        PROVE  session' \in [Requests -> Session]
    BY <1>0, <2>1, <2>3 DEF Session
  <2>4. session' \in [Requests -> Session]
    BY <1>1, <2>2, <2>3 DEF Call, RowsOf
  <2> QED
    BY <1>1, <2>4 DEF Call
<1>2. ASSUME NEW c \in Requests, Provision(c) PROVE TypeOK'
  <2>1. session[c].sub \in Identities
    BY <1>2 DEF Provision, SessionsHold
  <2>2. CASE RowsOf(session[c].sub) = {}
    <3>1. PICK u \in Users :
            /\ user' = [user EXCEPT ![u] = [status |-> "active", sub |-> session[c].sub]]
            /\ org' = [org EXCEPT ![u] = [exists |-> TRUE, members |-> {u}]]
            /\ session' = [session EXCEPT ![c] = [NoSession EXCEPT !.step = "start", !.user = u]]
      BY <1>2, <2>2 DEF Provision, ProvisionPersonalOrganization
    <3>2. [status |-> "active", sub |-> session[c].sub] \in UserRow
          /\ [exists |-> TRUE, members |-> {u}] \in Organization
      BY <2>1 DEF UserRow, Organization
    <3>3. [NoSession EXCEPT !.step = "start", !.user = u] \in Session
      BY DEF NoSession, Session
    <3> QED
      BY <1>0, <1>2, <3>1, <3>2, <3>3 DEF Provision
  <2>3. CASE RowsOf(session[c].sub) # {}
    BY <1>0, <1>2, <2>3, NoSessionIsSession DEF Provision, Leave
  <2> QED
    BY <2>2, <2>3
<1>3. ASSUME NEW c \in Requests, StartJoin(c) PROVE TypeOK'
  <2>1. PICK o \in Users : session' = [session EXCEPT ![c].step = "join", ![c].org = o]
    BY <1>3 DEF StartJoin
  <2>2. session' \in [Requests -> Session]
    <3>1. [session[c] EXCEPT !.step = "join", !.org = o] \in Session
      BY <1>0 DEF Session
    <3>2. session' = [session EXCEPT ![c] = [session[c] EXCEPT !.step = "join", !.org = o]]
      BY <1>0, <2>1
    <3> QED
      BY <1>0, <3>1, <3>2
  <2> QED
    BY <1>3, <2>2 DEF StartJoin
<1>4. ASSUME NEW c \in Requests, Join(c) PROVE TypeOK'
  <2> DEFINE o == session[c].org
             u == session[c].user
  <2>1. o \in Users /\ u \in Users
    BY <1>4 DEF Join, SessionsHold
  <2>2. \/ org' = [org EXCEPT ![o].members = @ \cup {u}] /\ hasty' = hasty \cup ({o} \cap Counted)
        \/ UNCHANGED <<org, hasty>>
    BY <1>4 DEF Join
  <2>3. /\ session' = [session EXCEPT ![c] = NoSession]
        /\ UNCHANGED <<user, file, deletion, provider, job, late, passedBy, lost, faults>>
    BY <1>4 DEF Join, Leave
  <2> HIDE DEF o, u
  <2>4. org' \in [Users -> Organization] /\ hasty' \subseteq Users
    <3> DEFINE joined == [org[o] EXCEPT !.members = org[o].members \cup {u}]
    <3>1. joined \in Organization
      BY <1>0, <2>1 DEF Organization
    <3>2. \/ org' = [org EXCEPT ![o] = joined]
          \/ org' = org
      BY <2>2
    <3> HIDE DEF joined
    <3>3. org' \in [Users -> Organization]
      BY <1>0, <3>1, <3>2
    <3> QED
      BY <1>0, <2>1, <2>2, <3>3
  <2> QED
    BY <1>0, <2>3, <2>4, NoSessionIsSession
<1>5. ASSUME NEW c \in Requests, StartUpload(c) PROVE TypeOK'
  <2>1. PICK o \in Users : session' = [session EXCEPT ![c].step = "ticket", ![c].org = o]
    BY <1>5 DEF StartUpload
  <2>2. session' \in [Requests -> Session]
    <3>1. [session[c] EXCEPT !.step = "ticket", !.org = o] \in Session
      BY <1>0 DEF Session
    <3>2. session' = [session EXCEPT ![c] = [session[c] EXCEPT !.step = "ticket", !.org = o]]
      BY <1>0, <2>1
    <3> QED
      BY <1>0, <3>1, <3>2
  <2> QED
    BY <1>5, <2>2 DEF StartUpload
<1>6. ASSUME NEW c \in Requests, CreateUploadTicket(c) PROVE TypeOK'
  <2>1. session[c].org \in Users
    BY <1>6 DEF CreateUploadTicket, SessionsHold
  <2>2. [org |-> session[c].org, row |-> TRUE, stored |-> FALSE] \in FileObject
    BY <2>1 DEF FileObject
  <2>3. file' \in [Files -> FileObject]
    BY <1>0, <1>6, <2>2 DEF CreateUploadTicket
  <2> QED
    BY <1>0, <1>6, <2>3, NoSessionIsSession DEF CreateUploadTicket, Leave
<1>7. ASSUME NEW c \in Requests, CheckDeletion(c) PROVE TypeOK'
  <2>1. session' \in [Requests -> Session]
    BY <1>0, <1>7, NoSessionIsSession DEF CheckDeletion, Leave, GoTo, Session
  <2> QED
    BY <1>7, <2>1 DEF CheckDeletion
<1>8. ASSUME NEW c \in Requests, MarkDeleted(c) PROVE TypeOK'
  <2> DEFINE u == session[c].user
  <2>1. u \in Users
    BY <1>8 DEF MarkDeleted, SessionsHold
  <2>2. CASE Exists(u)
    <3>1. PICK d \in Deletions :
            /\ deletion' = [deletion EXCEPT ![d] = [status |-> "pending", user |-> u]]
            /\ user' = [user EXCEPT ![u].status = "marked"]
            /\ session' = [session EXCEPT ![c].step = "enqueue", ![c].deletion = d]
      BY <1>8, <2>2 DEF MarkDeleted
    <3>2. deletion' \in [Deletions -> DeletionRequest]
      <4>1. [status |-> "pending", user |-> u] \in DeletionRequest
        BY <2>1 DEF DeletionRequest
      <4> QED
        BY <1>0, <3>1, <4>1
    <3>3. user' \in [Users -> UserRow]
      BY <1>0, <2>1, <3>1 DEF UserRow
    <3>4. session' \in [Requests -> Session]
      <4>1. [session[c] EXCEPT !.step = "enqueue", !.deletion = d] \in Session
        BY <1>0 DEF Session
      <4>2. session' = [session EXCEPT ![c] =
                          [session[c] EXCEPT !.step = "enqueue", !.deletion = d]]
        BY <1>0, <3>1
      <4> QED
        BY <1>0, <4>1, <4>2
    <3> QED
      BY <1>8, <3>2, <3>3, <3>4 DEF MarkDeleted
  <2>3. CASE ~Exists(u)
    BY <1>0, <1>8, <2>3, NoSessionIsSession DEF MarkDeleted, Leave
  <2> QED
    BY <2>2, <2>3
<1>9. ASSUME NEW c \in Requests, Enqueue(c) PROVE TypeOK'
  <2>1. session[c].deletion \in Deletions
    BY <1>9 DEF Enqueue, SessionsHold
  <2>2. job' \in [Deletions -> Job]
    <3> DEFINE d == session[c].deletion
    <3>1. job' = [job EXCEPT ![d].queue = "waiting"]
      BY <1>9 DEF Enqueue
    <3> HIDE DEF d
    <3> QED
      <4> DEFINE waiting == [job[d] EXCEPT !.queue = "waiting"]
      <4>1. waiting \in Job
        <5>1. job[d] \in Job
          BY <1>0, <2>1 DEF d
        <5> QED
          BY <5>1 DEF Job
      <4>2. job' = [job EXCEPT ![d] = waiting]
        BY <3>1
      <4> HIDE DEF waiting
      <4> QED
        BY <1>0, <4>1, <4>2
  <2> QED
    BY <1>0, <1>9, <2>2, NoSessionIsSession DEF Enqueue, Leave
<1>10. ASSUME NEW c \in Requests, RequestFails(c) PROVE TypeOK'
  <2>1. lost' \subseteq Deletions
    BY <1>10 DEF RequestFails, SessionsHold
  <2>2. faults' \in 0..MaxFaults
    BY <1>10, AccountsAssumption DEF RequestFails, Fault
  <2> QED
    BY <1>0, <1>10, <2>1, <2>2, NoSessionIsSession DEF RequestFails, Leave
<1>11. ASSUME NEW f \in Files, Upload(f) PROVE TypeOK'
  <2>1. file' \in [Files -> FileObject]
    BY <1>0, <1>11 DEF Upload, FileObject
  <2> QED
    BY <1>11, <2>1 DEF Upload
<1>12. ASSUME NEW d \in Deletions, WorkerStep(d) PROVE TypeOK'
  <2>1. CASE RunJob(d)
    <3>1. job' \in [Deletions -> Job]
      <4> DEFINE started == [job[d] EXCEPT !.queue = "active"]
      <4>1. started \in Job
        <5>1. job[d] \in Job
          BY <1>0
        <5> QED
          BY <5>1 DEF Job
      <4>2. job' = [job EXCEPT ![d] = started]
        BY <2>1 DEF RunJob
      <4> HIDE DEF started
      <4> QED
        BY <1>0, <4>1, <4>2
    <3> QED
      BY <2>1, <3>1 DEF RunJob
  <2>2. CASE MarkProcessing(d)
    <3>1. job' \in [Deletions -> Job]
      BY <2>2, ThenGoesOn DEF MarkProcessing, At, JobGoesOn
    <3>2. deletion' \in [Deletions -> DeletionRequest]
      BY <1>0, <2>2 DEF MarkProcessing, DeletionRequest
    <3> QED
      BY <2>2, <3>1, <3>2 DEF MarkProcessing
  <2>3. CASE FindOrganizations(d)
    <3>1. PICK found \in SUBSET Users :
            job' = [job EXCEPT ![d] = [@ EXCEPT !.step = IF found = {} THEN "identity" ELSE "list",
                                                !.orgs = found, !.left = found]]
      BY <2>3 DEF FindOrganizations, Found
    <3> DEFINE grown == [job[d] EXCEPT !.step = IF found = {} THEN "identity" ELSE "list",
                                         !.orgs = found, !.left = found]
    <3>2. grown \in Job
      <4>1. job[d] \in Job
        BY <1>0
      <4> QED
        BY <4>1 DEF Job
    <3>3. job' = [job EXCEPT ![d] = grown]
      BY <1>0, <3>1
    <3> HIDE DEF grown
    <3>4. job' \in [Deletions -> Job]
      BY <1>0, <3>2, <3>3
    <3>5. passedBy' \subseteq Users
      BY <2>3 DEF FindOrganizations
    <3> QED
      BY <2>3, <3>4, <3>5 DEF FindOrganizations
  <2>4. CASE ListFiles(d)
    <3>1. PICK o \in job[d].left, keys \in SUBSET Files :
            job' = [job EXCEPT ![d].step = "objects", ![d].left = @ \ {o}, ![d].keys = keys]
      BY <2>4 DEF ListFiles
    <3> DEFINE listed == [job[d] EXCEPT !.step = "objects", !.left = job[d].left \ {o},
                                        !.keys = keys]
    <3>2. listed \in Job
      <4>1. job[d] \in Job /\ job[d].left \ {o} \in SUBSET Users /\ keys \in SUBSET Files
        BY <1>0, <3>1 DEF Job
      <4> QED
        BY <4>1 DEF Job
    <3>3. job' = [job EXCEPT ![d] = listed]
      BY <1>0, <3>1 DEF Job
    <3> HIDE DEF listed
    <3>4. job' \in [Deletions -> Job]
      BY <1>0, <3>2, <3>3
    <3> QED
      BY <2>4, <3>4 DEF ListFiles
  <2>5. CASE DeleteObject(d)
    <3>1. PICK f \in job[d].keys :
            /\ file' = [file EXCEPT ![f].stored = FALSE]
            /\ job' = [job EXCEPT ![d].keys = @ \ {f}]
      BY <2>5 DEF DeleteObject
    <3>2. file' \in [Files -> FileObject]
      BY <1>0, <3>1 DEF FileObject
    <3>3. job' \in [Deletions -> Job]
      <4> DEFINE fewer == [job[d] EXCEPT !.keys = job[d].keys \ {f}]
      <4>1. fewer \in Job
        <5>1. job[d] \in Job /\ job[d].keys \ {f} \in SUBSET Files
          BY <1>0 DEF Job
        <5> QED
          BY <5>1 DEF Job
      <4>2. job' = [job EXCEPT ![d] = fewer]
        BY <3>1
      <4> HIDE DEF fewer
      <4> QED
        BY <1>0, <4>1, <4>2
    <3> QED
      BY <2>5, <3>2, <3>3 DEF DeleteObject
  <2>6. CASE ObjectsDone(d)
    <3>1. job' \in [Deletions -> Job]
      BY <2>6, ThenGoesOn DEF ObjectsDone, At, JobGoesOn
    <3> QED
      BY <2>6, <3>1 DEF ObjectsDone
  <2>7. CASE DeleteIdentity(d)
    <3>1. job' \in [Deletions -> Job]
      BY <2>7, ThenGoesOn, ThrowEnds DEF DeleteIdentity, At, JobGoesOn, JobEnds
    <3>2. faults' \in 0..MaxFaults
      BY <2>7, AccountsAssumption DEF DeleteIdentity, Fault
    <3> QED
      BY <2>7, <3>1, <3>2 DEF DeleteIdentity
  <2>8. CASE DeleteRows(d)
    <3> DEFINE u == deletion[d].user
    <3>1. CASE Exists(u)
      <4>1. user' \in [Users -> UserRow]
        <5>1. user' = [user EXCEPT ![u].status = "gone"]
          BY <2>8, <3>1 DEF DeleteRows
        <5> HIDE DEF u
        <5> QED
          BY <1>0, <5>1 DEF UserRow
      <4>2. org' \in [Users -> Organization]
        <5>1. \A o \in Users : /\ [exists |-> FALSE, members |-> {}] \in Organization
                             /\ [org[o] EXCEPT !.members = @ \ {u}] \in Organization
          BY <1>0 DEF Organization
        <5>2. org' = [o \in Users |->
                 IF o \in job[d].orgs THEN [exists |-> FALSE, members |-> {}]
                 ELSE [org[o] EXCEPT !.members = @ \ {u}]]
          BY <2>8, <3>1 DEF DeleteRows
        <5> HIDE DEF u
        <5> QED
          BY <5>1, <5>2
      <4>3. file' \in [Files -> FileObject]
        <5>1. \A f \in Files : [file[f] EXCEPT !.row = FALSE] \in FileObject
          BY <1>0 DEF FileObject
        <5> QED
          BY <1>0, <2>8, <3>1, <5>1 DEF DeleteRows
      <4>4. job' \in [Deletions -> Job]
        BY <2>8, <3>1, ThenGoesOn DEF DeleteRows, At, JobGoesOn
      <4> QED
        BY <2>8, <4>1, <4>2, <4>3, <4>4 DEF DeleteRows
    <3>2. CASE ~Exists(u)
      <4>1. Throw(d) /\ UNCHANGED <<user, org, file, deletion, provider, session, ghosts, faults>>
        BY <2>8, <3>2 DEF DeleteRows
      <4> QED
        BY <4>1, ThrowEnds DEF JobEnds
    <3> QED
      BY <3>1, <3>2
  <2>9. CASE Complete(d)
    <3>1. job' \in [Deletions -> Job]
      BY <2>9, JobDoneEnds DEF Complete, JobEnds
    <3>2. deletion' \in [Deletions -> DeletionRequest]
      BY <1>0, <2>9 DEF Complete, DeletionRequest
    <3> QED
      BY <2>9, <3>1, <3>2 DEF Complete
  <2>10. CASE MarkFailed(d)
    <3>1. job' \in [Deletions -> Job]
      BY <2>10, JobDoneEnds DEF MarkFailed, JobEnds
    <3>2. deletion' \in [Deletions -> DeletionRequest]
      BY <1>0, <2>10 DEF MarkFailed, DeletionRequest
    <3>3. faults' \in 0..MaxFaults
      BY <2>10, AccountsAssumption DEF MarkFailed, Fault
    <3> QED
      BY <2>10, <3>1, <3>2, <3>3 DEF MarkFailed
  <2> QED
    BY <1>12, <2>1, <2>2, <2>3, <2>4, <2>5, <2>6, <2>7, <2>8, <2>9, <2>10 DEF WorkerStep
<1>13. ASSUME NEW d \in Deletions, AttemptFails(d) PROVE TypeOK'
  <2>1. job' \in [Deletions -> Job]
    BY <1>13, ThrowEnds DEF AttemptFails, StepFails, JobEnds
  <2>2. faults' \in 0..MaxFaults
    BY <1>13, AccountsAssumption DEF AttemptFails, Fault
  <2> QED
    BY <1>13, <2>1, <2>2 DEF AttemptFails
<1>14. ASSUME NEW d \in Deletions, WorkerStops(d) PROVE TypeOK'
  <2>1. job' \in [Deletions -> Job]
    BY <1>14, StopEnds DEF JobEnds
  <2>2. faults' \in 0..MaxFaults
    BY <1>14, AccountsAssumption DEF WorkerStops, Fault
  <2> QED
    BY <1>14, <2>1, <2>2 DEF WorkerStops
<1>15. CASE UNCHANGED vars
  BY <1>15 DEF vars
<1> QED
  BY <1>1, <1>2, <1>3, <1>4, <1>5, <1>6, <1>7, <1>8, <1>9, <1>10, <1>11, <1>12, <1>13,
     <1>14, <1>15 DEF Next

-----------------------------------------------------------------------------
(* What every step keeps                                                    *)

(* A user keeps its identity from the first login on, and who is gone stays *)
(* gone.                                                                    *)
LEMMA UsersStay ==
    ASSUME IInv, [Next]_vars, NEW u \in Users, user[u].status # "none"
    PROVE  /\ user'[u].status # "none" /\ user'[u].sub = user[u].sub
           /\ user[u].status = "gone" => user'[u].status = "gone"
<1>1. user \in [Users -> UserRow]
  BY DEF IInv, TypeOK
<1>2. CASE UNCHANGED user
  BY <1>2
<1>3. ASSUME NEW s \in Identities, NEW v \in Users, user[v].status = "none",
             user' = [user EXCEPT ![v] = [status |-> "active", sub |-> s]]
      PROVE  user'[u] = user[u]
  BY <1>1, <1>3
<1>4. ASSUME NEW v \in Users, Exists(v), NEW status \in {"marked", "gone"},
             user' = [user EXCEPT ![v].status = status]
      PROVE  /\ user'[u].status # "none" /\ user'[u].sub = user[u].sub
             /\ user[u].status = "gone" => user'[u].status = "gone"
  BY <1>1, <1>4 DEF Exists, UserRow
<1>5. ASSUME NEW c \in Requests, Provision(c) PROVE user'[u] = user[u]
  <2>1. session[c].sub \in Identities
    BY <1>5 DEF Provision, IInv, SessionsHold
  <2> QED
    BY <1>3, <1>5, <2>1 DEF Provision
<1>6. ASSUME NEW c \in Requests, MarkDeleted(c), user' # user
      PROVE  \E v \in Users : Exists(v) /\ user' = [user EXCEPT ![v].status = "marked"]
  BY <1>6 DEF MarkDeleted, IInv, SessionsHold
<1>7. ASSUME NEW d \in Deletions, DeleteRows(d), user' # user
      PROVE  \E v \in Users : Exists(v) /\ user' = [user EXCEPT ![v].status = "gone"]
  <2>1. deletion[d].user \in Users
    BY <1>7 DEF DeleteRows, At, IInv, DeletionsHold
  <2> QED
    BY <1>7, <2>1 DEF DeleteRows
<1> QED
  BY <1>2, <1>4, <1>5, <1>6, <1>7
     DEF Next, vars, WorkerStep, Call, StartJoin, Join, StartUpload, CreateUploadTicket,
         CheckDeletion, Enqueue, RequestFails, Upload, RunJob, MarkProcessing,
         FindOrganizations, ListFiles, DeleteObject, ObjectsDone, DeleteIdentity, Complete,
         MarkFailed, AttemptFails, WorkerStops

(* A deletion is never taken back, nor given to somebody else.              *)
LEMMA DeletionsStay ==
    ASSUME IInv, [Next]_vars, NEW d \in Deletions
    PROVE  \/ /\ deletion[d].status # "none" => deletion'[d].status # "none"
              /\ deletion'[d].user = deletion[d].user
              /\ deletion'[d].status # "none" => deletion[d].status # "none"
           \/ /\ deletion[d].status = "none"
              /\ \E c \in Requests :
                   /\ MarkDeleted(c)
                   /\ session[c].user \in Users
                   /\ deletion'[d] = [status |-> "pending", user |-> session[c].user]
                   /\ user' = [user EXCEPT ![session[c].user].status = "marked"]
<1>1. deletion \in [Deletions -> DeletionRequest]
  BY DEF IInv, TypeOK
<1>2. ASSUME NEW c \in Requests, MarkDeleted(c), deletion' # deletion
      PROVE  \E e \in Deletions :
               /\ deletion[e].status = "none"
               /\ deletion' = [deletion EXCEPT ![e] = [status |-> "pending",
                                                       user |-> session[c].user]]
               /\ session[c].user \in Users
               /\ user' = [user EXCEPT ![session[c].user].status = "marked"]
  BY <1>2 DEF MarkDeleted, IInv, SessionsHold
<1>3. ASSUME NEW e \in Deletions, deletion[e].status # "none",
             NEW status \in {"processing", "completed", "failed"},
             deletion' = [deletion EXCEPT ![e].status = status]
      PROVE  /\ deletion[d].status # "none" => deletion'[d].status # "none"
             /\ deletion'[d].user = deletion[d].user
             /\ deletion'[d].status # "none" => deletion[d].status # "none"
  BY <1>1, <1>3 DEF DeletionRequest
<1>4. ASSUME NEW e \in Deletions, MarkProcessing(e) \/ Complete(e) \/ MarkFailed(e),
             deletion' # deletion
      PROVE  /\ deletion[e].status # "none"
             /\ \E status \in {"processing", "completed", "failed"} :
                  deletion' = [deletion EXCEPT ![e].status = status]
  BY <1>4 DEF MarkProcessing, Complete, MarkFailed, At, IInv, DeletionsHold
<1>5. CASE UNCHANGED deletion
  BY <1>5
<1>6. CASE \E c \in Requests : MarkDeleted(c)
  <2>1. PICK c \in Requests : MarkDeleted(c)
    BY <1>6
  <2>2. CASE deletion' # deletion
    <3>1. PICK e \in Deletions :
            /\ deletion[e].status = "none"
            /\ deletion' = [deletion EXCEPT ![e] = [status |-> "pending",
                                                    user |-> session[c].user]]
            /\ session[c].user \in Users
            /\ user' = [user EXCEPT ![session[c].user].status = "marked"]
      BY <1>2, <2>1, <2>2
    <3>2. CASE d = e
      BY <1>1, <2>1, <3>1, <3>2
    <3>3. CASE d # e
      BY <1>1, <3>1, <3>3
    <3> QED
      BY <3>2, <3>3
  <2> QED
    BY <1>5, <2>2
<1> QED
  BY <1>3, <1>4, <1>5, <1>6
     DEF Next, vars, WorkerStep, Call, Provision, StartJoin, Join, StartUpload,
         CreateUploadTicket, CheckDeletion, Enqueue, RequestFails, Upload, RunJob,
         FindOrganizations, ListFiles, DeleteObject, ObjectsDone, DeleteIdentity, DeleteRows,
         AttemptFails, WorkerStops

(* Nothing the ghosts remember is forgotten, and no identity comes back.    *)
LEMMA OneWay ==
    ASSUME [Next]_vars
    PROVE  late \subseteq late' /\ hasty \subseteq hasty' /\ lost \subseteq lost'
           /\ passedBy \subseteq passedBy' /\ provider' \subseteq provider
  BY DEF Next, vars, Call, Provision, StartJoin, Join, StartUpload, CreateUploadTicket,
         CheckDeletion, MarkDeleted, Enqueue, RequestFails, Upload, WorkerStep, RunJob,
         MarkProcessing, FindOrganizations, ListFiles, DeleteObject, ObjectsDone,
         DeleteIdentity, DeleteRows, Complete, MarkFailed, AttemptFails, WorkerStops

(* What a step may do to a job: nothing; make it wait, by a call that asks  *)
(* for it or when it is thrown out of its worker; start it, when no other   *)
(* runs; go on with it; or end it.                                          *)
JobStep(d) ==
    \/ job'[d] = job[d]
    \/ \E c \in Requests :
         /\ Enqueue(c) /\ session[c].deletion = d
         /\ job'[d] = [job[d] EXCEPT !.queue = "waiting"]
    \/ RunJob(d) /\ job'[d] = [job[d] EXCEPT !.queue = "active"]
    \/ WorkerStep(d) /\ JobGoesOn(d)
    \/ JobEnds(d) /\ job[d].queue \in {"active", "exhausted"}

LEMMA JobSteps ==
    ASSUME IInv, [Next]_vars, NEW d \in Deletions
    PROVE  JobStep(d)
<1>1. TypeOK /\ job \in [Deletions -> Job] /\ job' \in [Deletions -> Job]
  BY TypesHold DEF IInv, TypeOK
<1>2. ASSUME NEW e \in Deletions, job[e].queue = "active", WorkerStep(e),
             \A f \in Deletions \ {e} : job'[f] = job[f], job'[e].queue = "active"
      PROVE  JobStep(d)
  BY <1>1, <1>2 DEF JobStep, JobGoesOn
<1>3. ASSUME NEW e \in Deletions, JobEnds(e), job[e].queue \in {"active", "exhausted"}
      PROVE  JobStep(d)
  BY <1>3 DEF JobStep, JobEnds
<1>4. CASE UNCHANGED job
  BY <1>4 DEF JobStep
<1>5. ASSUME NEW c \in Requests, Enqueue(c) PROVE JobStep(d)
  <2> DEFINE e == session[c].deletion
  <2>1. e \in Deletions /\ job' = [job EXCEPT ![e].queue = "waiting"]
    BY <1>5 DEF Enqueue, IInv, SessionsHold
  <2>2. CASE d = e
    BY <1>1, <1>5, <2>1, <2>2 DEF JobStep
  <2>3. CASE d # e
    BY <1>1, <2>1, <2>3 DEF JobStep
  <2> QED
    BY <2>2, <2>3
<1>6. ASSUME NEW e \in Deletions, WorkerStep(e) PROVE JobStep(d)
  <2>1. CASE RunJob(e)
    BY <1>1, <2>1 DEF RunJob, JobStep
  <2>2. CASE MarkProcessing(e)
    BY <1>1, <1>2, <1>6, <2>2, ThenGoesOn DEF MarkProcessing, At, JobGoesOn
  <2>3. CASE FindOrganizations(e)
    <3>1. PICK found \in SUBSET Users :
            job' = [job EXCEPT ![e] = [@ EXCEPT !.step = IF found = {} THEN "identity" ELSE "list",
                                                !.orgs = found, !.left = found]]
      BY <2>3 DEF FindOrganizations, Found
    <3>2. job[e] \in Job /\ job[e].queue = "active"
      BY <1>1, <2>3 DEF FindOrganizations, At
    <3>3. job'[e].queue = "active" /\ \A f \in Deletions \ {e} : job'[f] = job[f]
      BY <1>1, <3>1, <3>2 DEF Job
    <3> QED
      BY <1>2, <1>6, <3>2, <3>3
  <2>4. CASE ListFiles(e)
    <3>1. PICK o \in job[e].left, keys \in SUBSET Files :
            job' = [job EXCEPT ![e].step = "objects", ![e].left = @ \ {o}, ![e].keys = keys]
      BY <2>4 DEF ListFiles
    <3>2. job[e] \in Job /\ job[e].queue = "active"
      BY <1>1, <2>4 DEF ListFiles, At
    <3>3. job'[e].queue = "active" /\ \A f \in Deletions \ {e} : job'[f] = job[f]
      BY <1>1, <3>1, <3>2 DEF Job
    <3> QED
      BY <1>2, <1>6, <3>2, <3>3
  <2>5. CASE DeleteObject(e)
    <3>1. PICK key \in job[e].keys : job' = [job EXCEPT ![e].keys = @ \ {key}]
      BY <2>5 DEF DeleteObject
    <3>2. job[e] \in Job /\ job[e].queue = "active"
      BY <1>1, <2>5 DEF DeleteObject, At
    <3>3. job'[e].queue = "active" /\ \A f \in Deletions \ {e} : job'[f] = job[f]
      BY <1>1, <3>1, <3>2 DEF Job
    <3> QED
      BY <1>2, <1>6, <3>2, <3>3
  <2>6. CASE ObjectsDone(e)
    BY <1>1, <1>2, <1>6, <2>6, ThenGoesOn DEF ObjectsDone, At, JobGoesOn
  <2>7. CASE DeleteIdentity(e)
    <3>1. job[e].queue = "active" /\ (Then(e, "rows") \/ Throw(e))
      BY <2>7 DEF DeleteIdentity, At
    <3>2. CASE Then(e, "rows")
      BY <1>1, <1>2, <1>6, <3>1, <3>2, ThenGoesOn DEF JobGoesOn
    <3>3. CASE Throw(e)
      BY <1>1, <1>3, <3>1, <3>3, ThrowEnds
    <3> QED
      BY <3>1, <3>2, <3>3
  <2>8. CASE DeleteRows(e)
    <3>1. job[e].queue = "active" /\ (Then(e, "complete") \/ Throw(e))
      BY <2>8 DEF DeleteRows, At
    <3>2. CASE Then(e, "complete")
      BY <1>1, <1>2, <1>6, <3>1, <3>2, ThenGoesOn DEF JobGoesOn
    <3>3. CASE Throw(e)
      BY <1>1, <1>3, <3>1, <3>3, ThrowEnds
    <3> QED
      BY <3>1, <3>2, <3>3
  <2>9. CASE Complete(e)
    BY <1>1, <1>3, <2>9, JobDoneEnds DEF Complete, At
  <2>10. CASE MarkFailed(e)
    BY <1>1, <1>3, <2>10, JobDoneEnds DEF MarkFailed
  <2> QED
    BY <1>6, <2>1, <2>2, <2>3, <2>4, <2>5, <2>6, <2>7, <2>8, <2>9, <2>10 DEF WorkerStep
<1>7. ASSUME NEW e \in Deletions, AttemptFails(e) PROVE JobStep(d)
  BY <1>1, <1>3, <1>7, ThrowEnds DEF AttemptFails, StepFails
<1>8. ASSUME NEW e \in Deletions, WorkerStops(e) PROVE JobStep(d)
  <2>1. job[e].queue = "active"
    BY <1>8 DEF WorkerStops
  <2> QED
    BY <1>1, <1>3, <1>8, <2>1, StopEnds
<1> QED
  BY <1>4, <1>5, <1>6, <1>7, <1>8
     DEF Next, vars, Call, Provision, StartJoin, Join, StartUpload, CreateUploadTicket,
         CheckDeletion, MarkDeleted, RequestFails, Upload

-----------------------------------------------------------------------------
(* Sessions and deletions                                                   *)

(* A call that ends, or goes on to a step that is not enqueue, disturbs no  *)
(* other call.                                                              *)
LEMMA OneSession ==
    ASSUME IInv, [Next]_vars, NEW c \in Requests,
           \A b \in Requests \ {c} : session'[b] = session[b],
           session'[c].step # "enqueue",
           session'[c].step = "provision" => session'[c].sub \in Identities,
           session'[c].step \in {"start", "mark", "enqueue", "join", "ticket"} =>
             session'[c].user \in Users,
           session'[c].step \in {"join", "ticket"} => session'[c].org \in Users,
           \A b \in Requests \ {c} : session[b].step = "enqueue" =>
             job'[session[b].deletion].queue = "none"
    PROVE  SessionsHold'
<1>1. \A d \in Deletions : deletion[d].status # "none" => deletion'[d].status # "none"
  BY DeletionsStay
<1> QED
  BY <1>1 DEF IInv, SessionsHold

LEMMA SessionsStay ==
    ASSUME IInv, [Next]_vars
    PROVE  SessionsHold'
<1>0. TypeOK /\ SessionsHold /\ session \in [Requests -> Session]
  BY DEF IInv, TypeOK
<1>1. ASSUME NEW c \in Requests, session[c].step # "enqueue" \/ RequestFails(c),
             session' = [session EXCEPT ![c] = NoSession], UNCHANGED job
      PROVE  SessionsHold'
  <2>1. session'[c].step = "idle" /\ \A b \in Requests \ {c} : session'[b] = session[b]
    BY <1>0, <1>1, NoSessionIsSession
  <2> QED
    BY <1>0, <1>1, <2>1, OneSession DEF SessionsHold
<1>2. ASSUME NEW c \in Requests, Call(c) PROVE SessionsHold'
  <2>1. UNCHANGED <<rows, provider, job, ghosts, faults>>
    BY <1>2 DEF Call
  <2>2. \/ \E s \in Identities :
             session' = [session EXCEPT ![c] = [@ EXCEPT !.step = "provision", !.sub = s]]
        \/ \E u \in Users :
             session' = [session EXCEPT ![c] = [@ EXCEPT !.step = "start", !.user = u]]
    BY <1>2 DEF Call, RowsOf
  <2>3. /\ \/ session'[c].step = "provision" /\ session'[c].sub \in Identities
           \/ session'[c].step = "start" /\ session'[c].user \in Users
        /\ \A b \in Requests \ {c} : session'[b] = session[b]
    <3>1. session[c] \in Session
      BY <1>0
    <3>2. ASSUME NEW s \in Identities,
                 session' = [session EXCEPT ![c] = [@ EXCEPT !.step = "provision", !.sub = s]]
          PROVE  /\ session'[c].step = "provision" /\ session'[c].sub \in Identities
                 /\ \A b \in Requests \ {c} : session'[b] = session[b]
      BY <1>0, <3>1, <3>2 DEF Session
    <3>3. ASSUME NEW u \in Users,
                 session' = [session EXCEPT ![c] = [@ EXCEPT !.step = "start", !.user = u]]
          PROVE  /\ session'[c].step = "start" /\ session'[c].user \in Users
                 /\ \A b \in Requests \ {c} : session'[b] = session[b]
      BY <1>0, <3>1, <3>3 DEF Session
    <3> QED
      BY <2>2, <3>2, <3>3
  <2> QED
    BY <1>0, <2>1, <2>3, OneSession DEF SessionsHold
<1>3. ASSUME NEW c \in Requests, Provision(c) PROVE SessionsHold'
  <2>1. CASE Leave(c)
    BY <1>1, <1>3, <2>1 DEF Provision, Leave
  <2>2. CASE ~Leave(c)
    <3>1. PICK u \in Users :
            session' = [session EXCEPT ![c] = [NoSession EXCEPT !.step = "start", !.user = u]]
      BY <1>3, <2>2 DEF Provision
    <3>2. /\ session'[c].step = "start" /\ session'[c].user \in Users
          /\ \A b \in Requests \ {c} : session'[b] = session[b]
      BY <1>0, <3>1 DEF NoSession
    <3> QED
      BY <1>0, <1>3, <3>2, OneSession DEF SessionsHold, Provision
  <2> QED
    BY <2>1, <2>2
<1>4. ASSUME NEW c \in Requests, NEW o \in Users, NEW step \in {"join", "ticket"},
             session[c].step = "start", UNCHANGED job,
             session' = [session EXCEPT ![c].step = step, ![c].org = o]
      PROVE  SessionsHold'
  <2>1. session[c].user \in Users
    BY <1>0, <1>4 DEF SessionsHold
  <2>2. /\ session'[c].step = step /\ session'[c].org = o /\ session'[c].user = session[c].user
        /\ \A b \in Requests \ {c} : session'[b] = session[b]
    BY <1>0, <1>4 DEF Session
  <2> QED
    BY <1>0, <1>4, <2>1, <2>2, OneSession DEF SessionsHold
<1>5. ASSUME NEW c \in Requests, StartJoin(c) \/ StartUpload(c) PROVE SessionsHold'
  BY <1>4, <1>5 DEF StartJoin, StartUpload
<1>6. ASSUME NEW c \in Requests, Join(c) \/ CreateUploadTicket(c) PROVE SessionsHold'
  BY <1>1, <1>6 DEF Join, CreateUploadTicket, Leave
<1>7. ASSUME NEW c \in Requests, CheckDeletion(c) PROVE SessionsHold'
  <2>1. CASE Leave(c)
    BY <1>1, <1>7, <2>1 DEF CheckDeletion, Leave
  <2>2. CASE GoTo(c, "mark")
    <3>1. session[c].user \in Users /\ UNCHANGED job
      BY <1>0, <1>7 DEF CheckDeletion, SessionsHold
    <3>2. /\ session'[c].step = "mark" /\ session'[c].user = session[c].user
          /\ \A b \in Requests \ {c} : session'[b] = session[b]
      BY <1>0, <2>2 DEF GoTo, Session
    <3> QED
      BY <1>0, <3>1, <3>2, OneSession DEF SessionsHold
  <2> QED
    BY <1>7, <2>1, <2>2 DEF CheckDeletion
<1>8. ASSUME NEW c \in Requests, MarkDeleted(c) PROVE SessionsHold'
  <2>1. CASE Leave(c)
    BY <1>1, <1>8, <2>1 DEF MarkDeleted, Leave
  <2>2. CASE ~Leave(c)
    <3>1. PICK d \in Deletions :
            /\ deletion[d].status = "none"
            /\ deletion' = [deletion EXCEPT ![d] = [status |-> "pending",
                                                    user |-> session[c].user]]
            /\ session' = [session EXCEPT ![c].step = "enqueue", ![c].deletion = d]
      BY <1>8, <2>2 DEF MarkDeleted
    <3>2. session[c].user \in Users /\ UNCHANGED job
      BY <1>0, <1>8 DEF MarkDeleted, SessionsHold
    <3>3. /\ session'[c].step = "enqueue" /\ session'[c].deletion = d
          /\ session'[c].user = session[c].user
          /\ \A b \in Requests \ {c} : session'[b] = session[b]
      BY <1>0, <3>1 DEF Session
    <3>4. job[d].queue = "none"
      BY <3>1 DEF IInv, DeletionsHold
    <3>5. /\ deletion'[d].status # "none"
          /\ \A e \in Deletions : deletion[e].status # "none" => deletion'[e].status # "none"
      BY <1>0, <3>1 DEF TypeOK
    <3>6. \A b \in Requests \ {c} : session[b].step = "enqueue" => session[b].deletion # d
      BY <1>0, <3>1 DEF SessionsHold
    <3> QED
      BY <1>0, <3>2, <3>3, <3>4, <3>5, <3>6 DEF SessionsHold
  <2> QED
    BY <2>1, <2>2
<1>9. ASSUME NEW c \in Requests, Enqueue(c) PROVE SessionsHold'
  <2> DEFINE d == session[c].deletion
  <2>1. d \in Deletions /\ job' = [job EXCEPT ![d].queue = "waiting"]
    BY <1>0, <1>9 DEF Enqueue, SessionsHold
  <2>2. session'[c].step = "idle" /\ \A b \in Requests \ {c} : session'[b] = session[b]
    BY <1>0, <1>9, NoSessionIsSession DEF Enqueue, Leave
  <2>3. \A b \in Requests \ {c} : session[b].step = "enqueue" =>
          /\ session[b].deletion \in Deletions \ {d}
          /\ job[session[b].deletion].queue = "none"
    BY <1>0, <1>9 DEF Enqueue, SessionsHold
  <2>4. \A e \in Deletions \ {d} : job'[e] = job[e]
    BY <1>0, <2>1 DEF TypeOK
  <2> HIDE DEF d
  <2> QED
    BY <2>2, <2>3, <2>4, OneSession
<1>10. ASSUME NEW c \in Requests, RequestFails(c) PROVE SessionsHold'
  BY <1>1, <1>10 DEF RequestFails, Leave
<1>11. ASSUME UNCHANGED session, \A c \in Requests : ~Enqueue(c) PROVE SessionsHold'
  <2>1. \A d \in Deletions : deletion[d].status # "none" => deletion'[d].status # "none"
    BY DeletionsStay
  <2>2. \A d \in Deletions : job[d].queue = "none" => job'[d].queue = "none"
    BY <1>11, JobSteps DEF JobStep, JobGoesOn, RunJob
  <2> QED
    BY <1>0, <1>11, <2>1, <2>2 DEF SessionsHold
<1>12. ASSUME UNCHANGED session PROVE SessionsHold'
  <2>1. \A c \in Requests : ~Enqueue(c)
    BY <1>0, <1>12, NoSessionIsSession DEF Enqueue, Leave
  <2> QED
    BY <1>11, <1>12, <2>1
<1> QED
  BY <1>2, <1>3, <1>5, <1>6, <1>7, <1>8, <1>9, <1>10, <1>12
     DEF Next, vars, Upload, WorkerStep, RunJob, MarkProcessing, FindOrganizations, ListFiles,
         DeleteObject, ObjectsDone, DeleteIdentity, DeleteRows, Complete, MarkFailed,
         AttemptFails, WorkerStops

LEMMA DeletionsKept ==
    ASSUME IInv, [Next]_vars
    PROVE  DeletionsHold'
<1> SUFFICES ASSUME NEW d \in Deletions
             PROVE  /\ deletion'[d].status # "none" =>
                         /\ deletion'[d].user \in Users
                         /\ user'[deletion'[d].user].status # "none"
                    /\ job'[d].queue # "none" => deletion'[d].status # "none"
  BY DEF DeletionsHold
<1>1. DeletionsHold /\ SessionsHold /\ user \in [Users -> UserRow]
  BY DEF IInv, TypeOK
<1>2. ASSUME deletion'[d].status # "none"
      PROVE  deletion'[d].user \in Users /\ user'[deletion'[d].user].status # "none"
  <2>1. CASE deletion[d].status # "none"
    BY <1>1, <1>2, <2>1, DeletionsStay, UsersStay DEF DeletionsHold
  <2>2. CASE deletion[d].status = "none"
    <3>1. PICK c \in Requests :
            /\ session[c].user \in Users
            /\ deletion'[d] = [status |-> "pending", user |-> session[c].user]
            /\ user' = [user EXCEPT ![session[c].user].status = "marked"]
      BY <1>2, <2>2, DeletionsStay
    <3> DEFINE u == session[c].user
    <3>2. u \in Users /\ user' = [user EXCEPT ![u].status = "marked"] /\ deletion'[d].user = u
      BY <3>1
    <3> HIDE DEF u
    <3> QED
      BY <1>1, <3>2 DEF UserRow
  <2> QED
    BY <2>1, <2>2
<1>3. ASSUME job'[d].queue # "none" PROVE deletion'[d].status # "none"
  <2>1. \/ job[d].queue # "none"
        \/ \E c \in Requests : Enqueue(c) /\ session[c].deletion = d
    BY <1>3, JobSteps DEF JobStep, RunJob, JobGoesOn
  <2>2. deletion[d].status # "none"
    BY <1>1, <2>1 DEF DeletionsHold, Enqueue, SessionsHold
  <2> QED
    BY <2>2, DeletionsStay
<1> QED
  BY <1>2, <1>3

LEMMA NoneForgotten ==
    ASSUME IInv, [Next]_vars
    PROVE  NoDeletionIsForgotten'
<1> DEFINE Asked(d) == \E c \in Requests : session[c].step = "enqueue" /\ session[c].deletion = d
<1> SUFFICES ASSUME NEW d \in Deletions \ lost', deletion'[d].status \in {"pending", "processing"},
                    job'[d].queue = "none"
             PROVE  Asked(d)'
  BY DEF NoDeletionIsForgotten
<1>1. /\ session \in [Requests -> Session]
      /\ deletion \in [Deletions -> DeletionRequest]
      /\ job \in [Deletions -> Job]
      /\ TypeOK
  BY DEF IInv, TypeOK
<1>2. d \notin lost
  <2>1. lost \subseteq lost'
    BY OneWay
  <2> QED
    BY <2>1
<1>3. CASE job[d].queue # "none"
  <2>1. JobEnds(d) /\ job[d].queue \in {"active", "exhausted"}
    BY <1>1, <1>3, JobSteps DEF JobStep, JobGoesOn, Job
  <2>2. ASSUME NEW e \in Deletions, JobEnds(e) PROVE e = d
    BY <1>3, <2>2 DEF JobEnds
  <2>3. ASSUME UNCHANGED job PROVE FALSE
    BY <1>3, <2>3
  <2>4. ASSUME NEW e \in Deletions, JobGoesOn(e) PROVE FALSE
    BY <1>3, <2>4 DEF JobGoesOn
  <2>5. ASSUME NEW e \in Deletions, Throw(e) PROVE FALSE
    BY <1>1, <2>2, <2>5, ThrowEnds
  <2>6. ASSUME NEW e \in Deletions, WorkerStep(e) PROVE FALSE
    <3>1. CASE RunJob(e)
      BY <1>1, <1>3, <3>1 DEF RunJob, Job
    <3>2. CASE MarkProcessing(e) \/ ObjectsDone(e) \/ DeleteIdentity(e) \/ DeleteRows(e)
      BY <1>1, <2>4, <2>5, <3>2, ThenGoesOn
         DEF MarkProcessing, ObjectsDone, DeleteIdentity, DeleteRows, At
    <3>3. CASE FindOrganizations(e)
      BY <1>1, <1>3, <3>3 DEF FindOrganizations, Job
    <3>4. CASE ListFiles(e)
      BY <1>1, <1>3, <3>4 DEF ListFiles, Job
    <3>5. CASE DeleteObject(e)
      BY <1>1, <1>3, <3>5 DEF DeleteObject, Job
    <3>6. CASE Complete(e) \/ MarkFailed(e)
      <4>1. e = d
        BY <1>1, <2>2, <3>6, JobDoneEnds DEF Complete, MarkFailed
      <4> QED
        BY <1>1, <3>6, <4>1 DEF Complete, MarkFailed, DeletionRequest
    <3> QED
      BY <2>6, <3>1, <3>2, <3>3, <3>4, <3>5, <3>6 DEF WorkerStep
  <2>7. ASSUME NEW e \in Deletions, AttemptFails(e) PROVE FALSE
    BY <2>5, <2>7 DEF AttemptFails, StepFails
  <2>8. ASSUME NEW e \in Deletions, WorkerStops(e) PROVE FALSE
    <3>1. e = d
      BY <1>1, <2>2, <2>8, StopEnds
    <3> QED
      BY <1>1, <2>8, <3>1, StopEnds
  <2>9. ASSUME NEW c \in Requests, Enqueue(c) PROVE FALSE
    BY <1>1, <1>3, <2>9 DEF Enqueue, Job
  <2> QED
    BY <2>3, <2>6, <2>7, <2>8, <2>9
       DEF Next, vars, Call, Provision, StartJoin, Join, StartUpload, CreateUploadTicket,
           CheckDeletion, MarkDeleted, RequestFails, Upload
<1>4. CASE job[d].queue = "none" /\ deletion[d].status \in {"pending", "processing"}
  <2>1. Asked(d)
    BY <1>2, <1>4 DEF IInv, NoDeletionIsForgotten
  <2>2. PICK c \in Requests : session[c].step = "enqueue" /\ session[c].deletion = d
    BY <2>1
  <2>3. session'[c] = session[c]
    <3>1. ~Enqueue(c)
      BY <1>1, <2>2 DEF Enqueue, Job
    <3>2. ~RequestFails(c)
      BY <2>2 DEF RequestFails
    <3>3. ASSUME NEW b \in Requests, Call(b) PROVE b # c
      BY <2>2, <3>3, NoSessionIsSession DEF Call
    <3>4. ASSUME NEW b \in Requests \ {c}, NEW new, session' = [session EXCEPT ![b] = new]
          PROVE  session'[c] = session[c]
      BY <1>1, <3>4
    <3>5. ASSUME NEW b \in Requests \ {c}, NEW step, GoTo(b, step)
          PROVE  session'[c] = session[c]
      BY <1>1, <3>5 DEF GoTo
    <3>6. ASSUME NEW b \in Requests \ {c}, NEW step, NEW o,
                 session' = [session EXCEPT ![b].step = step, ![b].org = o]
          PROVE  session'[c] = session[c]
      BY <1>1, <3>6
    <3>7. ASSUME NEW b \in Requests \ {c}, NEW e,
                 session' = [session EXCEPT ![b].step = "enqueue", ![b].deletion = e]
          PROVE  session'[c] = session[c]
      BY <1>1, <3>7
    <3>8. ASSUME NEW b \in Requests, Call(b) \/ Provision(b) PROVE session'[c] = session[c]
      <4>1. b # c
        BY <2>2, <3>3, <3>8 DEF Provision
      <4>2. \E new : session' = [session EXCEPT ![b] = new]
        BY <3>8 DEF Call, Provision, Leave
      <4> QED
        BY <3>4, <4>1, <4>2
    <3>9. ASSUME NEW b \in Requests, StartJoin(b) \/ StartUpload(b)
          PROVE  session'[c] = session[c]
      BY <2>2, <3>6, <3>9 DEF StartJoin, StartUpload
    <3>10. ASSUME NEW b \in Requests, Join(b) \/ CreateUploadTicket(b) \/ CheckDeletion(b)
           PROVE  session'[c] = session[c]
      <4>1. b # c
        BY <2>2, <3>10 DEF Join, CreateUploadTicket, CheckDeletion
      <4> QED
        BY <3>4, <3>5, <3>10, <4>1 DEF Join, CreateUploadTicket, CheckDeletion, Leave
    <3>11. ASSUME NEW b \in Requests, MarkDeleted(b) PROVE session'[c] = session[c]
      <4>1. b # c
        BY <2>2, <3>11 DEF MarkDeleted
      <4> QED
        BY <3>4, <3>7, <3>11, <4>1 DEF MarkDeleted, Leave
    <3>12. ASSUME NEW b \in Requests, Enqueue(b) \/ RequestFails(b)
           PROVE  session'[c] = session[c]
      BY <3>1, <3>2, <3>4, <3>12 DEF Enqueue, RequestFails, Leave
    <3> QED
      BY <3>8, <3>9, <3>10, <3>11, <3>12
         DEF Next, vars, Upload, WorkerStep, RunJob, MarkProcessing, FindOrganizations,
             ListFiles, DeleteObject, ObjectsDone, DeleteIdentity, DeleteRows, Complete,
             MarkFailed, AttemptFails, WorkerStops
  <2> QED
    BY <2>2, <2>3
<1>5. CASE deletion[d].status \notin {"pending", "processing"} /\ job[d].queue = "none"
  <2>1. ASSUME NEW e \in Deletions, MarkProcessing(e) \/ Complete(e) \/ MarkFailed(e)
        PROVE  FALSE
    <3>1. e # d
      BY <1>5, <2>1 DEF MarkProcessing, Complete, MarkFailed, At
    <3> QED
      BY <1>1, <1>5, <2>1, <3>1 DEF MarkProcessing, Complete, MarkFailed
  <2>2. PICK c \in Requests : MarkDeleted(c) /\ deletion' # deletion
    BY <1>5, <2>1
       DEF Next, vars, Call, Provision, StartJoin, Join, StartUpload, CreateUploadTicket,
           CheckDeletion, Enqueue, RequestFails, Upload, WorkerStep, RunJob,
           FindOrganizations, ListFiles, DeleteObject, ObjectsDone,
           DeleteIdentity, DeleteRows, AttemptFails, WorkerStops
  <2>3. PICK e \in Deletions :
          /\ deletion' = [deletion EXCEPT ![e] = [status |-> "pending", user |-> session[c].user]]
          /\ session' = [session EXCEPT ![c].step = "enqueue", ![c].deletion = e]
    BY <2>2 DEF MarkDeleted
  <2>4. e = d
    BY <1>1, <1>5, <2>3
  <2>5. session'[c].step = "enqueue" /\ session'[c].deletion = d
    BY <1>1, <2>3, <2>4 DEF Session
  <2> QED
    BY <2>5
<1> QED
  BY <1>3, <1>4, <1>5

-----------------------------------------------------------------------------
(* Jobs and the order of their steps                                        *)

(* A job that runs ran before, or was waiting.                              *)
LEMMA StillActive ==
    ASSUME IInv, [Next]_vars, NEW d \in Deletions, job'[d].queue = "active"
    PROVE  \/ job'[d] = job[d]
           \/ /\ RunJob(d) /\ job[d].queue = "waiting"
              /\ UNCHANGED <<job[d].step, job[d].orgs, job[d].left, job[d].keys>>
           \/ WorkerStep(d) /\ JobGoesOn(d)
<1>1. job[d] \in Job
  BY DEF IInv, TypeOK
<1>2. job'[d] # [job[d] EXCEPT !.queue = "waiting"]
  BY <1>1 DEF Job
<1>3. ~JobEnds(d)
  BY DEF JobEnds
<1>4. CASE RunJob(d) /\ job'[d] = [job[d] EXCEPT !.queue = "active"]
  BY <1>1, <1>4 DEF RunJob, Job
<1> QED
  BY <1>2, <1>3, <1>4, JobSteps DEF JobStep

(* What the steps of a running job do to what it remembers.                 *)
LEMMA JobSees ==
    ASSUME IInv, [Next]_vars, NEW d \in Deletions, WorkerStep(d), JobGoesOn(d)
    PROVE  \/ /\ At(d, "mark") /\ At(d, "find")'
              /\ UNCHANGED <<job[d].orgs, job[d].left, job[d].keys>>
           \/ /\ At(d, "find") /\ FindOrganizations(d)
              /\ job'[d].step = IF job'[d].orgs = {} THEN "identity" ELSE "list"
              /\ job'[d].orgs = Found(deletion[d].user)
              /\ job'[d].left = job'[d].orgs /\ job'[d].keys = job[d].keys
           \/ /\ At(d, "list") /\ job'[d].step = "objects" /\ job'[d].orgs = job[d].orgs
              /\ \E o \in job[d].left :
                   /\ job'[d].left = job[d].left \ {o}
                   /\ job'[d].keys = {f \in Files : file[f].org = o /\ file[f].row}
              /\ UNCHANGED <<file, late>>
           \/ /\ At(d, "objects") /\ job'[d].step = "objects"
              /\ UNCHANGED <<job[d].orgs, job[d].left, late>>
              /\ \E f \in job[d].keys :
                   /\ job'[d].keys = job[d].keys \ {f}
                   /\ file' = [file EXCEPT ![f].stored = FALSE]
           \/ /\ At(d, "objects") /\ job[d].keys = {}
              /\ job'[d].step = IF job[d].left = {} THEN "identity" ELSE "list"
              /\ UNCHANGED <<job[d].orgs, job[d].left, job[d].keys>>
           \/ /\ At(d, "identity") /\ DeleteIdentity(d) /\ job'[d].step = "rows"
              /\ UNCHANGED <<job[d].orgs, job[d].left, job[d].keys>>
           \/ /\ At(d, "rows") /\ DeleteRows(d) /\ Exists(deletion[d].user)
              /\ job'[d].step = "complete"
              /\ UNCHANGED <<job[d].orgs, job[d].left, job[d].keys>>
<1>1. TypeOK /\ job \in [Deletions -> Job] /\ job[d] \in Job
  BY DEF IInv, TypeOK
<1>2. job[d].queue = "active" /\ job'[d].queue = "active"
  BY DEF JobGoesOn
<1>3. ASSUME JobEnds(d) PROVE FALSE
  BY <1>2, <1>3 DEF JobEnds
<1>4. CASE RunJob(d)
  BY <1>2, <1>4 DEF RunJob
<1>5. CASE MarkProcessing(d)
  BY <1>1, <1>2, <1>5, ThenGoesOn DEF MarkProcessing, At
<1>6. CASE FindOrganizations(d)
  <2> DEFINE found == Found(deletion[d].user)
             grown == [job[d] EXCEPT !.step = IF found = {} THEN "identity" ELSE "list",
                                     !.orgs = found, !.left = found]
  <2>1. job' = [job EXCEPT ![d] = grown] /\ At(d, "find")
    BY <1>6 DEF FindOrganizations
  <2> HIDE DEF found
  <2>2. /\ grown.step = IF found = {} THEN "identity" ELSE "list"
        /\ grown.orgs = found /\ grown.left = found /\ grown.keys = job[d].keys
    BY <1>1 DEF Job
  <2> HIDE DEF grown
  <2>3. job'[d] = grown
    BY <1>1, <2>1
  <2> QED
    BY <1>6, <2>1, <2>2, <2>3 DEF found
<1>7. CASE ListFiles(d)
  <2>1. PICK o \in job[d].left :
          job' = [job EXCEPT ![d].step = "objects", ![d].left = @ \ {o},
                             ![d].keys = {f \in Files : file[f].org = o /\ file[f].row}]
    BY <1>7 DEF ListFiles
  <2> DEFINE keys == {f \in Files : file[f].org = o /\ file[f].row}
  <2>2. job' = [job EXCEPT ![d].step = "objects", ![d].left = @ \ {o}, ![d].keys = keys]
    BY <2>1
  <2> HIDE DEF keys
  <2>3. /\ job'[d].step = "objects" /\ job'[d].orgs = job[d].orgs
        /\ job'[d].left = job[d].left \ {o} /\ job'[d].keys = keys
    BY <1>1, <2>2 DEF Job
  <2> QED
    BY <1>7, <2>3 DEF ListFiles, keys
<1>8. CASE DeleteObject(d)
  <2>1. PICK f \in job[d].keys :
          /\ file' = [file EXCEPT ![f].stored = FALSE]
          /\ job' = [job EXCEPT ![d].keys = @ \ {f}]
    BY <1>8 DEF DeleteObject
  <2>2. /\ job'[d].step = job[d].step /\ job'[d].orgs = job[d].orgs
        /\ job'[d].left = job[d].left /\ job'[d].keys = job[d].keys \ {f}
    BY <1>1, <2>1 DEF Job
  <2> QED
    BY <1>8, <2>1, <2>2 DEF DeleteObject, At
<1>9. CASE ObjectsDone(d)
  <2>1. job[d].queue = "active" /\ At(d, "objects") /\ job[d].keys = {}
        /\ Then(d, IF job[d].left = {} THEN "identity" ELSE "list")
    BY <1>9 DEF ObjectsDone, At
  <2> QED
    BY <1>1, <2>1, ThenGoesOn
<1>10. CASE DeleteIdentity(d)
  <2>1. Then(d, "rows")
    BY <1>1, <1>3, <1>10, ThrowEnds DEF DeleteIdentity
  <2> QED
    BY <1>1, <1>2, <1>10, <2>1, ThenGoesOn DEF DeleteIdentity
<1>11. CASE DeleteRows(d)
  <2>1. Then(d, "complete") /\ Exists(deletion[d].user)
    BY <1>1, <1>3, <1>11, ThrowEnds DEF DeleteRows
  <2> QED
    BY <1>1, <1>2, <1>11, <2>1, ThenGoesOn DEF DeleteRows
<1>12. CASE Complete(d) \/ MarkFailed(d)
  BY <1>1, <1>3, <1>12, JobDoneEnds DEF Complete, MarkFailed
<1> QED
  BY <1>4, <1>5, <1>6, <1>7, <1>8, <1>9, <1>10, <1>11, <1>12 DEF WorkerStep

LEMMA JobsKept ==
    ASSUME IInv, [Next]_vars
    PROVE  JobsHold'
<1>1. TypeOK /\ JobsHold /\ job \in [Deletions -> Job]
  BY DEF IInv, TypeOK
<1>2. ASSUME NEW d \in Deletions
      PROVE  /\ job'[d].queue # "active" \/ job'[d].step \in {"mark", "find"} =>
                  job'[d].orgs = {} /\ job'[d].left = {}
             /\ job'[d].queue # "active" => job'[d].step = "mark"
             /\ job'[d].queue # "active" \/ job'[d].step # "objects" => job'[d].keys = {}
             /\ job'[d].step \in {"identity", "rows", "complete"} => job'[d].left = {}
             /\ \A o \in job'[d].orgs : user'[o].status # "none"
  <2>0. \A o \in job[d].orgs : user'[o].status # "none"
    <3>1. job[d].orgs \subseteq Users
      BY <1>1 DEF Job
    <3> QED
      BY <1>1, <3>1, UsersStay DEF JobsHold
  <2>1. CASE job'[d] = job[d]
    BY <1>1, <2>0, <2>1 DEF JobsHold
  <2>2. CASE \/ \E c \in Requests : /\ Enqueue(c) /\ session[c].deletion = d
                                    /\ job'[d] = [job[d] EXCEPT !.queue = "waiting"]
             \/ RunJob(d) /\ job'[d] = [job[d] EXCEPT !.queue = "active"]
    <3>1. job[d].queue # "active"
      BY <2>2 DEF Enqueue, IInv, SessionsHold, RunJob
    <3>2. /\ job'[d].step = job[d].step /\ job'[d].orgs = job[d].orgs
          /\ job'[d].left = job[d].left /\ job'[d].keys = job[d].keys
      BY <1>1, <2>2 DEF Job
    <3> QED
      BY <1>1, <3>1, <3>2 DEF JobsHold
  <2>3. CASE WorkerStep(d) /\ JobGoesOn(d)
    <3>1. job'[d].queue = "active"
      BY <2>3 DEF JobGoesOn
    <3>2. \A o \in Found(deletion[d].user) : user'[o].status # "none"
      BY UsersStay DEF IInv, FilesHold, Found
    <3>3. ASSUME At(d, "find")' PROVE job'[d].step = "find"
      BY <3>3 DEF At
    <3> QED
      BY <1>1, <2>0, <2>3, <3>1, <3>2, <3>3, JobSees DEF JobsHold, At
  <2>4. CASE JobEnds(d)
    BY <2>4 DEF JobEnds
  <2> QED
    BY <2>1, <2>2, <2>3, <2>4, JobSteps DEF JobStep
<1> QED
  BY <1>2 DEF JobsHold

LEMMA OrderKept ==
    ASSUME IInv, [Next]_vars
    PROVE  OrderHolds'
<1>1. /\ TypeOK /\ OrderHolds /\ DeletionsHold
      /\ user \in [Users -> UserRow] /\ deletion \in [Deletions -> DeletionRequest]
      /\ job \in [Deletions -> Job]
  BY DEF IInv, TypeOK
<1>2. provider' \subseteq provider
  BY OneWay
<1>3. ASSUME NEW u \in Users, user'[u].status = "gone" PROVE user'[u].sub \notin provider'
  <2>1. CASE user[u].status = "gone"
    BY <1>1, <1>2, <2>1, UsersStay DEF OrderHolds
  <2>2. CASE user[u].status # "gone"
    <3>1. ASSUME NEW c \in Requests, Provision(c) PROVE FALSE
      <4>1. user' # user
        BY <1>3, <2>2
      <4>2. PICK v \in Users :
              user' = [user EXCEPT ![v] = [status |-> "active", sub |-> session[c].sub]]
        BY <3>1, <4>1 DEF Provision
      <4>3. user'[u] = user[u] \/ user'[u] = [status |-> "active", sub |-> session[c].sub]
        BY <1>1, <4>2
      <4> QED
        BY <1>3, <2>2, <4>3
    <3>2. ASSUME NEW c \in Requests, MarkDeleted(c) PROVE FALSE
      BY <1>1, <1>3, <2>2, <3>2 DEF MarkDeleted, UserRow
    <3>3. PICK d \in Deletions : DeleteRows(d) /\ user' # user
      BY <1>3, <2>2, <3>1, <3>2
         DEF Next, vars, Call, StartJoin, Join, StartUpload, CreateUploadTicket,
             CheckDeletion, Enqueue, RequestFails, Upload, WorkerStep, RunJob,
             MarkProcessing, FindOrganizations, ListFiles, DeleteObject, ObjectsDone,
             DeleteIdentity, Complete, MarkFailed, AttemptFails, WorkerStops
    <3>4. user' = [user EXCEPT ![deletion[d].user].status = "gone"] /\ At(d, "rows")
      BY <3>3 DEF DeleteRows
    <3>5. u = deletion[d].user
      BY <1>1, <1>3, <2>2, <3>4
    <3>6. user'[u].sub = user[u].sub
      BY <1>1, <3>4, <3>5 DEF UserRow
    <3> QED
      BY <1>1, <1>2, <3>4, <3>5, <3>6 DEF OrderHolds
  <2> QED
    BY <2>1, <2>2
<1>4. ASSUME NEW d \in Deletions PROVE
        /\ At(d, "rows")' => user'[deletion'[d].user].sub \notin provider'
        /\ At(d, "complete")' \/ deletion'[d].status = "completed" =>
             user'[deletion'[d].user].status = "gone"
  <2> DEFINE u == deletion[d].user
  <2>1. CASE deletion[d].status = "none"
    <3>1. job[d].queue = "none"
      BY <1>1, <2>1 DEF DeletionsHold
    <3>2. job'[d].queue # "active"
      BY <3>1, StillActive DEF JobGoesOn
    <3>3. deletion'[d].status # "completed"
      <4>1. ASSUME NEW c \in Requests,
                   deletion'[d] = [status |-> "pending", user |-> session[c].user]
            PROVE  deletion'[d].status # "completed"
        BY <4>1
      <4> QED
        BY <2>1, <4>1, DeletionsStay
    <3> QED
      BY <3>2, <3>3 DEF At
  <2>2. CASE deletion[d].status # "none"
    <3>1. /\ deletion'[d].user = u /\ u \in Users
          /\ user[u].status # "none" /\ user'[u].sub = user[u].sub
          /\ user[u].status = "gone" => user'[u].status = "gone"
      BY <1>1, <2>2, DeletionsStay, UsersStay DEF DeletionsHold
    <3>2. ASSUME At(d, "rows")' PROVE user[u].sub \notin provider'
      <4>1. CASE At(d, "rows")
        BY <1>1, <1>2, <4>1 DEF OrderHolds
      <4>2. CASE DeleteIdentity(d)
        BY <4>2 DEF DeleteIdentity
      <4>3. job'[d].queue = "active" /\ job'[d].step = "rows"
        BY <3>2 DEF At
      <4>4. ASSUME RunJob(d), job[d].queue = "waiting", job'[d].step = job[d].step
            PROVE  FALSE
        BY <1>1, <4>3, <4>4 DEF IInv, JobsHold
      <4>5. ASSUME WorkerStep(d), JobGoesOn(d)
            PROVE  \/ At(d, "rows")
                   \/ DeleteIdentity(d)
        BY <4>3, <4>5, JobSees DEF At
      <4>6. ASSUME job'[d] = job[d] PROVE At(d, "rows")
        BY <4>3, <4>6 DEF At
      <4> QED
        BY <4>1, <4>2, <4>3, <4>4, <4>5, <4>6, StillActive
    <3>3. ASSUME At(d, "complete")' PROVE user'[u].status = "gone"
      <4>1. CASE At(d, "complete")
        BY <1>1, <3>1, <4>1 DEF OrderHolds
      <4>2. CASE DeleteRows(d) /\ Exists(u)
        BY <1>1, <3>1, <4>2 DEF DeleteRows, UserRow
      <4>3. job'[d].queue = "active" /\ job'[d].step = "complete"
        BY <3>3 DEF At
      <4>4. ASSUME RunJob(d), job[d].queue = "waiting", job'[d].step = job[d].step
            PROVE  FALSE
        BY <1>1, <4>3, <4>4 DEF IInv, JobsHold
      <4>5. ASSUME WorkerStep(d), JobGoesOn(d)
            PROVE  \/ At(d, "complete")
                   \/ DeleteRows(d) /\ Exists(u)
        BY <4>3, <4>5, JobSees DEF At
      <4>6. ASSUME job'[d] = job[d] PROVE At(d, "complete")
        BY <4>3, <4>6 DEF At
      <4> QED
        BY <4>1, <4>2, <4>3, <4>4, <4>5, <4>6, StillActive
    <3>4. ASSUME deletion'[d].status = "completed" PROVE user'[u].status = "gone"
      <4>1. CASE deletion[d].status = "completed"
        BY <1>1, <3>1, <4>1 DEF OrderHolds
      <4>2. CASE Complete(d)
        BY <1>1, <3>1, <4>2 DEF Complete, OrderHolds
      <4>3. CASE deletion[d].status # "completed" /\ ~Complete(d)
        <5>1. ASSUME NEW e \in Deletions, Complete(e) PROVE FALSE
          <6>1. e # d
            BY <4>3, <5>1
          <6> QED
            BY <1>1, <3>4, <4>3, <5>1, <6>1 DEF Complete
        <5>2. ASSUME NEW e \in Deletions, MarkProcessing(e) \/ MarkFailed(e) PROVE FALSE
          BY <1>1, <3>4, <4>3, <5>2 DEF MarkProcessing, MarkFailed, DeletionRequest
        <5>3. ASSUME NEW c \in Requests, MarkDeleted(c) PROVE FALSE
          BY <1>1, <3>4, <4>3, <5>3 DEF MarkDeleted
        <5> QED
          BY <3>4, <4>3, <5>1, <5>2, <5>3
             DEF Next, vars, Call, Provision, StartJoin, Join, StartUpload, CreateUploadTicket,
                 CheckDeletion, Enqueue, RequestFails, Upload, WorkerStep, RunJob,
                 FindOrganizations, ListFiles, DeleteObject, ObjectsDone, DeleteIdentity,
                 DeleteRows, AttemptFails, WorkerStops
      <4> QED
        BY <4>1, <4>2, <4>3
    <3> QED
      BY <3>1, <3>2, <3>3, <3>4
  <2> QED
    BY <2>1, <2>2
<1> QED
  BY <1>3, <1>4 DEF OrderHolds

-----------------------------------------------------------------------------
(* Organisations and files                                                  *)

(* What a step may do to an organisation: make it for a new user, let       *)
(* somebody join, which is noticed when a job has counted it, or take a     *)
(* user that is deleted out of it, or all of it away.                       *)
LEMMA OrganizationSteps ==
    ASSUME IInv, [Next]_vars, NEW o \in Users
    PROVE  \/ org'[o] = org[o]
           \/ /\ user[o].status = "none" /\ user'[o].status = "active"
              /\ org'[o] = [exists |-> TRUE, members |-> {o}]
           \/ /\ org[o].exists /\ org'[o].exists
              /\ \E u \in Users : Exists(u) /\ org'[o].members = org[o].members \cup {u}
              /\ o \in Counted => o \in hasty'
           \/ \E d \in Deletions :
                /\ DeleteRows(d) /\ Exists(deletion[d].user)
                /\ org'[o] = IF o \in job[d].orgs THEN [exists |-> FALSE, members |-> {}]
                             ELSE [org[o] EXCEPT !.members = @ \ {deletion[d].user}]
<1>1. user \in [Users -> UserRow] /\ org \in [Users -> Organization]
  BY DEF IInv, TypeOK
<1>2. CASE UNCHANGED org
  BY <1>2
<1>3. ASSUME NEW c \in Requests, Provision(c), org' # org
      PROVE  \/ org'[o] = org[o]
             \/ /\ user[o].status = "none" /\ user'[o].status = "active"
                /\ org'[o] = [exists |-> TRUE, members |-> {o}]
  <2>1. PICK u \in Users :
          /\ user[u].status = "none"
          /\ user' = [user EXCEPT ![u] = [status |-> "active", sub |-> session[c].sub]]
          /\ org' = [org EXCEPT ![u] = [exists |-> TRUE, members |-> {u}]]
    BY <1>3 DEF Provision, ProvisionPersonalOrganization
  <2>2. CASE o = u
    BY <1>1, <2>1, <2>2
  <2>3. CASE o # u
    BY <1>1, <2>1, <2>3
  <2> QED
    BY <2>2, <2>3
<1>4. ASSUME NEW c \in Requests, Join(c), org' # org
      PROVE  \/ org'[o] = org[o]
             \/ /\ org[o].exists /\ org'[o].exists
                /\ \E u \in Users :
                     Exists(u) /\ org'[o].members = org[o].members \cup {u}
                /\ o \in Counted => o \in hasty'
  <2> DEFINE p == session[c].org
             u == session[c].user
  <2>1. p \in Users /\ u \in Users
    BY <1>4 DEF Join, IInv, SessionsHold
  <2>2. /\ org[p].exists /\ Exists(u)
        /\ org' = [org EXCEPT ![p].members = @ \cup {u}]
        /\ hasty' = hasty \cup ({p} \cap Counted)
    BY <1>4 DEF Join
  <2> HIDE DEF p, u
  <2>3. CASE o = p
    <3>1. org'[o].exists = org[o].exists /\ org'[o].members = org[o].members \cup {u}
      BY <1>1, <2>1, <2>2, <2>3 DEF Organization
    <3> QED
      BY <2>1, <2>2, <2>3, <3>1
  <2>4. CASE o # p
    BY <1>1, <2>2, <2>4
  <2> QED
    BY <2>3, <2>4
<1>5. ASSUME NEW d \in Deletions, DeleteRows(d), org' # org
      PROVE  /\ Exists(deletion[d].user)
             /\ org'[o] = IF o \in job[d].orgs THEN [exists |-> FALSE, members |-> {}]
                          ELSE [org[o] EXCEPT !.members = @ \ {deletion[d].user}]
  BY <1>1, <1>5 DEF DeleteRows
<1> QED
  BY <1>2, <1>3, <1>4, <1>5
     DEF Next, vars, Call, StartJoin, StartUpload, CreateUploadTicket, CheckDeletion,
         MarkDeleted, Enqueue, RequestFails, Upload, WorkerStep, RunJob, MarkProcessing,
         FindOrganizations, ListFiles, DeleteObject, ObjectsDone, DeleteIdentity, Complete,
         MarkFailed, AttemptFails, WorkerStops

(* What a step may do to a file.                                            *)
LEMMA FileSteps ==
    ASSUME IInv, [Next]_vars, NEW f \in Files
    PROVE  \/ file'[f] = file[f]
           \/ /\ file[f].org = NoUser /\ UNCHANGED <<org, user>>
              /\ \E o \in Users :
                   org[o].exists /\ file'[f] = [org |-> o, row |-> TRUE, stored |-> FALSE]
           \/ Upload(f) /\ file'[f] = [file[f] EXCEPT !.stored = TRUE]
           \/ file'[f] = [file[f] EXCEPT !.stored = FALSE] /\ UNCHANGED <<org, user>>
           \/ \E d \in Deletions :
                /\ DeleteRows(d) /\ Exists(deletion[d].user)
                /\ file[f].org \in job[d].orgs
                /\ file'[f] = [file[f] EXCEPT !.row = FALSE]
<1>1. file \in [Files -> FileObject]
  BY DEF IInv, TypeOK
<1>2. CASE UNCHANGED file
  BY <1>2
<1>3. ASSUME NEW c \in Requests, CreateUploadTicket(c), file' # file
      PROVE  \/ file'[f] = file[f]
             \/ /\ file[f].org = NoUser /\ UNCHANGED <<org, user>>
                /\ \E o \in Users :
                     org[o].exists /\ file'[f] = [org |-> o, row |-> TRUE, stored |-> FALSE]
  <2> DEFINE o == session[c].org
  <2>1. PICK g \in Files :
          /\ file[g].org = NoUser
          /\ file' = [file EXCEPT ![g] = [org |-> o, row |-> TRUE, stored |-> FALSE]]
    BY <1>3 DEF CreateUploadTicket
  <2>2. o \in Users /\ org[o].exists /\ UNCHANGED <<org, user>>
    BY <1>3 DEF CreateUploadTicket, IInv, SessionsHold
  <2> HIDE DEF o
  <2>3. CASE f = g
    BY <1>1, <2>1, <2>2, <2>3
  <2>4. CASE f # g
    BY <1>1, <2>1, <2>4
  <2> QED
    BY <2>3, <2>4
<1>4. ASSUME NEW g \in Files, Upload(g)
      PROVE  \/ file'[f] = file[f]
             \/ Upload(f) /\ file'[f] = [file[f] EXCEPT !.stored = TRUE]
  <2>1. file' = [file EXCEPT ![g].stored = TRUE]
    BY <1>4 DEF Upload
  <2>2. CASE f = g
    BY <1>1, <1>4, <2>1, <2>2
  <2>3. CASE f # g
    BY <1>1, <2>1, <2>3
  <2> QED
    BY <2>2, <2>3
<1>5. ASSUME NEW d \in Deletions, DeleteObject(d)
      PROVE  \/ file'[f] = file[f]
             \/ file'[f] = [file[f] EXCEPT !.stored = FALSE] /\ UNCHANGED <<org, user>>
  <2>1. PICK g \in job[d].keys : file' = [file EXCEPT ![g].stored = FALSE]
    BY <1>5 DEF DeleteObject
  <2>2. UNCHANGED <<org, user>>
    BY <1>5 DEF DeleteObject
  <2>3. CASE f = g
    BY <1>1, <2>1, <2>2, <2>3
  <2>4. CASE f # g
    BY <1>1, <2>1, <2>4
  <2> QED
    BY <2>3, <2>4
<1>6. ASSUME NEW d \in Deletions, DeleteRows(d), file' # file
      PROVE  \/ file'[f] = file[f]
             \/ /\ Exists(deletion[d].user)
                /\ file[f].org \in job[d].orgs
                /\ file'[f] = [file[f] EXCEPT !.row = FALSE]
  BY <1>1, <1>6 DEF DeleteRows
<1> QED
  BY <1>2, <1>3, <1>4, <1>5, <1>6
     DEF Next, vars, Call, Provision, StartJoin, Join, StartUpload, CheckDeletion,
         MarkDeleted, Enqueue, RequestFails, WorkerStep, RunJob, MarkProcessing,
         FindOrganizations, ListFiles, ObjectsDone, DeleteIdentity, Complete,
         MarkFailed, AttemptFails, WorkerStops

LEMMA FilesKept ==
    ASSUME IInv, [Next]_vars
    PROVE  FilesHold'
<1>1. /\ FilesHold
      /\ user \in [Users -> UserRow] /\ org \in [Users -> Organization]
      /\ file \in [Files -> FileObject] /\ file' \in [Files -> FileObject]
      /\ job \in [Deletions -> Job]
  BY TypesHold DEF IInv, TypeOK
<1>2. ASSUME NEW o \in Users, org'[o].exists
      PROVE  /\ user'[o].status # "none"
             /\ org[o].exists \/ user[o].status = "none"
  <2>1. CASE org[o].exists
    BY <1>1, <2>1, UsersStay DEF FilesHold
  <2>2. CASE ~org[o].exists
    <3>1. ASSUME NEW d \in Deletions,
                 org'[o] = IF o \in job[d].orgs THEN [exists |-> FALSE, members |-> {}]
                           ELSE [org[o] EXCEPT !.members = @ \ {deletion[d].user}]
          PROVE  FALSE
      BY <1>1, <1>2, <2>2, <3>1 DEF Organization
    <3> QED
      BY <1>2, <2>2, <3>1, OrganizationSteps
  <2> QED
    BY <2>1, <2>2
<1>3. ASSUME NEW f \in Files
      PROVE  /\ file'[f].org = NoUser => ~file'[f].row /\ ~file'[f].stored
             /\ file'[f].org # NoUser => user'[file'[f].org].status # "none"
             /\ file'[f].org # NoUser /\ ~file'[f].row => ~org'[file'[f].org].exists
  <2>0. file[f] \in FileObject /\ file'[f] \in FileObject
    BY <1>1
  <2>1. ASSUME file'[f].org = file[f].org, file[f].org # NoUser, file'[f].row = file[f].row
        PROVE  /\ user'[file'[f].org].status # "none"
               /\ ~file'[f].row => ~org'[file'[f].org].exists
    <3> DEFINE o == file[f].org
    <3>1. o \in Users /\ user[o].status # "none" /\ (~file[f].row => ~org[o].exists)
      BY <1>1, <2>0, <2>1 DEF FileObject, FilesHold
    <3> HIDE DEF o
    <3>2. user'[o].status # "none" /\ (~file[f].row => ~org'[o].exists)
      BY <1>2, <3>1, UsersStay
    <3> QED
      BY <2>1, <3>2 DEF o
  <2>2. CASE file'[f] = file[f]
    BY <1>1, <2>1, <2>2 DEF FilesHold
  <2>3. ASSUME NEW o \in Users, org[o].exists, UNCHANGED <<org, user>>,
               file'[f] = [org |-> o, row |-> TRUE, stored |-> FALSE]
        PROVE  file'[f].org # NoUser /\ file'[f].row /\ user'[file'[f].org].status # "none"
    BY <1>1, <2>3, AccountsAssumption DEF FilesHold
  <2>4. CASE Upload(f) /\ file'[f] = [file[f] EXCEPT !.stored = TRUE]
    <3>1. file'[f].org = file[f].org /\ file[f].org # NoUser /\ file'[f].row = file[f].row
      BY <2>0, <2>4 DEF Upload, FileObject
    <3> QED
      BY <2>1, <3>1
  <2>5. CASE file'[f] = [file[f] EXCEPT !.stored = FALSE]
    <3>1. file'[f].org = file[f].org /\ file'[f].row = file[f].row /\ ~file'[f].stored
      BY <2>0, <2>5 DEF FileObject
    <3> QED
      BY <1>1, <2>1, <3>1 DEF FilesHold
  <2>6. ASSUME NEW d \in Deletions, DeleteRows(d), Exists(deletion[d].user),
               file[f].org \in job[d].orgs, file'[f] = [file[f] EXCEPT !.row = FALSE]
        PROVE  /\ file'[f].org # NoUser
               /\ user'[file'[f].org].status # "none"
               /\ ~org'[file'[f].org].exists
    <3> DEFINE o == file[f].org
    <3>1. o \in Users /\ user[o].status # "none" /\ o \in job[d].orgs
      BY <1>1, <2>6 DEF IInv, JobsHold, Job
    <3>2. file'[f].org = o
      BY <2>0, <2>6 DEF FileObject
    <3> HIDE DEF o
    <3>3. ~org'[o].exists
      <4>1. org' = [p \in Users |->
              IF p \in job[d].orgs THEN [exists |-> FALSE, members |-> {}]
              ELSE [org[p] EXCEPT !.members = @ \ {deletion[d].user}]]
        BY <2>6 DEF DeleteRows
      <4>2. org'[o] = [exists |-> FALSE, members |-> {}]
        BY <3>1, <4>1
      <4> QED
        BY <4>2
    <3> QED
      BY <3>1, <3>2, <3>3, UsersStay, AccountsAssumption
  <2> QED
    BY <2>2, <2>3, <2>4, <2>5, <2>6, FileSteps
<1> QED
  BY <1>2, <1>3 DEF FilesHold

(* An object that is stored and has lost its row was uploaded after the job *)
(* had listed its organisation.                                             *)
LEMMA ObjectsKept ==
    ASSUME IInv, [Next]_vars
    PROVE  ObjectsHold'
<1> SUFFICES ASSUME NEW f \in Files, file'[f].stored
             PROVE  /\ ~file'[f].row => f \in late'
                    /\ file'[f].row => \A d \in Deletions :
                         file'[f].org \in job'[d].orgs \ job'[d].left =>
                           f \in late' \cup job'[d].keys
  BY DEF ObjectsHold
<1>1. /\ TypeOK /\ JobsHold /\ FilesHold /\ ObjectsHold /\ JobsHold'
      /\ file[f] \in FileObject /\ job \in [Deletions -> Job]
      /\ file \in [Files -> FileObject]
  BY JobsKept DEF IInv, TypeOK
<1>2. late \subseteq late'
  BY OneWay
<1>3. CASE file'[f] = file[f]
  <2>1. ~file'[f].row => f \in late'
    BY <1>1, <1>2, <1>3 DEF ObjectsHold
  <2>2. ASSUME file'[f].row, NEW d \in Deletions,
               file'[f].org \in job'[d].orgs \ job'[d].left, f \notin late'
        PROVE  f \in job'[d].keys
    <3>1. job'[d].queue = "active"
      BY <1>1, <2>2 DEF JobsHold
    <3>2. \A e \in Deletions : file[f].org \in job[e].orgs \ job[e].left => f \in job[e].keys
      BY <1>1, <1>2, <1>3, <2>2 DEF ObjectsHold
    <3>3. CASE job'[d] = job[d]
      BY <1>3, <2>2, <3>2, <3>3
    <3>4. CASE RunJob(d) /\ UNCHANGED <<job[d].step, job[d].orgs, job[d].left, job[d].keys>>
      BY <1>3, <2>2, <3>2, <3>4
    <3>5. CASE WorkerStep(d) /\ JobGoesOn(d)
      <4>1. CASE At(d, "find")
        BY <2>2, <3>5, <4>1, JobSees DEF At
      <4>2. CASE At(d, "list")
        <5>1. PICK o \in job[d].left :
                /\ job'[d].orgs = job[d].orgs /\ job'[d].left = job[d].left \ {o}
                /\ job'[d].keys = {g \in Files : file[g].org = o /\ file[g].row}
          BY <3>5, <4>2, JobSees DEF At
        <5>2. CASE file[f].org = o
          BY <1>3, <2>2, <5>1, <5>2
        <5>3. CASE file[f].org # o
          <6>1. job[d].keys = {}
            BY <1>1, <4>2 DEF JobsHold, At
          <6>2. file[f].org \in job[d].orgs \ job[d].left
            BY <1>3, <2>2, <5>1, <5>3
          <6> QED
            BY <3>2, <6>1, <6>2
        <5> QED
          BY <5>2, <5>3
      <4>3. CASE At(d, "objects")
        <5>1. f \in job[d].keys
          BY <1>3, <2>2, <3>2, <3>5, <4>3, JobSees DEF At
        <5>2. ASSUME NEW g \in job[d].keys, file' = [file EXCEPT ![g].stored = FALSE]
              PROVE  g # f
          BY <1>1, <5>2 DEF FileObject
        <5> QED
          BY <3>5, <4>3, <5>1, <5>2, JobSees DEF At
      <4>4. CASE job[d].step \notin {"find", "list", "objects"}
        BY <1>3, <2>2, <3>2, <3>5, <4>4, JobSees DEF At
      <4> QED
        BY <3>5, <4>1, <4>2, <4>3, <4>4, JobSees DEF At
    <3> QED
      BY <3>1, <3>3, <3>4, <3>5, StillActive
  <2> QED
    BY <2>1, <2>2
<1>4. CASE Upload(f) /\ file'[f] = [file[f] EXCEPT !.stored = TRUE]
  <2>1. /\ file'[f].org = file[f].org /\ file'[f].row = file[f].row
        /\ file[f].org # NoUser /\ file[f].org \in Users /\ UNCHANGED <<org, job>>
    BY <1>1, <1>4 DEF Upload, FileObject
  <2>2. ~file[f].row => ~org[file[f].org].exists
    BY <1>1, <2>1 DEF FilesHold
  <2>3. \A d \in Deletions : file[f].org \in job[d].orgs \ job[d].left => file[f].org \in Listed
    BY DEF Listed
  <2>4. file[f].org \in Listed \/ ~org[file[f].org].exists => f \in late'
    BY <1>4 DEF Upload
  <2> QED
    BY <2>1, <2>2, <2>3, <2>4
<1>5. ASSUME NEW d \in Deletions, DeleteRows(d), file[f].org \in job[d].orgs,
             file'[f] = [file[f] EXCEPT !.row = FALSE]
      PROVE  ~file'[f].row /\ f \in late'
  <2>1. ~file'[f].row /\ file[f].stored
    BY <1>1, <1>5 DEF FileObject
  <2>2. At(d, "rows")
    BY <1>5 DEF DeleteRows
  <2>3. job[d].left = {} /\ job[d].keys = {}
    BY <1>1, <2>2 DEF JobsHold, At
  <2>4. f \in late
    BY <1>1, <1>5, <2>1, <2>3 DEF ObjectsHold
  <2> QED
    BY <1>2, <2>1, <2>4
<1>6. ASSUME NEW o \in Users, file'[f] = [org |-> o, row |-> TRUE, stored |-> FALSE]
      PROVE  FALSE
  <2>1. ~file'[f].stored
    BY <1>6
  <2> QED
    BY <2>1
<1>7. file'[f] # [file[f] EXCEPT !.stored = FALSE]
  BY <1>1 DEF FileObject
<1> QED
  BY <1>3, <1>4, <1>5, <1>6, <1>7, FileSteps

(* The only one in an organisation that a job has counted is the one it is  *)
(* for.                                                                     *)
LEMMA CountsKept ==
    ASSUME IInv, [Next]_vars
    PROVE  CountsHold'
<1> SUFFICES ASSUME NEW d \in Deletions, NEW o \in job'[d].orgs \ hasty'
             PROVE  org'[o].members \subseteq {deletion'[d].user}
  BY DEF CountsHold
<1>1. /\ TypeOK /\ JobsHold /\ CountsHold /\ JobsHold' /\ DeletionsHold
      /\ org \in [Users -> Organization]
      /\ job \in [Deletions -> Job] /\ job' \in [Deletions -> Job]
  BY JobsKept, TypesHold DEF IInv, TypeOK
<1>2. hasty \subseteq hasty'
  BY OneWay
<1>3. o \in Users /\ job'[d].queue = "active"
  BY <1>1 DEF JobsHold, Job
<1>4. deletion'[d].user = deletion[d].user
  <2>1. deletion[d].status # "none"
    <3>1. job[d].queue # "none"
      BY <1>3, StillActive DEF JobGoesOn
    <3> QED
      BY <1>1, <3>1 DEF DeletionsHold
  <2> QED
    BY <2>1, DeletionsStay
<1>5. CASE o \in job[d].orgs
  <2>1. org[o].members \subseteq {deletion[d].user} /\ o \in Counted /\ user[o].status # "none"
    BY <1>1, <1>2, <1>5 DEF CountsHold, Counted, JobsHold
  <2>2. ASSUME NEW e \in Deletions,
               org'[o] = IF o \in job[e].orgs THEN [exists |-> FALSE, members |-> {}]
                         ELSE [org[o] EXCEPT !.members = @ \ {deletion[e].user}]
        PROVE  org'[o].members \subseteq org[o].members
    <3>1. org[o] \in Organization
      BY <1>1, <1>3
    <3>2. CASE o \in job[e].orgs
      BY <2>2, <3>2
    <3>3. CASE o \notin job[e].orgs
      BY <2>2, <3>1, <3>3 DEF Organization
    <3> QED
      BY <3>2, <3>3
  <2> QED
    BY <1>3, <1>4, <2>1, <2>2, OrganizationSteps
<1>6. CASE o \notin job[d].orgs
  <2>1. WorkerStep(d) /\ JobGoesOn(d)
    BY <1>3, <1>6, StillActive
  <2>2. FindOrganizations(d) /\ SoleMember(deletion[d].user, org[o].members)
    BY <1>6, <2>1, JobSees DEF Found
  <2> QED
    BY <1>4, <2>2 DEF FindOrganizations, SoleMember
<1> QED
  BY <1>5, <1>6

(* Who had an account and has it no longer has left every organisation.     *)
LEMMA WhoGoesLeaves ==
    ASSUME IInv, [Next]_vars, NEW u \in Users, Exists(u), ~Exists(u)'
    PROVE  \A o \in Users : u \notin org'[o].members
<1>1. /\ user \in [Users -> UserRow] /\ org \in [Users -> Organization]
  BY DEF IInv, TypeOK
<1>2. ASSUME NEW c \in Requests, Provision(c) PROVE FALSE
  <2>1. PICK v \in Users :
          user' = [user EXCEPT ![v] = [status |-> "active", sub |-> session[c].sub]]
    BY <1>2 DEF Provision, Exists
  <2>2. user'[u] = user[u] \/ user'[u] = [status |-> "active", sub |-> session[c].sub]
    BY <1>1, <2>1
  <2> QED
    BY <2>2 DEF Exists
<1>3. ASSUME NEW c \in Requests, MarkDeleted(c) PROVE FALSE
  BY <1>1, <1>3 DEF MarkDeleted, UserRow, Exists
<1>4. PICK d \in Deletions : DeleteRows(d) /\ user' # user
  BY <1>2, <1>3
     DEF Exists, Next, vars, Call, StartJoin, Join, StartUpload, CreateUploadTicket,
         CheckDeletion, Enqueue, RequestFails, Upload, WorkerStep, RunJob,
         MarkProcessing, FindOrganizations, ListFiles, DeleteObject, ObjectsDone,
         DeleteIdentity, Complete, MarkFailed, AttemptFails, WorkerStops
<1>5. /\ user' = [user EXCEPT ![deletion[d].user].status = "gone"]
      /\ org' = [o \in Users |->
           IF o \in job[d].orgs THEN [exists |-> FALSE, members |-> {}]
           ELSE [org[o] EXCEPT !.members = @ \ {deletion[d].user}]]
  BY <1>4 DEF DeleteRows
<1>6. u = deletion[d].user
  BY <1>1, <1>5 DEF Exists
<1> SUFFICES ASSUME NEW o \in Users PROVE u \notin org'[o].members
  OBVIOUS
<1>7. CASE o \in job[d].orgs
  BY <1>5, <1>7
<1>8. CASE o \notin job[d].orgs
  <2>1. org'[o].members = org[o].members \ {u}
    BY <1>1, <1>5, <1>6, <1>8 DEF Organization
  <2> QED
    BY <2>1
<1> QED
  BY <1>7, <1>8

(* Only who has an account joins, and who loses it is taken out.            *)
LEMMA MembersKept ==
    ASSUME IInv, [Next]_vars
    PROVE  MembersHold'
<1> SUFFICES ASSUME NEW o \in Users, NEW u \in org'[o].members
             PROVE  Exists(u)'
  BY DEF MembersHold
<1>1. /\ org \in [Users -> Organization] /\ org' \in [Users -> Organization]
      /\ MembersHold
  BY TypesHold DEF IInv, TypeOK
<1>2. u \in Users
  BY <1>1 DEF Organization
<1>3. CASE Exists(u)
  BY <1>2, <1>3, WhoGoesLeaves
<1>4. CASE ~Exists(u)
  <2>1. u \notin org[o].members
    BY <1>1, <1>4 DEF MembersHold
  <2>2. ASSUME NEW v \in Users, Exists(v), org'[o].members = org[o].members \cup {v}
        PROVE  FALSE
    BY <1>4, <2>1, <2>2
  <2>3. ASSUME NEW e \in Deletions,
               org'[o] = IF o \in job[e].orgs THEN [exists |-> FALSE, members |-> {}]
                         ELSE [org[o] EXCEPT !.members = @ \ {deletion[e].user}]
        PROVE  FALSE
    <3>1. CASE o \in job[e].orgs
      BY <2>3, <3>1
    <3>2. CASE o \notin job[e].orgs
      BY <1>1, <2>1, <2>3, <3>2 DEF Organization
    <3> QED
      BY <3>1, <3>2
  <2>4. org'[o] = [exists |-> TRUE, members |-> {o}] /\ user'[o].status = "active"
    BY <2>1, <2>2, <2>3, OrganizationSteps
  <2> QED
    BY <2>4 DEF Exists
<1> QED
  BY <1>3, <1>4

(* Nobody begins to leave an organisation but by the count of a job.        *)
LEMMA LeavingBegins ==
    ASSUME IInv, [Next]_vars, NEW v \in Users, NEW o \in Users, Leaves(v, o)'
    PROVE  \/ Leaves(v, o)
           \/ \E d \in Deletions :
                /\ FindOrganizations(d) /\ deletion[d].user = v
                /\ o \notin Found(v)
<1>1. PICK d \in Deletions :
        /\ deletion'[d].user = v
        /\ job'[d].queue = "active" /\ job'[d].step \notin {"mark", "find"}
        /\ o \notin job'[d].orgs
  BY DEF Leaves
<1>2. JobsHold /\ DeletionsHold
  BY DEF IInv
<1>3. deletion[d].user = v
  <2>1. job[d].queue # "none"
    BY <1>1, StillActive DEF JobGoesOn
  <2>2. deletion[d].status # "none"
    BY <1>2, <2>1 DEF DeletionsHold
  <2> QED
    BY <1>1, <2>2, DeletionsStay
<1>4. CASE job'[d] = job[d]
  BY <1>1, <1>3, <1>4 DEF Leaves
<1>5. CASE RunJob(d) /\ job[d].queue = "waiting" /\ UNCHANGED job[d].step
  BY <1>1, <1>2, <1>5 DEF JobsHold
<1>6. CASE WorkerStep(d) /\ JobGoesOn(d)
  <2>1. CASE At(d, "find") /\ FindOrganizations(d) /\ job'[d].orgs = Found(deletion[d].user)
    BY <1>1, <1>3, <2>1
  <2>2. CASE /\ job[d].queue = "active" /\ job[d].step \notin {"mark", "find"}
             /\ job'[d].orgs = job[d].orgs
    BY <1>1, <1>3, <2>2 DEF Leaves
  <2> QED
    BY <1>1, <1>6, <2>1, <2>2, JobSees DEF At
<1> QED
  BY <1>1, <1>4, <1>5, <1>6, StillActive

(* The job that counts when everybody else already leaves either takes the  *)
(* organisation or passes it by; later steps take out only who leaves.      *)
LEMMA PassedKept ==
    ASSUME IInv, [Next]_vars
    PROVE  PassedHold'
<1> SUFFICES ASSUME NEW o \in Users, org'[o].exists,
                    \A v \in org'[o].members : Leaves(v, o)'
             PROVE  o \in passedBy'
  BY DEF PassedHold
<1>1. /\ TypeOK /\ PassedHold /\ DeletionsHold
      /\ org \in [Users -> Organization] /\ job \in [Deletions -> Job]
      /\ org[o].members \subseteq Users /\ passedBy \subseteq passedBy'
  BY OneWay DEF IInv, TypeOK, Organization
<1>2. ASSUME org[o].exists, \A v \in org[o].members : Leaves(v, o)
      PROVE  o \in passedBy'
  BY <1>1, <1>2 DEF PassedHold
<1>3. ASSUME NEW d \in Deletions, FindOrganizations(d), NEW e \in Deletions,
             FindOrganizations(e)
      PROVE  d = e
  <2>1. PICK found \in SUBSET Users :
          job' = [job EXCEPT ![d] = [@ EXCEPT !.step = IF found = {} THEN "identity" ELSE "list",
                                              !.orgs = found, !.left = found]]
    BY <1>3 DEF FindOrganizations, Found
  <2>2. PICK more \in SUBSET Users :
          job' = [job EXCEPT ![e] = [@ EXCEPT !.step = IF more = {} THEN "identity" ELSE "list",
                                              !.orgs = more, !.left = more]]
    BY <1>3 DEF FindOrganizations, Found
  <2>3. job[d].step = "find" /\ job[d] \in Job
    BY <1>1, <1>3 DEF FindOrganizations, At
  <2>4. job'[d].step # "find"
    BY <1>1, <2>1, <2>3 DEF Job
  <2> QED
    BY <1>1, <2>2, <2>3, <2>4
<1>4. CASE org'[o] = org[o]
  <2>1. CASE \A v \in org[o].members : Leaves(v, o)
    BY <1>2, <1>4, <2>1
  <2>2. ASSUME NEW v \in org[o].members, ~Leaves(v, o)
        PROVE  o \in passedBy'
    <3>1. v \in Users /\ Leaves(v, o)'
      BY <1>1, <1>4, <2>2
    <3>2. PICK d \in Deletions :
            FindOrganizations(d) /\ deletion[d].user = v /\ o \notin Found(v)
      BY <2>2, <3>1, LeavingBegins
    <3>3. RlsEnforced \/ org[o].members # {v}
      BY <1>4, <3>2 DEF Found, SoleMember
    <3>4. ASSUME NEW w \in org[o].members \ {v} PROVE Leaves(w, o)
      <4>1. w \in Users /\ Leaves(w, o)'
        BY <1>1, <1>4, <3>4
      <4>2. ASSUME NEW e \in Deletions, FindOrganizations(e), deletion[e].user = w
            PROVE  FALSE
        <5>1. e = d
          BY <1>3, <3>2, <4>2
        <5> QED
          BY <3>2, <3>4, <4>2, <5>1
      <4> QED
        BY <4>1, <4>2, LeavingBegins
    <3>5. PassesBy(v, o)
      BY <3>3, <3>4 DEF PassesBy
    <3> QED
      BY <3>2, <3>5 DEF FindOrganizations
  <2> QED
    BY <2>1, <2>2
<1>5. CASE org'[o] # org[o]
  <2>1. \A v \in Users : Leaves(v, o)' => Leaves(v, o)
    <3>1. \A d \in Deletions : ~FindOrganizations(d)
      BY <1>5 DEF FindOrganizations
    <3> QED
      BY <3>1, LeavingBegins
  <2>2. ASSUME user[o].status = "none", org'[o] = [exists |-> TRUE, members |-> {o}]
        PROVE  FALSE
    <3>1. Leaves(o, o)
      BY <2>1, <2>2
    <3>2. PICK d \in Deletions : deletion[d].user = o /\ job[d].queue = "active"
      BY <3>1 DEF Leaves
    <3> QED
      BY <1>1, <2>2, <3>2 DEF DeletionsHold
  <2>3. ASSUME org[o].exists, NEW u \in Users, org'[o].members = org[o].members \cup {u}
        PROVE  o \in passedBy'
    <3>1. \A v \in org[o].members : Leaves(v, o)
      BY <1>1, <2>1, <2>3
    <3> QED
      BY <1>2, <2>3, <3>1
  <2>4. ASSUME NEW d \in Deletions, DeleteRows(d),
               org'[o] = IF o \in job[d].orgs THEN [exists |-> FALSE, members |-> {}]
                         ELSE [org[o] EXCEPT !.members = @ \ {deletion[d].user}]
        PROVE  o \in passedBy'
    <3>1. o \notin job[d].orgs
      BY <2>4
    <3>2. org[o].exists /\ org'[o].members = org[o].members \ {deletion[d].user}
      BY <1>1, <2>4, <3>1 DEF Organization
    <3>3. Leaves(deletion[d].user, o)
      BY <2>4, <3>1 DEF DeleteRows, At, Leaves
    <3>4. \A v \in org[o].members : Leaves(v, o)
      BY <1>1, <2>1, <3>2, <3>3
    <3> QED
      BY <1>2, <3>2, <3>4
  <2> QED
    BY <1>5, <2>2, <2>3, <2>4, OrganizationSteps
<1> QED
  BY <1>4, <1>5

-----------------------------------------------------------------------------
(* The theorems                                                             *)

LEMMA InitHolds == Init => IInv
<1> SUFFICES ASSUME Init PROVE IInv
  OBVIOUS
<1> USE DEF Init
<1>1. TypeOK
  <2>1. /\ [status |-> "none", sub |-> NoIdentity] \in UserRow
        /\ [exists |-> FALSE, members |-> {}] \in Organization
        /\ [org |-> NoUser, row |-> FALSE, stored |-> FALSE] \in FileObject
        /\ [status |-> "none", user |-> NoUser] \in DeletionRequest
    BY DEF UserRow, Organization, FileObject, DeletionRequest
  <2> QED
    BY <2>1, NoSessionIsSession, NoJobIsJob, AccountsAssumption DEF TypeOK
<1>2. SessionsHold
  BY NoSessionIsSession DEF SessionsHold
<1>3. /\ \A d \in Deletions : job[d] = NoJob /\ deletion[d].status = "none"
      /\ \A u \in Users : user[u].status = "none" /\ ~org[u].exists
      /\ \A f \in Files : file[f].org = NoUser /\ ~file[f].row /\ ~file[f].stored
  OBVIOUS
<1>4. DeletionsHold /\ JobsHold /\ OrderHolds
  BY <1>3, NoJobIsJob DEF DeletionsHold, JobsHold, OrderHolds, At
<1>5. FilesHold /\ ObjectsHold
  BY <1>3 DEF FilesHold, ObjectsHold
<1>6. CountsHold /\ PassedHold /\ NoDeletionIsForgotten
  BY <1>3, NoJobIsJob DEF CountsHold, PassedHold, NoDeletionIsForgotten
<1>7. MembersHold
  BY DEF MembersHold
<1> QED
  BY <1>1, <1>2, <1>4, <1>5, <1>6, <1>7 DEF IInv

THEOREM InvariantHolds == Spec => []IInv
<1>1. Init => IInv
  BY InitHolds
<1>2. IInv /\ [Next]_vars => IInv'
  <2> SUFFICES ASSUME IInv, [Next]_vars PROVE IInv'
    OBVIOUS
  <2> QED
    BY TypesHold, SessionsStay, DeletionsKept, JobsKept, OrderKept, FilesKept, ObjectsKept,
       CountsKept, MembersKept, PassedKept, NoneForgotten DEF IInv
<1> QED
  BY <1>1, <1>2, PTL DEF Spec

(* Every row, every call under way and every job keeps its type.            *)
THEOREM TypeCorrect == Spec => []TypeOK
<1>1. IInv => TypeOK
  BY DEF IInv
<1> QED
  BY <1>1, InvariantHolds, PTL

(* RowsGoLast, however many jobs, calls and faults there are: a row that    *)
(* is gone leaves behind no identity, and no object but those uploaded      *)
(* after the job had listed them.                                           *)
THEOREM RowsAreLast == Spec => []RowsGoLast
<1>1. IInv => RowsGoLast
  BY DEF IInv, OrderHolds, ObjectsHold, RowsGoLast
<1> QED
  BY <1>1, InvariantHolds, PTL

(* CompletedMeansGone, however many deletions run side by side and whatever *)
(* they see of the memberships.                                             *)
THEOREM CompletedIsGone == Spec => []CompletedMeansGone
<1>1. ASSUME IInv PROVE CompletedMeansGone
  <2> SUFFICES ASSUME NEW d \in Deletions, deletion[d].status = "completed"
               PROVE  /\ user[deletion[d].user].status = "gone"
                      /\ \A o \in Users : deletion[d].user \notin org[o].members
    BY DEF CompletedMeansGone
  <2>1. user[deletion[d].user].status = "gone"
    BY <1>1 DEF IInv, OrderHolds
  <2> QED
    BY <1>1, <2>1 DEF IInv, MembersHold, Exists
<1> QED
  BY <1>1, InvariantHolds, PTL

(* EmptyWerePassedBy: with nobody in it, nobody stays, so that the last of  *)
(* the jobs that counted for those who were in it passed it by.             *)
THEOREM EmptyPassedBy == Spec => []EmptyWerePassedBy
<1>1. IInv => EmptyWerePassedBy
  BY DEF IInv, PassedHold, EmptyWerePassedBy
<1> QED
  BY <1>1, InvariantHolds, PTL

(* OthersKeepTheirOrganization: an organisation goes only with everybody    *)
(* who was in it, but for those who joined after the job had counted.       *)
THEOREM OthersKeep == Spec => OthersKeepTheirOrganization
<1> DEFINE Kept ==
      \A o \in Users \ hasty :
        org[o].exists /\ ~org'[o].exists => \A u \in org[o].members : user'[u].status = "gone"
<1>1. ASSUME IInv, [Next]_vars
      PROVE  Kept
  <2> SUFFICES ASSUME NEW o \in Users \ hasty, org[o].exists, ~org'[o].exists,
                      NEW u \in org[o].members
               PROVE  user'[u].status = "gone"
    OBVIOUS
  <2>1. /\ org[o] \in Organization /\ user \in [Users -> UserRow]
    BY <1>1 DEF IInv, TypeOK
  <2>2. PICK d \in Deletions :
          /\ DeleteRows(d) /\ Exists(deletion[d].user)
          /\ org'[o] = IF o \in job[d].orgs THEN [exists |-> FALSE, members |-> {}]
                       ELSE [org[o] EXCEPT !.members = @ \ {deletion[d].user}]
    <3>1. org'[o] # org[o] /\ org'[o] # [exists |-> TRUE, members |-> {o}]
      OBVIOUS
    <3> QED
      BY <1>1, <3>1, OrganizationSteps
  <2>3. o \in job[d].orgs
    BY <2>1, <2>2 DEF Organization
  <2>4. u = deletion[d].user /\ u \in Users
    BY <1>1, <2>1, <2>3 DEF IInv, CountsHold, Organization
  <2>5. user' = [user EXCEPT ![u].status = "gone"]
    BY <2>2, <2>4 DEF DeleteRows
  <2> QED
    BY <2>1, <2>4, <2>5 DEF UserRow
<1> QED
  BY <1>1, InvariantHolds, PTL DEF Spec, OthersKeepTheirOrganization

(* NoDeletionIsForgotten: a deletion that is not decided has a job, or a    *)
(* call that is about to give it one, unless one of both was lost.          *)
THEOREM NoneIsForgotten == Spec => []NoDeletionIsForgotten
<1>1. IInv => NoDeletionIsForgotten
  BY DEF IInv
<1> QED
  BY <1>1, InvariantHolds, PTL
-----------------------------------------------------------------------------
(* Who is let in                                                            *)

(* An identity has one row that is not gone; whose deletion was asked for   *)
(* is marked or gone (the step that deletes the identity looks at no row);  *)
(* and an identity is missing only where that was done.                     *)
OwnersHold ==
    /\ \A u, v \in Users : Exists(u) /\ Exists(v) /\ user[u].sub = user[v].sub => u = v
    /\ \A u \in Users : user[u].status # "none" => user[u].sub \in Identities
    /\ \A d \in Deletions :
        deletion[d].status # "none" => user[deletion[d].user].status \in {"marked", "gone"}
    /\ \A s \in Identities \ provider :
        \E u \in Users : user[u].status \in {"marked", "gone"} /\ user[u].sub = s

LEMMA UserSteps ==
    ASSUME IInv, [Next]_vars
    PROVE  \/ UNCHANGED user
           \/ /\ UNCHANGED provider
              /\ \E u \in Users, s \in Identities :
                   /\ user[u].status = "none" /\ RowsOf(s) = {}
                   /\ user' = [user EXCEPT ![u] = [status |-> "active", sub |-> s]]
           \/ /\ UNCHANGED provider
              /\ \E u \in Users, status \in {"marked", "gone"} :
                   Exists(u) /\ user' = [user EXCEPT ![u].status = status]
<1>1. ASSUME NEW c \in Requests, Provision(c), user' # user
      PROVE  /\ UNCHANGED provider
             /\ \E u \in Users, s \in Identities :
                  /\ user[u].status = "none" /\ RowsOf(s) = {}
                  /\ user' = [user EXCEPT ![u] = [status |-> "active", sub |-> s]]
  <2>1. session[c].sub \in Identities
    BY <1>1 DEF Provision, IInv, SessionsHold
  <2> QED
    BY <1>1, <2>1 DEF Provision
<1>2. ASSUME NEW c \in Requests, MarkDeleted(c), user' # user
      PROVE  /\ UNCHANGED provider
             /\ \E v \in Users : Exists(v) /\ user' = [user EXCEPT ![v].status = "marked"]
  BY <1>2 DEF MarkDeleted, IInv, SessionsHold
<1>3. ASSUME NEW d \in Deletions, DeleteRows(d), user' # user
      PROVE  /\ UNCHANGED provider
             /\ \E v \in Users : Exists(v) /\ user' = [user EXCEPT ![v].status = "gone"]
  <2>1. deletion[d].user \in Users
    BY <1>3 DEF DeleteRows, At, IInv, DeletionsHold
  <2> QED
    BY <1>3, <2>1 DEF DeleteRows
<1> QED
  BY <1>1, <1>2, <1>3
     DEF Next, vars, WorkerStep, Call, StartJoin, Join, StartUpload, CreateUploadTicket,
         CheckDeletion, Enqueue, RequestFails, Upload, RunJob, MarkProcessing,
         FindOrganizations, ListFiles, DeleteObject, ObjectsDone, DeleteIdentity, Complete,
         MarkFailed, AttemptFails, WorkerStops

LEMMA ProviderSteps ==
    ASSUME IInv, [Next]_vars
    PROVE  \/ UNCHANGED provider
           \/ /\ UNCHANGED user
              /\ \E d \in Deletions :
                   /\ deletion[d].status # "none"
                   /\ provider' = provider \ {user[deletion[d].user].sub}
<1>1. ASSUME NEW d \in Deletions, DeleteIdentity(d)
      PROVE  /\ UNCHANGED user /\ deletion[d].status # "none"
             /\ provider' = provider \ {user[deletion[d].user].sub}
  BY <1>1 DEF DeleteIdentity, At, IInv, DeletionsHold
<1> QED
  BY <1>1
     DEF Next, vars, WorkerStep, Call, Provision, StartJoin, Join, StartUpload,
         CreateUploadTicket, CheckDeletion, MarkDeleted, Enqueue, RequestFails, Upload, RunJob,
         MarkProcessing, FindOrganizations, ListFiles, DeleteObject, ObjectsDone, DeleteRows,
         Complete, MarkFailed, AttemptFails, WorkerStops

LEMMA OwnersKept ==
    ASSUME IInv, OwnersHold, [Next]_vars
    PROVE  OwnersHold'
<1>1. user \in [Users -> UserRow]
  BY DEF IInv, TypeOK
<1>2. ASSUME NEW u \in Users, NEW v \in Users, Exists(u)', Exists(v)',
             user'[u].sub = user'[v].sub
      PROVE  u = v
  <2>1. CASE UNCHANGED user
    BY <1>2, <2>1 DEF OwnersHold, Exists
  <2>2. ASSUME NEW w \in Users, NEW s \in Identities,
               user[w].status = "none", RowsOf(s) = {},
               user' = [user EXCEPT ![w] = [status |-> "active", sub |-> s]]
        PROVE  u = v
    <3>1. \A x \in Users \ {w} : user'[x] = user[x] /\ (Exists(x) => user[x].sub # s)
      BY <1>1, <2>2 DEF RowsOf
    <3>2. user'[w].sub = s
      BY <1>1, <2>2
    <3> QED
      BY <1>2, <3>1, <3>2 DEF OwnersHold, Exists
  <2>3. ASSUME NEW w \in Users, NEW status \in {"marked", "gone"}, Exists(w),
               user' = [user EXCEPT ![w].status = status]
        PROVE  u = v
    <3>1. \A x \in Users : user'[x].sub = user[x].sub /\ (Exists(x)' => Exists(x))
      BY <1>1, <2>3 DEF UserRow, Exists
    <3> QED
      BY <1>2, <3>1 DEF OwnersHold
  <2> QED
    BY <2>1, <2>2, <2>3, UserSteps
<1>3. ASSUME NEW u \in Users, user[u].status \in {"marked", "gone"}
      PROVE  user'[u].status \in {"marked", "gone"} /\ user'[u].sub = user[u].sub
  BY <1>1, <1>3, UserSteps DEF UserRow
<1>4. ASSUME NEW d \in Deletions, deletion'[d].status # "none"
      PROVE  user'[deletion'[d].user].status \in {"marked", "gone"}
  <2>1. CASE deletion'[d].user = deletion[d].user /\ deletion[d].status # "none"
    BY <1>3, <2>1 DEF IInv, DeletionsHold, OwnersHold
  <2>2. ASSUME NEW u \in Users, user' = [user EXCEPT ![u].status = "marked"],
               deletion'[d] = [status |-> "pending", user |-> u]
        PROVE  user'[deletion'[d].user].status = "marked"
    BY <1>1, <2>2 DEF UserRow
  <2> QED
    <3>1. \/ deletion'[d].user = deletion[d].user /\ deletion[d].status # "none"
          \/ \E u \in Users : /\ user' = [user EXCEPT ![u].status = "marked"]
                             /\ deletion'[d] = [status |-> "pending", user |-> u]
      BY <1>4, DeletionsStay
    <3> QED
      BY <2>1, <2>2, <3>1
<1>5. ASSUME NEW u \in Users, user'[u].status # "none"
      PROVE  user'[u].sub \in Identities
  BY <1>1, <1>5, UserSteps DEF OwnersHold, Exists, UserRow
<1>6. ASSUME NEW s \in Identities \ provider'
      PROVE  \E u \in Users : user'[u].status \in {"marked", "gone"} /\ user'[u].sub = s
  <2>1. CASE s \notin provider
    BY <1>3, <1>6, <2>1 DEF OwnersHold
  <2>2. CASE s \in provider
    <3>1. PICK d \in Deletions : deletion[d].status # "none" /\ s = user[deletion[d].user].sub
      BY <1>6, <2>2, ProviderSteps
    <3>2. deletion[d].user \in Users /\ user[deletion[d].user].status \in {"marked", "gone"}
      BY <3>1 DEF IInv, DeletionsHold, OwnersHold
    <3> QED
      BY <1>3, <3>1, <3>2
  <2> QED
    BY <2>1, <2>2
<1> QED
  BY <1>2, <1>4, <1>5, <1>6 DEF OwnersHold

(* LetInOnlyWhenGone, however many windows, logins and jobs race: from the  *)
(* mark to the end of the rows a token of the account opens nothing.        *)
THEOREM LetInLate == Spec => []LetInOnlyWhenGone
<1>1. Init => OwnersHold
  BY DEF Init, OwnersHold, Exists
<1>2. IInv /\ OwnersHold => LetInOnlyWhenGone
  BY DEF OwnersHold, LetInOnlyWhenGone, Exists
<1> QED
  BY <1>1, <1>2, OwnersKept, InvariantHolds, PTL DEF Spec
=============================================================================
