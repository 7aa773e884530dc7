------------------------------ MODULE Accounts ------------------------------
(***************************************************************************)
(* From the first login to the deletion of an account: resolveUser of      *)
(* apps/api/src/auth/user-provisioning.service.ts, requestDeletion of      *)
(* privacy/account.service.ts, and the job of apps/worker/src/account/     *)
(* deletion-handler.ts, which works through object storage, the identity   *)
(* provider and the database.                                              *)
(*                                                                         *)
(* The three share no transaction, every step may throw and is tried       *)
(* again, and other requests upload, join and log in meanwhile.  The       *)
(* queue's concurrency of one is each process's own, so that deletions run *)
(* side by side.  A token is checked by its signature alone, so that it    *)
(* outlives its identity.                                                  *)
(***************************************************************************)
EXTENDS Naturals

CONSTANTS
    Users,        \* rows of users, each with the personal organisation it got
    Identities,   \* users of the identity provider
    Files,        \* rows of file_objects, each with its object
    Requests,     \* windows of a client, with the API call each makes
    Deletions,    \* rows of data_subject_requests
    Attempts,     \* attempts of the job
    RlsEnforced,  \* whether row security applies to the connections
    MaxFaults,    \* bound: failures, and stops but for a job's second
    NoIdentity, NoUser, NoDeletion

ASSUME AccountsAssumption ==
    /\ Attempts \in Nat \ {0}
    /\ RlsEnforced \in BOOLEAN
    /\ MaxFaults \in Nat
    /\ NoIdentity \notin Identities
    /\ NoUser \notin Users
    /\ NoDeletion \notin Deletions

VARIABLES
    user,      \* users
    org,       \* personal organisations, named by the user they were made for
    file,      \* file_objects and the objects in storage
    deletion,  \* data_subject_requests
    provider,  \* identities the provider knows
    session,   \* API calls under way
    job,       \* the job of a deletion
    late,      \* files uploaded after the job had listed their organisation
    hasty,     \* organisations somebody joined after the job had counted
    passedBy,  \* organisations whose every member's job has counted, and left them
    lost,      \* deletions whose job, or whose failure's mark, was lost
    faults

rows == <<user, org, file, deletion>>

ghosts == <<late, hasty, passedBy, lost>>

vars == <<rows, provider, session, job, ghosts, faults>>

UserRow ==
    [status : {"none", "active", "marked", "gone"},  \* marked: deletedAt
     sub : Identities \cup {NoIdentity}]

Organization == [exists : BOOLEAN, members : SUBSET Users]

FileObject == [org : Users \cup {NoUser}, row : BOOLEAN, stored : BOOLEAN]

DeletionRequest ==
    [status : {"none", "pending", "processing", "completed", "failed"},
     user : Users \cup {NoUser}]

Session ==
    [step : {"idle", "provision", "start", "mark", "enqueue", "join", "ticket"},
     sub : Identities \cup {NoIdentity},
     user : Users \cup {NoUser},
     org : Users \cup {NoUser},
     deletion : Deletions \cup {NoDeletion}]

NoSession ==
    [step |-> "idle", sub |-> NoIdentity, user |-> NoUser, org |-> NoUser,
     deletion |-> NoDeletion]

Job ==
    [queue : {"none", "waiting", "active", "exhausted"},
     attempts : 0..Attempts,  \* attempts that have thrown
     stalled : BOOLEAN,       \* whether its process has stopped before
     step : {"mark", "find", "list", "objects", "identity", "rows", "complete"},
     orgs : SUBSET Users,     \* personalOrgIds
     left : SUBSET Users,     \* those of them still to be listed
     keys : SUBSET Files]     \* listed and not yet deleted

NoJob ==
    [queue |-> "none", attempts |-> 0, stalled |-> FALSE, step |-> "mark",
     orgs |-> {}, left |-> {}, keys |-> {}]

TypeOK ==
    /\ user \in [Users -> UserRow]
    /\ org \in [Users -> Organization]
    /\ file \in [Files -> FileObject]
    /\ deletion \in [Deletions -> DeletionRequest]
    /\ provider \subseteq Identities
    /\ session \in [Requests -> Session]
    /\ job \in [Deletions -> Job]
    /\ late \subseteq Files
    /\ hasty \subseteq Users
    /\ passedBy \subseteq Users
    /\ lost \subseteq Deletions
    /\ faults \in 0..MaxFaults

Init ==
    /\ user = [u \in Users |-> [status |-> "none", sub |-> NoIdentity]]
    /\ org = [o \in Users |-> [exists |-> FALSE, members |-> {}]]
    /\ file = [f \in Files |-> [org |-> NoUser, row |-> FALSE, stored |-> FALSE]]
    /\ deletion = [d \in Deletions |-> [status |-> "none", user |-> NoUser]]
    /\ provider = Identities
    /\ session = [c \in Requests |-> NoSession]
    /\ job = [d \in Deletions |-> NoJob]
    /\ late = {}
    /\ hasty = {}
    /\ passedBy = {}
    /\ lost = {}
    /\ faults = 0

Fault == faults < MaxFaults /\ faults' = faults + 1

Exists(u) == user[u].status \in {"active", "marked"}

UnmarkedRowsOf(s) == {u \in Users : user[u].status = "active" /\ user[u].sub = s}

RowsOf(s) == {u \in Users : Exists(u) /\ user[u].sub = s}

Leave(c) == session' = [session EXCEPT ![c] = NoSession]

GoTo(c, step) == session' = [session EXCEPT ![c].step = step]

(* Organisations a job has counted the members of, and goes on to delete; *)
(* and those whose files it has listed.                                   *)
Counted == UNION {job[d].orgs : d \in Deletions}

Listed == UNION {job[d].orgs \ job[d].left : d \in Deletions}

-----------------------------------------------------------------------------
(* resolveUser, before every API call                                       *)

(* Somebody has a token of an identity, issued while the provider knew it.  *)
(* A marked account is refused; without a row this is a first login.        *)
Call(c) ==
    /\ session[c] = NoSession
    /\ \E s \in Identities :
        \/ /\ RowsOf(s) = {}
           /\ session' = [session EXCEPT ![c] = [@ EXCEPT !.step = "provision", !.sub = s]]
        \/ \E u \in RowsOf(s) :
            /\ user[u].status = "active"
            /\ session' = [session EXCEPT ![c] = [@ EXCEPT !.step = "start", !.user = u]]
    /\ UNCHANGED <<rows, provider, job, ghosts, faults>>

ProvisionPersonalOrganization(u) ==
    org' = [org EXCEPT ![u] = [exists |-> TRUE, members |-> {u}]]

(* The user, its personal organisation and its membership in a transaction, *)
(* which fails when another window's was first.                             *)
Provision(c) ==
    /\ session[c].step = "provision"
    /\ IF RowsOf(session[c].sub) = {}
       THEN \E u \in Users :
              /\ user[u].status = "none"
              /\ user' = [user EXCEPT ![u] = [status |-> "active", sub |-> session[c].sub]]
              /\ ProvisionPersonalOrganization(u)
              /\ session' = [session EXCEPT ![c] = [NoSession EXCEPT !.step = "start", !.user = u]]
       ELSE Leave(c) /\ UNCHANGED <<user, org>>
    /\ UNCHANGED <<file, deletion, provider, job, ghosts, faults>>

-----------------------------------------------------------------------------
(* What members do meanwhile                                                *)

(* An acceptance, after its checks, goes for the membership; the            *)
(* organisation and the user may be gone by then.                           *)
StartJoin(c) ==
    /\ session[c].step = "start"
    /\ \E o \in Users :
        /\ org[o].exists
        /\ session[c].user \notin org[o].members
        /\ session' = [session EXCEPT ![c].step = "join", ![c].org = o]
    /\ UNCHANGED <<rows, provider, job, ghosts, faults>>

Join(c) ==
    LET o == session[c].org
        u == session[c].user
    IN  /\ session[c].step = "join"
        /\ IF org[o].exists /\ Exists(u)
           THEN /\ org' = [org EXCEPT ![o].members = @ \cup {u}]
                /\ hasty' = hasty \cup ({o} \cap Counted)
           ELSE UNCHANGED <<org, hasty>>
        /\ Leave(c)
        /\ UNCHANGED <<user, file, deletion, provider, job, late, passedBy, lost, faults>>

(* TenantContextGuard refuses a marked account, whose memberships are       *)
(* revoked; then createUploadTicket writes the file's row,                  *)
StartUpload(c) ==
    /\ session[c].step = "start"
    /\ user[session[c].user].status = "active"
    /\ \E o \in Users :
        /\ session[c].user \in org[o].members
        /\ session' = [session EXCEPT ![c].step = "ticket", ![c].org = o]
    /\ UNCHANGED <<rows, provider, job, ghosts, faults>>

CreateUploadTicket(c) ==
    LET o == session[c].org
    IN  /\ session[c].step = "ticket"
        /\ IF org[o].exists
           THEN \E f \in Files :
                  /\ file[f].org = NoUser
                  /\ file' = [file EXCEPT ![f] = [org |-> o, row |-> TRUE, stored |-> FALSE]]
           ELSE UNCHANGED file
        /\ Leave(c)
        /\ UNCHANGED <<user, org, deletion, provider, job, ghosts, faults>>

(* and whoever has the ticket's address puts the object there, unasked. *)
Upload(f) ==
    LET o == file[f].org
    IN  /\ o # NoUser
        /\ file' = [file EXCEPT ![f].stored = TRUE]
        /\ late' = IF o \in Listed \/ ~org[o].exists THEN late \cup {f} ELSE late
        /\ UNCHANGED <<user, org, deletion, provider, session, job, hasty, passedBy, lost, faults>>

-----------------------------------------------------------------------------
(* requestDeletion                                                          *)

CheckDeletion(c) ==
    /\ session[c].step = "start"
    /\ IF user[session[c].user].status = "active" THEN GoTo(c, "mark") ELSE Leave(c)
    /\ UNCHANGED <<rows, provider, job, ghosts, faults>>

(* The request is created and the account marked, in a transaction that     *)
(* does not look at the mark again.                                         *)
MarkDeleted(c) ==
    LET u == session[c].user
    IN  /\ session[c].step = "mark"
        /\ IF Exists(u)
           THEN \E d \in Deletions :
                  /\ deletion[d].status = "none"
                  /\ deletion' = [deletion EXCEPT ![d] = [status |-> "pending", user |-> u]]
                  /\ user' = [user EXCEPT ![u].status = "marked"]
                  /\ session' = [session EXCEPT ![c].step = "enqueue", ![c].deletion = d]
           ELSE Leave(c) /\ UNCHANGED <<user, deletion>>
        /\ UNCHANGED <<org, file, provider, job, ghosts, faults>>

Enqueue(c) ==
    /\ session[c].step = "enqueue"
    /\ job' = [job EXCEPT ![session[c].deletion].queue = "waiting"]
    /\ Leave(c)
    /\ UNCHANGED <<rows, provider, ghosts, faults>>

(* A statement or the queue fails, or the API's process stops. *)
RequestFails(c) ==
    /\ session[c] # NoSession
    /\ Fault
    /\ lost' = IF session[c].step = "enqueue" THEN lost \cup {session[c].deletion} ELSE lost
    /\ Leave(c)
    /\ UNCHANGED <<rows, provider, job, late, hasty, passedBy>>

-----------------------------------------------------------------------------
(* handleAccountDeletion                                                    *)

At(d, step) == job[d].queue = "active" /\ job[d].step = step

Then(d, step) == job' = [job EXCEPT ![d].step = step]

JobDone(d) == job' = [job EXCEPT ![d] = NoJob]

Restarted(d) == [NoJob EXCEPT !.queue = "waiting", !.stalled = job[d].stalled,
                              !.attempts = job[d].attempts]

Exhausted(d) == job[d].attempts + 1 >= Attempts

ForgetsFailure(d) ==
    job' = [job EXCEPT ![d] =
        IF Exhausted(d) THEN NoJob ELSE [Restarted(d) EXCEPT !.attempts = @ + 1]]

(* What was thrown ends the attempt; the last one leads to the failed hook. *)
Throw(d) ==
    job' = [job EXCEPT ![d] =
        IF Exhausted(d) THEN [NoJob EXCEPT !.queue = "exhausted"]
        ELSE [Restarted(d) EXCEPT !.attempts = @ + 1]]

RunJob(d) ==
    /\ job[d].queue = "waiting"
    /\ job' = [job EXCEPT ![d].queue = "active"]
    /\ UNCHANGED <<rows, provider, session, ghosts, faults>>

MarkProcessing(d) ==
    /\ At(d, "mark")
    /\ deletion' = [deletion EXCEPT ![d].status = "processing"]
    /\ Then(d, "find")
    /\ UNCHANGED <<user, org, file, provider, session, ghosts, faults>>

AnyMember(u, members) == u \in members

NoMember(u, members) == members = {}

(* Memberships are counted whatever their status. *)
SoleMember(u, members) == members = {u}

(* findPersonalOrganizationIds: a statement outside of any organisation,    *)
(* which sees no membership where row security is enforced.                 *)
Found(u) ==
    {o \in Users : ~RlsEnforced /\ org[o].exists /\ SoleMember(u, org[o].members)}

(* Whether a job has counted for a member, and will leave the organisation. *)
Leaves(v, o) ==
    \E e \in Deletions :
        /\ deletion[e].user = v
        /\ job[e].queue = "active"
        /\ job[e].step \notin {"mark", "find"}
        /\ o \notin job[e].orgs

(* Whether it sees somebody else in it, who leaves too, or no membership. *)
PassesBy(u, o) ==
    /\ u \in org[o].members
    /\ RlsEnforced \/ org[o].members # {u}
    /\ \A v \in org[o].members \ {u} : Leaves(v, o)

FindOrganizations(d) ==
    LET u == deletion[d].user
    IN  /\ At(d, "find")
        /\ job' = [job EXCEPT ![d] =
             [@ EXCEPT !.step = IF Found(u) = {} THEN "identity" ELSE "list",
                       !.orgs = Found(u), !.left = Found(u)]]
        /\ passedBy' = passedBy \cup {o \in Users : PassesBy(u, o)}
        /\ UNCHANGED <<rows, provider, session, late, hasty, lost, faults>>

(* deleteStorageObjects, for one organisation after the other: whatever a   *)
(* row's status, its object is deleted,                                     *)
ListFiles(d) ==
    /\ At(d, "list")
    /\ \E o \in job[d].left :
        job' = [job EXCEPT ![d].step = "objects", ![d].left = @ \ {o},
                           ![d].keys = {f \in Files : file[f].org = o /\ file[f].row}]
    /\ UNCHANGED <<rows, provider, session, ghosts, faults>>

DeleteObject(d) ==
    /\ At(d, "objects")
    /\ \E f \in job[d].keys :
        /\ file' = [file EXCEPT ![f].stored = FALSE]
        /\ job' = [job EXCEPT ![d].keys = @ \ {f}]
    /\ UNCHANGED <<user, org, deletion, provider, session, ghosts, faults>>

ObjectsDone(d) ==
    /\ At(d, "objects")
    /\ job[d].keys = {}
    /\ Then(d, IF job[d].left = {} THEN "identity" ELSE "list")
    /\ UNCHANGED <<rows, provider, session, ghosts, faults>>

(* deleteAuth0User: an identity the provider no longer knows is as good as  *)
(* deleted; the answer may be lost.                                         *)
DeleteIdentity(d) ==
    /\ At(d, "identity")
    /\ provider' = provider \ {user[deletion[d].user].sub}
    /\ \/ Then(d, "rows") /\ UNCHANGED faults
       \/ Fault /\ Throw(d)
    /\ UNCHANGED <<rows, session, ghosts>>

(* The organisations and the user with all that refers to them, in one      *)
(* transaction, which fails without the user's row.                         *)
DeleteRows(d) ==
    LET u == deletion[d].user
        orgs == job[d].orgs
    IN  /\ At(d, "rows")
        /\ IF Exists(u)
           THEN /\ user' = [user EXCEPT ![u].status = "gone"]
                /\ org' = [o \in Users |->
                     IF o \in orgs THEN [exists |-> FALSE, members |-> {}]
                     ELSE [org[o] EXCEPT !.members = @ \ {u}]]
                /\ file' = [f \in Files |->
                     IF file[f].org \in orgs THEN [file[f] EXCEPT !.row = FALSE] ELSE file[f]]
                /\ Then(d, "complete")
           ELSE Throw(d) /\ UNCHANGED <<user, org, file>>
        /\ UNCHANGED <<deletion, provider, session, ghosts, faults>>

Complete(d) ==
    /\ At(d, "complete")
    /\ deletion' = [deletion EXCEPT ![d].status = "completed"]
    /\ JobDone(d)
    /\ UNCHANGED <<user, org, file, provider, session, ghosts, faults>>

(* An error of storage is taken for an object that is not there. *)
SkipsObject(d) ==
    IF At(d, "objects") /\ job[d].keys # {}
    THEN \E f \in job[d].keys : job' = [job EXCEPT ![d].keys = @ \ {f}]
    ELSE Throw(d)

(* The transaction's error is caught, and the deletion goes on. *)
SwallowsRows(d) == IF At(d, "rows") THEN Then(d, "complete") ELSE Throw(d)

(* A statement, storage or the provider fails. *)
StepFails(d) == Throw(d)

AttemptFails(d) ==
    /\ job[d].queue = "active"
    /\ Fault
    /\ StepFails(d)
    /\ UNCHANGED <<rows, provider, session, ghosts>>

(* The worker's process stops; the queue hands the job out again, once, and *)
(* tells the hook nothing the second time.                                  *)
WorkerStops(d) ==
    /\ job[d].queue = "active"
    /\ IF job[d].stalled
       THEN JobDone(d) /\ lost' = lost \cup {d} /\ UNCHANGED faults
       ELSE /\ Fault
            /\ job' = [job EXCEPT ![d] = [Restarted(d) EXCEPT !.stalled = TRUE]]
            /\ UNCHANGED lost
    /\ UNCHANGED <<rows, provider, session, late, hasty, passedBy>>

(* handleAccountDeletionFailure, whose own failure is only logged. *)
MarkFailed(d) ==
    /\ job[d].queue = "exhausted"
    /\ \/ deletion' = [deletion EXCEPT ![d].status = "failed"] /\ UNCHANGED <<lost, faults>>
       \/ Fault /\ lost' = lost \cup {d} /\ UNCHANGED deletion
    /\ JobDone(d)
    /\ UNCHANGED <<user, org, file, provider, session, late, hasty, passedBy>>

-----------------------------------------------------------------------------

WorkerStep(d) ==
    \/ RunJob(d)
    \/ MarkProcessing(d)
    \/ FindOrganizations(d)
    \/ ListFiles(d)
    \/ DeleteObject(d)
    \/ ObjectsDone(d)
    \/ DeleteIdentity(d)
    \/ DeleteRows(d)
    \/ Complete(d)
    \/ MarkFailed(d)

Next ==
    \/ \E c \in Requests :
        \/ Call(c)
        \/ Provision(c)
        \/ StartJoin(c)
        \/ Join(c)
        \/ StartUpload(c)
        \/ CreateUploadTicket(c)
        \/ CheckDeletion(c)
        \/ MarkDeleted(c)
        \/ Enqueue(c)
        \/ RequestFails(c)
    \/ \E f \in Files : Upload(f)
    \/ \E d \in Deletions :
        \/ WorkerStep(d)
        \/ AttemptFails(d)
        \/ WorkerStops(d)

Spec == Init /\ [][Next]_vars

-----------------------------------------------------------------------------
(* Properties                                                               *)

(* docs/privacy/deletion.md, the reasons of the order: when the rows are    *)
(* gone, so are the identity, with which somebody could log in again, and   *)
(* the objects only the rows led to, but for those uploaded after they had  *)
(* been listed.                                                             *)
RowsGoLast ==
    /\ \A u \in Users : user[u].status = "gone" => user[u].sub \notin provider
    /\ \A f \in Files : file[f].stored /\ ~file[f].row => f \in late

(* markRequest: a request that says completed is the proof of a deletion:   *)
(* the user's row is gone and no organisation counts it among its members,  *)
(* whatever other deletions, joins and failures came between.               *)
CompletedMeansGone ==
    \A d \in Deletions : deletion[d].status = "completed" =>
        LET u == deletion[d].user
        IN  user[u].status = "gone" /\ \A o \in Users : u \notin org[o].members

(* handleAccountDeletion: an organisation is left with nobody in it only    *)
(* where a deletion, when it counted, found nobody else in it but people    *)
(* whose own deletions had counted before and meant to leave it, or was     *)
(* shown no membership at all.                                              *)
EmptyWerePassedBy ==
    \A o \in Users : org[o].exists /\ org[o].members = {} => o \in passedBy

(* findPersonalOrganizationIds: an organisation with somebody else in it is *)
(* not deleted, unless that member joined while its deletion was under way. *)
OthersKeepTheirOrganization ==
    [][\A o \in Users \ hasty :
        org[o].exists /\ ~org'[o].exists => \A u \in org[o].members : user'[u].status = "gone"]_vars

(* handleAccountDeletionFailure and docs/privacy/deletion.md: a deletion    *)
(* that was requested has a job that goes on with it, until it is completed *)
(* or handed to a person as failed; unless the job was lost with its call   *)
(* or a second stop, or the failure's mark failed.                          *)
NoDeletionIsForgotten ==
    \A d \in Deletions \ lost : deletion[d].status \in {"pending", "processing"} =>
        \/ job[d].queue # "none"
        \/ \E c \in Requests : session[c].step = "enqueue" /\ session[c].deletion = d

(* resolveUser, docs/privacy/deletion.md: while a deletion is under way,    *)
(* the row that is still there keeps its owner out, identity or not.  Who   *)
(* is let in with a token of a deleted identity has lost that row before.   *)
LetInOnlyWhenGone ==
    \A u \in Users : user[u].status = "active" /\ user[u].sub \notin provider =>
        \E former \in Users : user[former].status = "gone" /\ user[former].sub = user[u].sub

-----------------------------------------------------------------------------
(* What comments say, and the code does not do                              *)

(* docs/privacy/deletion.md and resolveUser: who is deleted is not revived  *)
(* by a token that is still valid.  But when the row is gone, that token    *)
(* makes a first login.                                                     *)
DeletedIsNotRevived ==
    \A u \in Users : user[u].status = "active" => user[u].sub \in provider

(* findPersonalOrganizationIds and docs/privacy/deletion.md: a personal     *)
(* organisation goes with its only member.  But the deletions of two        *)
(* members, in two processes, each count the other and both leave it; and   *)
(* under row security no deletion finds any.                                *)
EmptyOrganizationsGo ==
    \A o \in Users : org[o].exists => org[o].members # {}

(* handleAccountDeletion: a retry after a partial success does not fail.    *)
(* But without the user's row the transaction throws, so that a deletion    *)
(* that was done is reported failed after one fault, or after none when it  *)
(* was requested twice.                                                     *)
RetriesDoNotFail ==
    \A d \in Deletions : deletion[d].status = "failed" => faults >= Attempts
=============================================================================
