-------------------------------- MODULE Teams --------------------------------
(***************************************************************************)
(* Seats and invitations of one organisation: create, revoke and accept of *)
(* apps/api/src/teams/invitations.service.ts, start of employee-import.    *)
(* service.ts with the worker's teams/import-handler.ts, offboard and      *)
(* reinstate of members.service.ts.                                        *)
(*                                                                         *)
(* Seats are counted in two reads and taken in a later transaction, so     *)
(* requests overlap with each other and with imports.  The queue's         *)
(* concurrency of one is each process's own, so imports overlap where      *)
(* several processes run; and a process that stalls loses its job, which   *)
(* the queue hands to another, without always ending what it was doing.    *)
(***************************************************************************)
EXTENDS Naturals, FiniteSets

CONSTANTS
    People,       \* somebody with an e-mail address, and perhaps a membership
    Owner,        \* the member who cannot be offboarded
    Invitations,  \* rows of invitations
    Requests,     \* windows of a client, with the API call each makes
    Imports,      \* rows of employee_imports
    Workers,      \* worker processes
    RowsOf,       \* the people an import's file names
    Limit,        \* maxMembers of the plan
    Attempts,     \* attempts of the import's job
    MaxOffs,      \* bound: how often somebody is offboarded
    MaxStops,     \* bound: how often a run is cut short or loses its job
    Nobody, NoInvitation, NoImport

ASSUME TeamsAssumption ==
    /\ IsFiniteSet(People)
    /\ IsFiniteSet(Invitations)
    /\ Owner \in People
    /\ RowsOf \in [Imports -> SUBSET People]
    /\ Limit \in Nat \ {0}
    /\ Attempts \in Nat \ {0}
    /\ MaxOffs \in Nat
    /\ MaxStops \in Nat
    /\ Nobody \notin People
    /\ NoInvitation \notin Invitations
    /\ NoImport \notin Imports
    /\ Requests \cap Workers = {}

VARIABLES
    member,      \* organization_memberships
    invitation,  \* invitations
    request,     \* a creation or an acceptance under way
    job,         \* the job of an import
    run,         \* the import each worker is at, and the row of the file in hand
    overtaken,   \* writers of invitations to people written to since they looked
    blind,       \* invitations a person was written by such a writer
    contested,   \* invitations that ended while they were being accepted
    excused,     \* a seat was taken in a way the count does not cover
    offs, stops

vars ==
    <<member, invitation, request, job, run, overtaken, blind, contested, excused, offs, stops>>

Invitation ==
    [status : {"none", "pending", "accepted", "revoked"},
     email : People \cup {Nobody},
     expired : BOOLEAN]

Request ==
    [kind : {"none", "create", "accept"},
     step : {"idle", "members", "pending", "write", "insert"},
     person : People \cup {Nobody},
     invitation : Invitations \cup {NoInvitation},
     used : Nat,                       \* active members as counted
     earlier : SUBSET Invitations]     \* pending ones the transaction revokes

NoRequest ==
    [kind |-> "none", step |-> "idle", person |-> Nobody, invitation |-> NoInvitation,
     used |-> 0, earlier |-> {}]

(* The row's own status is only shown. *)
Job ==
    [queue : {"none", "waiting", "active", "over"},
     attempts : 0..Attempts,
     stalled : BOOLEAN]

NoJob == [queue |-> "none", attempts |-> 0, stalled |-> FALSE]

JobOver == [NoJob EXCEPT !.queue = "over"]

Run ==
    [import : Imports \cup {NoImport},
     holds : BOOLEAN,  \* the job's lock
     left : SUBSET People,
     step : {"idle", "next", "look", "create"},
     person : People \cup {Nobody}]

NoRun ==
    [import |-> NoImport, holds |-> FALSE, left |-> {}, step |-> "idle", person |-> Nobody]

Init ==
    /\ member = [p \in People |-> IF p = Owner THEN "active" ELSE "none"]
    /\ invitation = [i \in Invitations |->
         [status |-> "none", email |-> Nobody, expired |-> FALSE]]
    /\ request = [c \in Requests |-> NoRequest]
    /\ job = [j \in Imports |-> NoJob]
    /\ run = [w \in Workers |-> NoRun]
    /\ overtaken = {}
    /\ blind = [p \in People |-> 0]
    /\ contested = {}
    /\ excused = FALSE
    /\ offs = 0
    /\ stops = 0

Active == {p \in People : member[p] = "active"}

Pending == {i \in Invitations : invitation[i].status = "pending"}

Valid == {i \in Pending : ~invitation[i].expired}

ValidFor(p) == {i \in Valid : invitation[i].email = p}

Accepting == {c \in Requests : request[c].kind = "accept"}

BeingAccepted == {request[c].invitation : c \in Accepting}

(* What ends while it is being accepted, or is cut off by its expiry. *)
Contest(is) ==
    /\ contested' = contested \cup (is \cap BeingAccepted)
    /\ excused' = (excused \/ is \cap BeingAccepted # {})

Leave(c) == request' = [request EXCEPT ![c] = NoRequest]

imports == <<job, run, overtaken, blind>>

-----------------------------------------------------------------------------
(* assertSeatAvailable, in two reads                                        *)

CountMembers(c) ==
    /\ request[c].step = "members"
    /\ request' = [request EXCEPT ![c].step = "pending", ![c].used = Cardinality(Active)]
    /\ UNCHANGED <<member, invitation, imports, contested, excused, offs, stops>>

(* Whether what counts fits into the plan. *)
MembersFit(c, extra) == request[c].used + extra <= Limit

SeatsFit(c, extra) == request[c].used + Cardinality(Valid) + extra <= Limit

(* A creation also asks whether the person is a member already. *)
CountPending(c) ==
    /\ request[c].step = "pending"
    /\ IF \/ request[c].kind = "create" /\ SeatsFit(c, 1) /\ request[c].person \notin Active
          \/ request[c].kind = "accept" /\ SeatsFit(c, 0)
       THEN request' = [request EXCEPT ![c].step = "write", ![c].used = 0]
       ELSE Leave(c)
    /\ UNCHANGED <<member, invitation, imports, contested, excused, offs, stops>>

-----------------------------------------------------------------------------
(* create                                                                   *)

(* Members are the first thing it looks at; the owner is always one. *)
StartCreate(c, p) ==
    /\ request[c] = NoRequest
    /\ p # Owner
    /\ request' = [request EXCEPT ![c] =
         [NoRequest EXCEPT !.kind = "create", !.step = "pending", !.person = p,
                           !.used = Cardinality(Active)]]
    /\ UNCHANGED <<member, invitation, imports, contested, excused, offs, stops>>

Unused == {i \in Invitations : invitation[i].status = "none"}

(* Which identity a new row gets makes no difference. *)
Fresh == CHOOSE i \in Unused : TRUE

New(p) == [status |-> "pending", email |-> p, expired |-> FALSE]

(* Who has looked at a person's invitations and will write another. *)
WritingTo(p) ==
    {c \in Requests : request[c].step = "insert" /\ request[c].person = p}
    \cup {w \in Workers : run[w].step = "create" /\ run[w].person = p}

(* A writer writes: the others have been overtaken. *)
WritesTo(p, writer) ==
    /\ overtaken' = (overtaken \cup WritingTo(p)) \ {writer}
    /\ blind' = IF writer \in overtaken THEN [blind EXCEPT ![p] = @ + 1] ELSE blind

EarlierFor(p) == {i \in Pending : invitation[i].email = p}

(* The transaction looks for earlier invitations, seeing what is committed, *)
RevokeEarlier(c) ==
    /\ request[c].kind = "create"
    /\ request[c].step = "write"
    /\ request' = [request EXCEPT ![c].step = "insert",
                                  ![c].earlier = EarlierFor(request[c].person)]
    /\ UNCHANGED <<member, invitation, imports, contested, excused, offs, stops>>

(* revokes them, writes the new one and commits. *)
InsertInvitation(c) ==
    /\ request[c].step = "insert"
    /\ LET p == request[c].person
           ended == request[c].earlier \cap Pending
       IN  /\ Unused # {}
           /\ invitation' = [i \in Invitations |->
                IF i = Fresh THEN New(p)
                ELSE IF i \in ended THEN [invitation[i] EXCEPT !.status = "revoked"]
                ELSE invitation[i]]
           /\ WritesTo(p, c)
           /\ Contest(ended)
    /\ Leave(c)
    /\ UNCHANGED <<member, job, run, offs, stops>>

-----------------------------------------------------------------------------
(* revoke, and the passing of fourteen days                                 *)

Revoke(i) ==
    /\ i \in Pending
    /\ invitation' = [invitation EXCEPT ![i].status = "revoked"]
    /\ Contest({i})
    /\ UNCHANGED <<member, request, imports, offs, stops>>

Expire(i) ==
    /\ i \in Valid
    /\ invitation' = [invitation EXCEPT ![i].expired = TRUE]
    /\ Contest({i})
    /\ UNCHANGED <<member, request, imports, offs, stops>>

-----------------------------------------------------------------------------
(* accept                                                                   *)

AcceptableWhateverAge(i) == i \in Pending

(* lookup by the token, and the checks of what it returned. *)
Acceptable(i) == i \in Valid

StartAccept(c, i) ==
    /\ request[c] = NoRequest
    /\ Acceptable(i)
    /\ request' = [request EXCEPT ![c] =
         [NoRequest EXCEPT !.kind = "accept", !.step = "members", !.invitation = i,
                           !.person = invitation[i].email]]
    /\ excused' = (excused \/ Accepting # {})
    /\ UNCHANGED <<member, invitation, imports, contested, offs, stops>>

(* upsertMembership, and the invitation is marked by identity. *)
Join(c) ==
    /\ request[c].kind = "accept"
    /\ request[c].step = "write"
    /\ member' = [member EXCEPT ![request[c].person] = "active"]
    /\ invitation' = [invitation EXCEPT ![request[c].invitation].status = "accepted"]
    /\ Leave(c)
    /\ UNCHANGED <<imports, contested, excused, offs, stops>>

-----------------------------------------------------------------------------
(* offboard and reinstate                                                   *)

Offboard(p) ==
    /\ p # Owner
    /\ member[p] = "active"
    /\ offs < MaxOffs
    /\ offs' = offs + 1
    /\ member' = [member EXCEPT ![p] = "revoked"]
    /\ UNCHANGED <<invitation, request, imports, contested, excused, stops>>

(* No seat is counted. *)
Reinstate(p) ==
    /\ member[p] = "revoked"
    /\ member' = [member EXCEPT ![p] = "active"]
    /\ excused' = TRUE
    /\ UNCHANGED <<invitation, request, imports, contested, offs, stops>>

-----------------------------------------------------------------------------
(* The import                                                               *)

(* start: members are counted, invitations are not; the job may not reach   *)
(* the queue.                                                               *)
StartImport(j) ==
    /\ job[j] = NoJob
    /\ Cardinality(Active) + Cardinality(RowsOf[j]) <= Limit
    /\ \E started \in {[NoJob EXCEPT !.queue = "waiting"], JobOver} :
         job' = [job EXCEPT ![j] = started]
    /\ UNCHANGED <<member, invitation, request, run, overtaken, blind, contested, excused,
                   offs, stops>>

(* What a run leaves alone but for the invitations it writes. *)
others == <<member, request, contested, excused, offs>>

RunImport(w, j) ==
    /\ run[w] = NoRun
    /\ job[j].queue = "waiting"
    /\ job' = [job EXCEPT ![j].queue = "active", ![j].attempts = @ + 1]
    /\ run' = [run EXCEPT ![w] = [NoRun EXCEPT
         !.import = j, !.holds = TRUE, !.left = RowsOf[j], !.step = "next"]]
    /\ UNCHANGED <<others, invitation, overtaken, blind, stops>>

RowDone(w) ==
    run' = [run EXCEPT ![w].step = "next", ![w].person = Nobody,
                       ![w].left = @ \ {run[w].person}]

TakeRow(w) ==
    /\ run[w].step = "next"
    /\ \E p \in run[w].left :
         run' = [run EXCEPT ![w].step = "look", ![w].person = p]
    /\ UNCHANGED <<others, invitation, job, overtaken, blind, stops>>

Missing(p) == p \notin Active

(* Whether a row's person needs an invitation. *)
NeedsInvitation(p) == Missing(p) /\ ValidFor(p) = {}

LookUp(w) ==
    /\ run[w].step = "look"
    /\ IF NeedsInvitation(run[w].person)
       THEN run' = [run EXCEPT ![w].step = "create"]
       ELSE RowDone(w)
    /\ UNCHANGED <<others, invitation, job, overtaken, blind, stops>>

CreateInvitation(w) ==
    /\ run[w].step = "create"
    /\ Unused # {}
    /\ invitation' = [invitation EXCEPT ![Fresh] = New(run[w].person)]
    /\ WritesTo(run[w].person, w)
    /\ RowDone(w)
    /\ UNCHANGED <<others, job, stops>>

(* A row's error is recorded, and the next row's turn comes. *)
RowFails(w) ==
    /\ run[w].step \in {"look", "create"}
    /\ RowDone(w)
    /\ overtaken' = overtaken \ {w}
    /\ UNCHANGED <<others, invitation, job, blind, stops>>

(* The queue lets only the holder of the lock end the job. *)
FinishImport(w) ==
    LET j == run[w].import
    IN  /\ run[w].step = "next"
        /\ run[w].left = {}
        /\ IF run[w].holds THEN job' = [job EXCEPT ![j] = JobOver] ELSE UNCHANGED job
        /\ run' = [run EXCEPT ![w] = NoRun]
        /\ UNCHANGED <<others, invitation, overtaken, blind, stops>>

Exhausted(j) == job[j].attempts >= Attempts

(* Something outside the rows' own try throws: the job is tried again, or   *)
(* has failed.                                                              *)
RunThrows(w) ==
    LET j == run[w].import
    IN  /\ run[w].step # "idle"
        /\ stops < MaxStops
        /\ stops' = stops + 1
        /\ IF ~run[w].holds THEN UNCHANGED job
           ELSE IF Exhausted(j) THEN job' = [job EXCEPT ![j] = JobOver]
           ELSE job' = [job EXCEPT ![j].queue = "waiting"]
        /\ run' = [run EXCEPT ![w] = NoRun]
        /\ overtaken' = overtaken \ {w}
        /\ UNCHANGED <<others, invitation, blind>>

(* The process stops, or is too busy to renew its lock and goes on without. *)
(* The queue hands the job out again, which counts as no attempt, and gives *)
(* it up the second time.                                                   *)
LosesJob(w) ==
    LET j == run[w].import
    IN  /\ run[w].holds
        /\ stops < MaxStops
        /\ stops' = stops + 1
        /\ job' = [job EXCEPT ![j] =
             IF @.stalled THEN JobOver
             ELSE [queue |-> "waiting", attempts |-> @.attempts - 1, stalled |-> TRUE]]
        /\ \/ /\ run' = [run EXCEPT ![w] = NoRun]
              /\ overtaken' = overtaken \ {w}
           \/ /\ run' = [run EXCEPT ![w].holds = FALSE]
              /\ UNCHANGED overtaken
        /\ UNCHANGED <<others, invitation, blind>>

-----------------------------------------------------------------------------

RunStep(w) ==
    \/ \E j \in Imports : RunImport(w, j)
    \/ TakeRow(w)
    \/ LookUp(w)
    \/ CreateInvitation(w)
    \/ RowFails(w)
    \/ FinishImport(w)
    \/ RunThrows(w)
    \/ LosesJob(w)

Next ==
    \/ \E c \in Requests :
        \/ \E p \in People : StartCreate(c, p)
        \/ \E i \in Invitations : StartAccept(c, i)
        \/ CountMembers(c)
        \/ CountPending(c)
        \/ RevokeEarlier(c)
        \/ InsertInvitation(c)
        \/ Join(c)
    \/ \E i \in Invitations : Revoke(i) \/ Expire(i)
    \/ \E p \in People : Offboard(p) \/ Reinstate(p)
    \/ \E j \in Imports : StartImport(j)
    \/ \E w \in Workers : RunStep(w)

Spec == Init /\ [][Next]_vars

-----------------------------------------------------------------------------
(* Properties                                                               *)

(* Every row and every local holds a value of its type. *)
TypeOK ==
    /\ member \in [People -> {"none", "active", "revoked"}]
    /\ invitation \in [Invitations -> Invitation]
    /\ request \in [Requests -> Request]
    /\ job \in [Imports -> Job]
    /\ run \in [Workers -> Run]
    /\ overtaken \in SUBSET (Requests \cup Workers)
    /\ blind \in [People -> Nat]
    /\ contested \in SUBSET Invitations
    /\ excused \in BOOLEAN
    /\ offs \in 0..MaxOffs
    /\ stops \in 0..MaxStops

(* docs/teams/structure.md, 7: whatever creations raced for the last seat   *)
(* and whatever an import added without counting what was pending, the plan *)
(* is not outgrown; unless acceptances overlap, an invitation ends while it *)
(* is accepted, or a member is reinstated, which counts nothing.            *)
MembersWithinLimit == excused \/ Cardinality(Active) <= Limit

(* create and importRow: a person has one valid link, and one more for      *)
(* every invitation whose writer had been overtaken by another between its  *)
(* look and its write.  Nothing else adds a link: not an import that throws *)
(* or stalls and is run again from its first row, after its first run or    *)
(* beside it, nor a request that comes before, after or between.            *)
ExtraLinksWereBlind == \A p \in People : Cardinality(ValidFor(p)) <= 1 + blind[p]

(* The comment above revoke: a link that was withdrawn, replaced or has     *)
(* expired lets nobody in, unless it ended while it was being accepted.     *)
LinkDiesWithInvitation ==
    [][\A i \in Invitations :
         invitation'[i].status = "accepted" /\ invitation[i].status # "accepted"
           => i \in Valid \cup contested]_invitation

-----------------------------------------------------------------------------
(* What docs and comments say, and the code does not do                     *)

(* docs/teams/structure.md, 3: pending invitations count, so that those who *)
(* are invited do not find the plan full when they accept.                  *)
InviteesFindASeat == excused \/ Cardinality(Active) + Cardinality(Valid) <= Limit

(* invitations.service.ts, in create: an earlier invitation is revoked, for *)
(* with two valid links to one person the withdrawal of one would not keep  *)
(* that person out; and main.ts, beside the queue's worker: one import at a *)
(* time, or the look for a pending invitation passes in both.  Processes    *)
(* run side by side, and so does a stalled run beside the one after it.     *)
OneValidLink == \A p \in People : Cardinality(ValidFor(p)) <= 1
=============================================================================
