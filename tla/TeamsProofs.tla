----------------------------- MODULE TeamsProofs -----------------------------
(***************************************************************************)
(* Seats and invitations for any number of people, requests, imports and   *)
(* workers: a link dies with its invitation, a person has one valid link   *)
(* and one more for each overtaken writer, and the plan is not outgrown.   *)
(***************************************************************************)
EXTENDS Teams, FiniteSetTheorems, TLAPS

(* One run holds the lock of a job that is at work, whose attempt has been  *)
(* counted and is not used up while it waits; whoever is at a row of a file *)
(* knows the import and the person.                                         *)
RunsHold ==
    /\ \A j \in Imports :
         /\ job[j].queue = "active" => job[j].attempts > 0
         /\ job[j].queue = "waiting" => job[j].attempts < Attempts
    /\ \A w \in Workers :
         /\ run[w].step # "idle" => run[w].import \in Imports
         /\ run[w].step \in {"look", "create"} => run[w].person \in People
         /\ run[w].holds => run[w].step # "idle" /\ job[run[w].import].queue = "active"
    /\ \A v, w \in Workers :
         run[v].holds /\ run[w].holds /\ run[v].import = run[w].import => v = w

(* An acceptance holds an invitation that is valid, has been accepted, or   *)
(* ended under it.                                                          *)
Settled(i) == i \in Valid \cup contested \/ invitation[i].status = "accepted"

Holds(c) ==
    /\ request[c].kind = "none" => request[c] = NoRequest
    /\ request[c].kind = "create" =>
         request[c].step \in {"pending", "write", "insert"} /\ request[c].person \in People
    /\ request[c].kind = "accept" =>
         /\ request[c].step \in {"members", "pending", "write"}
         /\ request[c].person \in People
         /\ request[c].invitation \in Invitations
         /\ Settled(request[c].invitation)

(* A valid invitation names somebody. *)
RequestsHoldInvitations ==
    /\ \A c \in Requests : Holds(c)
    /\ \A i \in Valid : invitation[i].email \in People

(* What a writer nobody overtook has seen of a person's links still covers  *)
(* them all, and there are no more than the overtaken ones account for.     *)
LinksAreSeen(p) ==
    /\ Cardinality(ValidFor(p)) <= 1 + blind[p]
    /\ \A c \in Requests \ overtaken :
         request[c].step = "insert" /\ request[c].person = p
           => ValidFor(p) \subseteq request[c].earlier
    /\ \A w \in Workers \ overtaken :
         run[w].step = "create" /\ run[w].person = p => ValidFor(p) = {}

(* Only who is about to write can have been overtaken. *)
OvertakenWrite ==
    /\ \A c \in Requests \cap overtaken : request[c].step = "insert"
    /\ \A w \in Workers \cap overtaken : run[w].step = "create"

LinksAreExplained ==
    /\ OvertakenWrite
    /\ \A p \in People : LinksAreSeen(p)

(* Nothing happened the count does not cover: one acceptance at a time,     *)
(* whose seat was counted as that of its invitation.                        *)
SeatsAreCounted ==
    ~excused =>
        /\ Cardinality(Active) <= Limit
        /\ \A c, d \in Accepting : c = d
        /\ \A c \in Accepting :
             /\ request[c].invitation \in Valid
             /\ request[c].step = "pending" => Cardinality(Active) <= request[c].used
             /\ request[c].step = "write" => Cardinality(Active) + 1 <= Limit

IInv ==
    /\ TypeOK
    /\ RunsHold
    /\ RequestsHoldInvitations
    /\ LinksAreExplained
    /\ SeatsAreCounted

-----------------------------------------------------------------------------
(* Types                                                                    *)

LEMMA NothingUnderWay ==
    NoRequest \in Request /\ NoJob \in Job /\ JobOver \in Job /\ NoRun \in Run
<1>1. NoRequest \in Request /\ NoRun \in Run
  BY TeamsAssumption DEF NoRequest, Request, NoRun, Run
<1>2. NoJob \in Job
  BY TeamsAssumption DEF NoJob, Job
<1>3. [NoJob EXCEPT !.queue = "over"] \in Job
  BY <1>2 DEF Job
<1> QED
  BY <1>1, <1>2, <1>3 DEF JobOver

LEMMA ActiveIsCounted ==
    IsFiniteSet(Active) /\ Cardinality(Active) \in Nat
<1>1. Active \in SUBSET People
  BY DEF Active
<1> QED
  BY <1>1, TeamsAssumption, FS_Subset, FS_CardinalityType

LEMMA FreshIsUnused ==
    ASSUME Unused # {}
    PROVE  Fresh \in Invitations /\ invitation[Fresh].status = "none"
<1>1. Fresh \in Unused
  BY DEF Fresh
<1> QED
  BY <1>1 DEF Unused

(* What the end of a row does to its run, and to no other. *)
LEMMA RowDoneKeeps ==
    ASSUME run \in [Workers -> Run], NEW w \in Workers, RowDone(w)
    PROVE  /\ run' \in [Workers -> Run]
           /\ \A v \in Workers \ {w} : run'[v] = run[v]
           /\ run'[w].step = "next"
           /\ run'[w].import = run[w].import
           /\ run'[w].holds = run[w].holds
<1> DEFINE after == [run[w] EXCEPT !.step = "next", !.person = Nobody,
                                   !.left = @ \ {run[w].person}]
<1>1. run[w] \in Run
  OBVIOUS
<1>2. /\ after \in Run
      /\ after.step = "next" /\ after.import = run[w].import
      /\ after.holds = run[w].holds
  BY <1>1 DEF Run
<1>3. run' = [run EXCEPT ![w] = after]
  BY <1>1 DEF RowDone, Run
<1> HIDE DEF after
<1> QED
  BY <1>2, <1>3

(* What a worker's step does to its run, and to no other. *)
LEMMA RunMoves ==
    ASSUME run \in [Workers -> Run], RunsHold, NEW w \in Workers, RunStep(w)
    PROVE  /\ run' \in [Workers -> Run]
           /\ \A v \in Workers \ {w} : run'[v] = run[v]
           /\ \/ /\ run'[w].import = run[w].import
                 /\ run[w].step # "idle" /\ run'[w].step # "idle"
                 /\ run'[w].step \in {"look", "create"} => run'[w].person \in People
                 /\ \/ run'[w].holds = run[w].holds /\ job' = job
                    \/ ~run'[w].holds /\ LosesJob(w)
              \/ run'[w] = NoRun
              \/ /\ run'[w].step = "next" /\ run'[w].holds
                 /\ RunImport(w, run'[w].import) /\ run'[w].import \in Imports
<1>0. run[w] \in Run
  OBVIOUS
<1>1. ASSUME NEW j \in Imports, RunImport(w, j)
      PROVE  /\ run' \in [Workers -> Run]
             /\ \A v \in Workers \ {w} : run'[v] = run[v]
             /\ run'[w].step = "next" /\ run'[w].holds /\ run'[w].import = j
  <2> DEFINE after == [NoRun EXCEPT !.import = j, !.holds = TRUE, !.left = RowsOf[j],
                                    !.step = "next"]
  <2>1. RowsOf[j] \in SUBSET People
    BY TeamsAssumption
  <2>2. after \in Run /\ after.step = "next" /\ after.holds /\ after.import = j
    BY <2>1, NothingUnderWay DEF Run, NoRun
  <2>3. run' = [run EXCEPT ![w] = after]
    BY <1>1 DEF RunImport
  <2> HIDE DEF after
  <2> QED
    BY <2>2, <2>3
<1>2. ASSUME TakeRow(w)
      PROVE  /\ run' \in [Workers -> Run]
             /\ \A v \in Workers \ {w} : run'[v] = run[v]
             /\ run'[w].import = run[w].import /\ run'[w].holds = run[w].holds /\ job' = job
             /\ run[w].step = "next" /\ run'[w].step = "look" /\ run'[w].person \in People
  <2>1. PICK p \in run[w].left : run' = [run EXCEPT ![w].step = "look", ![w].person = p]
    BY <1>2 DEF TakeRow
  <2> DEFINE after == [run[w] EXCEPT !.step = "look", !.person = p]
  <2>2. p \in People
    BY <1>0, <2>1 DEF Run
  <2>3. /\ after \in Run /\ after.import = run[w].import /\ after.holds = run[w].holds
        /\ after.step = "look" /\ after.person = p
    BY <1>0, <2>2 DEF Run
  <2>4. run' = [run EXCEPT ![w] = after]
    BY <1>0, <2>1 DEF Run
  <2> HIDE DEF after
  <2> QED
    BY <1>2, <2>2, <2>3, <2>4 DEF TakeRow
<1>3. ASSUME LookUp(w), ~RowDone(w)
      PROVE  /\ run' \in [Workers -> Run]
             /\ \A v \in Workers \ {w} : run'[v] = run[v]
             /\ run'[w].import = run[w].import /\ run'[w].holds = run[w].holds /\ job' = job
             /\ run[w].step = "look" /\ run'[w].step = "create" /\ run'[w].person \in People
  <2> DEFINE after == [run[w] EXCEPT !.step = "create"]
  <2>1. run[w].person \in People
    BY <1>3 DEF LookUp, RunsHold
  <2>2. /\ after \in Run /\ after.import = run[w].import /\ after.holds = run[w].holds
        /\ after.step = "create" /\ after.person = run[w].person
    BY <1>0 DEF Run
  <2>3. run' = [run EXCEPT ![w] = after]
    BY <1>0, <1>3 DEF LookUp, Run
  <2> HIDE DEF after
  <2> QED
    BY <1>3, <2>1, <2>2, <2>3 DEF LookUp
<1>4. ASSUME RowDone(w), LookUp(w) \/ CreateInvitation(w) \/ RowFails(w)
      PROVE  run[w].step # "idle" /\ job' = job
  BY <1>4 DEF LookUp, CreateInvitation, RowFails
<1>5. ASSUME run' = [run EXCEPT ![w] = NoRun]
      PROVE  /\ run' \in [Workers -> Run] /\ run'[w] = NoRun
             /\ \A v \in Workers \ {w} : run'[v] = run[v]
  BY <1>5, NothingUnderWay
<1>6. ASSUME LosesJob(w), run' = [run EXCEPT ![w].holds = FALSE]
      PROVE  /\ run' \in [Workers -> Run]
             /\ \A v \in Workers \ {w} : run'[v] = run[v]
             /\ run'[w].import = run[w].import /\ ~run'[w].holds
             /\ run[w].step # "idle" /\ run'[w].step = run[w].step
             /\ run'[w].person = run[w].person
  <2> DEFINE after == [run[w] EXCEPT !.holds = FALSE]
  <2>1. run[w].step # "idle"
    BY <1>6 DEF LosesJob, RunsHold
  <2>2. /\ after \in Run /\ after.import = run[w].import /\ ~after.holds
        /\ after.step = run[w].step /\ after.person = run[w].person
    BY <1>0 DEF Run
  <2>3. run' = [run EXCEPT ![w] = after]
    BY <1>6
  <2> HIDE DEF after
  <2> QED
    BY <2>1, <2>2, <2>3
<1>7. CASE \E j \in Imports : RunImport(w, j)
  BY <1>1, <1>7
<1>8. CASE TakeRow(w)
  BY <1>2, <1>8
<1>9. CASE LookUp(w) \/ CreateInvitation(w) \/ RowFails(w)
  <2>1. \/ RowDone(w)
        \/ /\ LookUp(w)
           /\ ~RowDone(w)
    BY <1>9 DEF CreateInvitation, RowFails
  <2>2. CASE RowDone(w)
    BY <1>4, <1>9, <2>2, RowDoneKeeps
  <2> QED
    BY <1>3, <2>1, <2>2
<1>10. CASE FinishImport(w) \/ RunThrows(w)
  BY <1>5, <1>10 DEF FinishImport, RunThrows
<1>11. CASE LosesJob(w)
  <2>1. CASE run' = [run EXCEPT ![w] = NoRun]
    BY <1>5, <2>1
  <2>2. CASE run' = [run EXCEPT ![w].holds = FALSE]
    <3>1. run[w].step \in {"look", "create"} => run[w].person \in People
      BY DEF RunsHold
    <3> QED
      BY <1>6, <1>11, <2>2, <3>1
  <2> QED
    BY <1>11, <2>1, <2>2 DEF LosesJob
<1> QED
  BY <1>7, <1>8, <1>9, <1>10, <1>11 DEF RunStep

(* What a worker's step does to the jobs. *)
LEMMA JobsMove ==
    ASSUME TypeOK, RunsHold, NEW w \in Workers, RunStep(w)
    PROVE  /\ job' \in [Imports -> Job]
           /\ \/ job' = job
              \/ \E j \in Imports :
                   /\ \A k \in Imports \ {j} : job'[k] = job[k]
                   /\ \/ /\ RunImport(w, j) /\ run'[w].import = j
                         /\ job[j].queue = "waiting" /\ job'[j].queue = "active"
                         /\ job'[j].attempts > 0
                      \/ /\ run[w].holds /\ run[w].import = j
                         /\ ~run'[w].holds /\ job'[j].queue # "active"
                         /\ job'[j].queue = "waiting" => job'[j].attempts < Attempts
<1>0. job \in [Imports -> Job] /\ run \in [Workers -> Run]
  BY DEF TypeOK
<1>1. ASSUME NEW j \in Imports
      PROVE  job[j] \in Job /\ job[j].attempts \in 0..Attempts
  BY <1>0 DEF Job
<1> USE TeamsAssumption
<1>2. ASSUME NEW j \in Imports, RunImport(w, j)
      PROVE  /\ job' \in [Imports -> Job]
             /\ \A k \in Imports \ {j} : job'[k] = job[k]
             /\ RunImport(w, j) /\ run'[w].import = j
             /\ job[j].queue = "waiting" /\ job'[j].queue = "active"
             /\ job'[j].attempts > 0
  <2> DEFINE after == [job[j] EXCEPT !.queue = "active", !.attempts = @ + 1]
  <2>1. job[j].queue = "waiting" /\ job[j].attempts < Attempts
    BY <1>2 DEF RunImport, RunsHold
  <2>2. after \in Job /\ after.queue = "active" /\ after.attempts > 0
    <3>1. job[j] \in Job /\ job[j].attempts \in 0..Attempts
      BY <1>1
    <3>2. job[j].attempts + 1 \in 0..Attempts /\ job[j].attempts + 1 > 0
      BY <2>1, <3>1
    <3> QED
      BY <3>1, <3>2 DEF Job
  <2>3. job' = [job EXCEPT ![j] = after]
    BY <1>0, <1>1, <1>2 DEF RunImport, Job
  <2>4. run'[w].import = j
    BY <1>0, <1>2 DEF RunImport, NoRun
  <2> HIDE DEF after
  <2> QED
    BY <1>0, <1>2, <2>1, <2>2, <2>3, <2>4
<1>3. ASSUME run[w].holds
      PROVE  /\ run[w].import \in Imports
             /\ job[run[w].import].queue = "active" /\ job[run[w].import].attempts > 0
  BY <1>3 DEF RunsHold
<1>4. ASSUME NEW j \in Imports, NEW after \in Job, job' = [job EXCEPT ![j] = after],
             run[w].holds, run[w].import = j, ~run'[w].holds, after.queue # "active",
             after.queue = "waiting" => after.attempts < Attempts
      PROVE  /\ job' \in [Imports -> Job]
             /\ \A k \in Imports \ {j} : job'[k] = job[k]
             /\ ~run'[w].holds /\ job'[j].queue # "active"
             /\ job'[j].queue = "waiting" => job'[j].attempts < Attempts
  BY <1>0, <1>4
<1>5. JobOver \in Job /\ JobOver.queue = "over"
  BY NothingUnderWay DEF JobOver, NoJob
<1>6. CASE FinishImport(w)
  <2>1. ~run'[w].holds
    BY <1>0, <1>6 DEF FinishImport, NoRun
  <2>2. CASE run[w].holds
    <3>1. job' = [job EXCEPT ![run[w].import] = JobOver]
      BY <1>6, <2>2 DEF FinishImport
    <3> QED
      BY <1>3, <1>4, <1>5, <2>1, <2>2, <3>1
  <2>3. CASE ~run[w].holds
    BY <1>0, <1>6, <2>3 DEF FinishImport
  <2> QED
    BY <2>2, <2>3
<1>7. CASE RunThrows(w)
  <2> DEFINE j == run[w].import
  <2>1. ~run'[w].holds
    BY <1>0, <1>7 DEF RunThrows, NoRun
  <2>2. CASE run[w].holds /\ Exhausted(j)
    <3>1. job' = [job EXCEPT ![j] = JobOver]
      BY <1>7, <2>2 DEF RunThrows
    <3> QED
      BY <1>3, <1>4, <1>5, <2>1, <2>2, <3>1
  <2>3. CASE run[w].holds /\ ~Exhausted(j)
    <3> DEFINE after == [job[j] EXCEPT !.queue = "waiting"]
    <3>1. j \in Imports
      BY <1>3, <2>3
    <3>2. after \in Job /\ after.queue = "waiting" /\ after.attempts < Attempts
      BY <1>1, <2>3, <3>1 DEF Exhausted, Job
    <3>3. job' = [job EXCEPT ![j] = after]
      BY <1>7, <2>3 DEF RunThrows
    <3> HIDE DEF after
    <3> QED
      BY <1>4, <2>1, <2>3, <3>1, <3>2, <3>3
  <2>4. CASE ~run[w].holds
    BY <1>0, <1>7, <2>4 DEF RunThrows
  <2> QED
    BY <2>2, <2>3, <2>4
<1>8. CASE LosesJob(w)
  <2> DEFINE j == run[w].import
             again == [queue |-> "waiting", attempts |-> job[j].attempts - 1, stalled |-> TRUE]
             after == IF job[j].stalled THEN JobOver ELSE again
  <2>1. run[w].holds /\ j \in Imports /\ job[j].attempts > 0
    BY <1>3, <1>8 DEF LosesJob
  <2>2. again \in Job /\ again.queue = "waiting" /\ again.attempts < Attempts
    BY <1>1, <2>1 DEF Job
  <2>3. job' = [job EXCEPT ![j] = after]
    BY <1>0, <1>8, <2>1 DEF LosesJob
  <2>4. ~run'[w].holds
    BY <1>0, <1>8 DEF LosesJob, NoRun, Run
  <2>5. /\ after \in Job /\ after.queue # "active"
        /\ after.queue = "waiting" => after.attempts < Attempts
    <3> HIDE DEF again
    <3> QED
      BY <1>5, <2>2
  <2> HIDE DEF after, j
  <2> QED
    BY <1>4, <2>1, <2>3, <2>4, <2>5 DEF j
<1>9. CASE TakeRow(w) \/ LookUp(w) \/ CreateInvitation(w) \/ RowFails(w)
  BY <1>0, <1>9 DEF TakeRow, LookUp, CreateInvitation, RowFails
<1>10. CASE \E j \in Imports : RunImport(w, j)
  BY <1>2, <1>10
<1> QED
  BY <1>6, <1>7, <1>8, <1>9, <1>10 DEF RunStep

LEMMA WritesKeepTypes ==
    ASSUME overtaken \in SUBSET (Requests \cup Workers), blind \in [People -> Nat],
           NEW p \in People, NEW writer, WritesTo(p, writer)
    PROVE  overtaken' \in SUBSET (Requests \cup Workers) /\ blind' \in [People -> Nat]
<1>1. CASE writer \in overtaken
  <2>1. blind' = [blind EXCEPT ![p] = blind[p] + 1]
    BY <1>1 DEF WritesTo
  <2> QED
    BY <2>1 DEF WritesTo, WritingTo
<1>2. CASE writer \notin overtaken
  BY <1>2 DEF WritesTo, WritingTo
<1> QED
  BY <1>1, <1>2

LEMMA TypesHold ==
    ASSUME TypeOK, RunsHold, RequestsHoldInvitations, Next
    PROVE  TypeOK'
<1>0. /\ member \in [People -> {"none", "active", "revoked"}]
      /\ invitation \in [Invitations -> Invitation]
      /\ request \in [Requests -> Request]
      /\ job \in [Imports -> Job] /\ run \in [Workers -> Run]
      /\ overtaken \in SUBSET (Requests \cup Workers) /\ blind \in [People -> Nat]
      /\ contested \in SUBSET Invitations /\ excused \in BOOLEAN
      /\ offs \in 0..MaxOffs /\ stops \in 0..MaxStops
  BY DEF TypeOK
<1> USE TeamsAssumption
<1>1. ASSUME NEW c \in Requests, CountMembers(c) \/ CountPending(c)
      PROVE  TypeOK'
  <2>1. request' \in [Requests -> Request]
    <3>1. CASE CountMembers(c)
      <4> DEFINE after == [request[c] EXCEPT !.step = "pending", !.used = Cardinality(Active)]
      <4>1. request[c] \in Request
        BY <1>0
      <4>2. after \in Request
        BY <4>1, ActiveIsCounted DEF Request
      <4>3. request' = [request EXCEPT ![c] = after]
        BY <1>0, <3>1, <4>1 DEF CountMembers, Request
      <4> HIDE DEF after
      <4> QED
        BY <1>0, <4>2, <4>3
    <3>2. CASE CountPending(c)
      BY <1>0, <3>2, NothingUnderWay DEF CountPending, Leave, Request
    <3> QED
      BY <1>1, <3>1, <3>2
  <2> QED
    BY <1>0, <1>1, <2>1 DEF CountMembers, CountPending, imports, TypeOK
<1>2. ASSUME NEW c \in Requests, NEW p \in People, StartCreate(c, p)
      PROVE  TypeOK'
  <2>1. [NoRequest EXCEPT !.kind = "create", !.step = "pending", !.person = p,
                          !.used = Cardinality(Active)] \in Request
    BY <1>0, NothingUnderWay, ActiveIsCounted DEF Request
  <2> QED
    BY <1>0, <1>2, <2>1 DEF StartCreate, imports, TypeOK
<1>3. ASSUME NEW c \in Requests, RevokeEarlier(c)
      PROVE  TypeOK'
  <2>1. EarlierFor(request[c].person) \in SUBSET Invitations
    BY <1>0 DEF EarlierFor, Pending
  <2>2. request' \in [Requests -> Request]
    <3> DEFINE after == [request[c] EXCEPT !.step = "insert",
                                           !.earlier = EarlierFor(request[c].person)]
    <3>1. request[c] \in Request
      BY <1>0
    <3>2. after \in Request
      BY <2>1, <3>1 DEF Request
    <3>3. request' = [request EXCEPT ![c] = after]
      BY <1>0, <1>3, <3>1 DEF RevokeEarlier, Request
    <3> HIDE DEF after
    <3> QED
      BY <1>0, <3>2, <3>3
  <2> QED
    BY <1>0, <1>3, <2>2 DEF RevokeEarlier, imports, TypeOK
<1>4. ASSUME NEW c \in Requests, InsertInvitation(c)
      PROVE  TypeOK'
  <2>1. request[c].person \in People \cup {Nobody} /\ request[c].earlier \in SUBSET Invitations
    BY <1>0 DEF Request
  <2>2. invitation' \in [Invitations -> Invitation]
    <3>1. New(request[c].person) \in Invitation
      BY <1>0, <2>1 DEF New, Invitation
    <3>2. ASSUME NEW i \in Invitations
          PROVE  [invitation[i] EXCEPT !.status = "revoked"] \in Invitation
      BY <1>0 DEF Invitation
    <3> QED
      BY <1>0, <1>4, <3>1, <3>2 DEF InsertInvitation
  <2>3. overtaken' \in SUBSET (Requests \cup Workers) /\ blind' \in [People -> Nat]
    <3>1. WritesTo(request[c].person, c) /\ request[c].person \in People
      BY <1>0, <1>4 DEF InsertInvitation, RequestsHoldInvitations, Holds, NoRequest, Request
    <3> QED
      BY <1>0, <3>1, WritesKeepTypes
  <2>4. request' \in [Requests -> Request]
    BY <1>0, <1>4, NothingUnderWay DEF InsertInvitation, Leave
  <2>5. contested' \in SUBSET Invitations /\ excused' \in BOOLEAN
    BY <1>0, <1>4, <2>1 DEF InsertInvitation, Contest, Pending
  <2> QED
    BY <1>0, <1>4, <2>2, <2>3, <2>4, <2>5 DEF InsertInvitation, TypeOK
<1>5. ASSUME NEW i \in Invitations, Revoke(i) \/ Expire(i)
      PROVE  TypeOK'
  <2>1. invitation' \in [Invitations -> Invitation]
    <3>1. CASE Revoke(i)
      BY <1>0, <3>1 DEF Revoke, Invitation
    <3>2. CASE Expire(i)
      <4> DEFINE expired == [invitation[i] EXCEPT !.expired = TRUE]
      <4>1. expired \in Invitation
        <5>1. invitation[i] \in Invitation
          BY <1>0
        <5> QED
          BY <5>1 DEF Invitation
      <4>2. invitation' = [invitation EXCEPT ![i] = expired]
        BY <3>2 DEF Expire
      <4> HIDE DEF expired
      <4> QED
        BY <1>0, <4>1, <4>2
    <3> QED
      BY <1>5, <3>1, <3>2
  <2> QED
    BY <1>0, <1>5, <2>1 DEF Revoke, Expire, Contest, imports, TypeOK
<1>6. ASSUME NEW c \in Requests, NEW i \in Invitations, StartAccept(c, i)
      PROVE  TypeOK'
  <2>1. invitation[i].email \in People \cup {Nobody}
    BY <1>0 DEF Invitation
  <2>2. [NoRequest EXCEPT !.kind = "accept", !.step = "members", !.invitation = i,
                          !.person = invitation[i].email] \in Request
    BY <1>0, <2>1, NothingUnderWay DEF Request
  <2> QED
    BY <1>0, <1>6, <2>2 DEF StartAccept, imports, TypeOK
<1>7. ASSUME NEW c \in Requests, Join(c)
      PROVE  TypeOK'
  <2>1. invitation' \in [Invitations -> Invitation]
    <3> DEFINE i == request[c].invitation
               accepted == [invitation[i] EXCEPT !.status = "accepted"]
    <3>1. invitation' = [invitation EXCEPT ![i] = accepted]
      BY <1>7 DEF Join
    <3> HIDE DEF i
    <3>2. i \in Invitations => accepted \in Invitation
      <4>1. i \in Invitations => invitation[i] \in Invitation
        BY <1>0
      <4> QED
        BY <4>1 DEF Invitation
    <3> HIDE DEF accepted
    <3> QED
      BY <1>0, <3>1, <3>2
  <2> QED
    BY <1>0, <1>7, <2>1, NothingUnderWay DEF Join, Leave, imports, TypeOK
<1>8. ASSUME NEW p \in People, Offboard(p)
      PROVE  TypeOK'
  <2>1. offs' \in 0..MaxOffs
    BY <1>0, <1>8 DEF Offboard
  <2> QED
    BY <1>0, <1>8, <2>1 DEF Offboard, imports, TypeOK
<1>9. ASSUME NEW p \in People, Reinstate(p)
      PROVE  TypeOK'
  BY <1>0, <1>9 DEF Reinstate, imports, TypeOK
<1>10. ASSUME NEW j \in Imports, StartImport(j)
       PROVE  TypeOK'
  <2>1. [NoJob EXCEPT !.queue = "waiting"] \in Job /\ JobOver \in Job
    BY NothingUnderWay DEF Job
  <2> QED
    BY <1>0, <1>10, <2>1 DEF StartImport, TypeOK
<1>11. ASSUME NEW w \in Workers, RunStep(w)
       PROVE  TypeOK'
  <2>1. job' \in [Imports -> Job] /\ run' \in [Workers -> Run]
    BY <1>0, <1>11, JobsMove, RunMoves
  <2>2. UNCHANGED <<member, request, contested, excused, offs>>
    BY <1>11 DEF RunStep, RunImport, TakeRow, LookUp, CreateInvitation, RowFails, FinishImport,
                 RunThrows, LosesJob, others
  <2>3. /\ overtaken' \in SUBSET (Requests \cup Workers)
        /\ blind' \in [People -> Nat]
        /\ stops' \in 0..MaxStops
        /\ invitation' \in [Invitations -> Invitation]
    <3>1. CASE CreateInvitation(w)
      <4>1. run[w].person \in People
        BY <3>1 DEF CreateInvitation, RunsHold
      <4>2. New(run[w].person) \in Invitation
        BY <4>1 DEF New, Invitation
      <4>3. overtaken' \in SUBSET (Requests \cup Workers) /\ blind' \in [People -> Nat]
        <5>1. WritesTo(run[w].person, w)
          BY <3>1 DEF CreateInvitation
        <5> QED
          BY <1>0, <4>1, <5>1, WritesKeepTypes
      <4> QED
        BY <1>0, <3>1, <4>2, <4>3 DEF CreateInvitation
    <3>2. CASE RunThrows(w) \/ LosesJob(w)
      BY <1>0, <3>2 DEF RunThrows, LosesJob
    <3>3. CASE RowFails(w)
      BY <1>0, <3>3 DEF RowFails
    <3>4. CASE TakeRow(w) \/ LookUp(w) \/ FinishImport(w) \/ \E j \in Imports : RunImport(w, j)
      BY <1>0, <3>4 DEF TakeRow, LookUp, FinishImport, RunImport
    <3> QED
      BY <1>11, <3>1, <3>2, <3>3, <3>4 DEF RunStep
  <2> QED
    BY <1>0, <2>1, <2>2, <2>3 DEF TypeOK
<1> QED
  BY <1>1, <1>2, <1>3, <1>4, <1>5, <1>6, <1>7, <1>8, <1>9, <1>10, <1>11 DEF Next

LEMMA RunsStay ==
    ASSUME TypeOK, RunsHold, Next
    PROVE  RunsHold'
<1>0. job \in [Imports -> Job] /\ run \in [Workers -> Run]
  BY DEF TypeOK
<1>1. ASSUME NEW j \in Imports, StartImport(j)
      PROVE  RunsHold'
  <2>1. /\ \A k \in Imports \ {j} : job'[k] = job[k]
        /\ job[j].queue = "none"
        /\ job'[j].queue # "active"
        /\ job'[j].queue = "waiting" => job'[j].attempts < Attempts
        /\ run' = run
    BY <1>0, <1>1, TeamsAssumption DEF StartImport, NoJob, JobOver
  <2>2. \A w \in Workers : run[w].holds => run[w].import \in Imports \ {j}
    BY <2>1 DEF RunsHold
  <2> QED
    BY <2>1, <2>2 DEF RunsHold
<1>2. ASSUME NEW w \in Workers, RunStep(w)
      PROVE  RunsHold'
  <2>1. /\ run' \in [Workers -> Run]
        /\ \A v \in Workers \ {w} : run'[v] = run[v]
    BY <1>0, <1>2, RunMoves
  <2>2. /\ run'[w].step # "idle" => run'[w].import \in Imports
        /\ run'[w].step \in {"look", "create"} => run'[w].person \in People
        /\ run'[w].holds => run'[w].step # "idle"
    <3>1. NoRun.step = "idle" /\ ~NoRun.holds
      BY DEF NoRun
    <3>2. run[w].step # "idle" => run[w].import \in Imports
      BY DEF RunsHold
    <3> QED
      BY <1>0, <1>2, <3>1, <3>2, RunMoves
  <2>3. CASE job' = job
    <3>1. ~RunImport(w, run'[w].import) \/ run'[w].import \notin Imports
      BY <1>0, <2>3 DEF RunImport, RunsHold, Job
    <3>2. run'[w].holds => run[w].holds /\ run'[w].import = run[w].import
      BY <1>0, <1>2, <3>1, RunMoves DEF NoRun
    <3> QED
      BY <2>1, <2>2, <2>3, <3>2 DEF RunsHold
  <2>4. ASSUME NEW j \in Imports,
               \A k \in Imports \ {j} : job'[k] = job[k],
               job[j].queue = "waiting", job'[j].queue = "active",
               job'[j].attempts > 0, run'[w].import = j
        PROVE  RunsHold'
    <3>1. \A v \in Workers : run[v].holds => run[v].import \in Imports \ {j}
      BY <2>4 DEF RunsHold
    <3> QED
      BY <2>1, <2>2, <2>4, <3>1 DEF RunsHold
  <2>5. ASSUME NEW j \in Imports,
               \A k \in Imports \ {j} : job'[k] = job[k],
               run[w].holds, run[w].import = j, ~run'[w].holds, job'[j].queue # "active",
               job'[j].queue = "waiting" => job'[j].attempts < Attempts
        PROVE  RunsHold'
    <3>1. \A v \in Workers \ {w} : run[v].holds => run[v].import \in Imports \ {j}
      BY <2>5 DEF RunsHold
    <3> QED
      BY <2>1, <2>2, <2>5, <3>1 DEF RunsHold
  <2> QED
    BY <1>2, <2>3, <2>4, <2>5, JobsMove
<1>3. ASSUME UNCHANGED <<job, run>>
      PROVE  RunsHold'
  BY <1>3 DEF RunsHold
<1> QED
  BY <1>1, <1>2, <1>3
     DEF Next, StartCreate, StartAccept, CountMembers, CountPending, RevokeEarlier,
         InsertInvitation, Join, Revoke, Expire, Offboard, Reinstate, imports

-----------------------------------------------------------------------------
(* What is accepted                                                         *)

(* An invitation that ends while somebody accepts it is remembered, and one *)
(* that was accepted stays so.                                              *)
LEMMA EndsAreRemembered ==
    ASSUME TypeOK, RunsHold, RequestsHoldInvitations, Next
    PROVE  /\ contested \subseteq contested'
           /\ excused => excused'
           /\ \A i \in Invitations :
                invitation[i].status = "accepted" => invitation'[i].status = "accepted"
           /\ \A i \in Valid \cap BeingAccepted :
                \/ i \in Valid'
                \/ i \in contested' /\ excused'
                \/ \E c \in Requests : Join(c) /\ i = request[c].invitation
<1>0. invitation \in [Invitations -> Invitation] /\ excused \in BOOLEAN
  BY DEF TypeOK
<1> USE DEF Valid, Pending
<1>1. ASSUME NEW c \in Requests, InsertInvitation(c)
      PROVE  /\ contested \subseteq contested'
             /\ excused => excused'
             /\ \A i \in Invitations :
                  invitation[i].status = "accepted" => invitation'[i].status = "accepted"
             /\ \A i \in Valid \cap BeingAccepted :
                  i \in Valid' \/ (i \in contested' /\ excused')
  <2> DEFINE ended == request[c].earlier \cap Pending
  <2>1. Fresh \in Invitations /\ invitation[Fresh].status = "none"
    BY <1>1, FreshIsUnused DEF InsertInvitation
  <2>2. \A i \in Invitations \ ({Fresh} \cup ended) : invitation'[i] = invitation[i]
    BY <1>1 DEF InsertInvitation
  <2>3. contested' = contested \cup (ended \cap BeingAccepted)
        /\ excused' = (excused \/ ended \cap BeingAccepted # {})
    BY <1>1 DEF InsertInvitation, Contest
  <2>4. \A i \in ended : invitation[i].status = "pending"
    OBVIOUS
  <2> HIDE DEF ended
  <2> QED
    BY <1>0, <2>1, <2>2, <2>3, <2>4
<1>2. ASSUME NEW i \in Invitations, Revoke(i) \/ Expire(i)
      PROVE  /\ contested \subseteq contested'
             /\ excused => excused'
             /\ \A k \in Invitations :
                  invitation[k].status = "accepted" => invitation'[k].status = "accepted"
             /\ \A k \in Valid \cap BeingAccepted :
                  k \in Valid' \/ (k \in contested' /\ excused')
  <2>1. /\ \A k \in Invitations \ {i} : invitation'[k] = invitation[k]
        /\ invitation[i].status = "pending"
    BY <1>0, <1>2 DEF Revoke, Expire
  <2>2. contested' = contested \cup ({i} \cap BeingAccepted)
        /\ excused' = (excused \/ {i} \cap BeingAccepted # {})
    BY <1>2 DEF Revoke, Expire, Contest
  <2> QED
    BY <1>0, <2>1, <2>2
<1>3. ASSUME NEW c \in Requests, Join(c)
      PROVE  /\ contested \subseteq contested'
             /\ excused => excused'
             /\ \A i \in Invitations :
                  invitation[i].status = "accepted" => invitation'[i].status = "accepted"
             /\ \A i \in Valid \ {request[c].invitation} : i \in Valid'
  <2>1. \A i \in Invitations \ {request[c].invitation} : invitation'[i] = invitation[i]
    BY <1>0, <1>3 DEF Join
  <2>2. request[c].invitation \in Invitations =>
          invitation'[request[c].invitation].status = "accepted"
    BY <1>0, <1>3 DEF Join, Invitation
  <2>3. UNCHANGED <<contested, excused>>
    BY <1>3 DEF Join
  <2> QED
    BY <1>0, <2>1, <2>2, <2>3
<1>4. ASSUME NEW w \in Workers, CreateInvitation(w)
      PROVE  /\ contested \subseteq contested'
             /\ excused => excused'
             /\ \A i \in Invitations :
                  invitation[i].status = "accepted" => invitation'[i].status = "accepted"
             /\ \A i \in Valid : i \in Valid'
  <2>1. Fresh \in Invitations /\ invitation[Fresh].status = "none"
    BY <1>4, FreshIsUnused DEF CreateInvitation
  <2>2. \A i \in Invitations \ {Fresh} : invitation'[i] = invitation[i]
    BY <1>0, <1>4 DEF CreateInvitation
  <2>3. UNCHANGED <<contested, excused>>
    BY <1>4 DEF CreateInvitation, others
  <2> QED
    BY <1>0, <2>1, <2>2, <2>3
<1>5. ASSUME UNCHANGED <<invitation, contested>>, excused => excused'
      PROVE  /\ contested \subseteq contested'
             /\ \A i \in Invitations :
                  invitation[i].status = "accepted" => invitation'[i].status = "accepted"
             /\ \A i \in Valid : i \in Valid'
  BY <1>5
<1> HIDE DEF Valid, Pending
<1>6. \/ \E c \in Requests : InsertInvitation(c) \/ Join(c)
      \/ \E i \in Invitations : Revoke(i) \/ Expire(i)
      \/ \E w \in Workers : CreateInvitation(w)
      \/ UNCHANGED <<invitation, contested>> /\ (excused => excused')
  BY DEF Next, RunStep, StartCreate, StartAccept, CountMembers, CountPending, RevokeEarlier,
         Offboard, Reinstate, StartImport, RunImport, TakeRow, LookUp, RowFails, FinishImport,
         RunThrows, LosesJob, others
<1> QED
  BY <1>1, <1>2, <1>3, <1>4, <1>5, <1>6

(* What one step does to a request. *)
LEMMA RequestsMove ==
    ASSUME TypeOK, RequestsHoldInvitations, Next, NEW c \in Requests
    PROVE  \/ request'[c] = request[c]
           \/ request'[c] = NoRequest
           \/ /\ request'[c].kind = "create"
              /\ request'[c].person \in People
              /\ \/ request'[c].step \in {"pending", "write"}
                 \/ RevokeEarlier(c)
           \/ /\ request'[c].kind = "accept" /\ request[c].kind = "accept"
              /\ request'[c].step \in {"pending", "write"}
              /\ request'[c].person = request[c].person
              /\ request'[c].invitation = request[c].invitation
              /\ CountMembers(c) \/ CountPending(c)
           \/ /\ request'[c].kind = "accept"
              /\ request'[c].step = "members"
              /\ request'[c].person \in People
              /\ request'[c].invitation \in Valid
              /\ StartAccept(c, request'[c].invitation)
<1>0. request \in [Requests -> Request] /\ request[c] \in Request
  BY DEF TypeOK
<1>1. Holds(c)
  BY DEF RequestsHoldInvitations
<1>2. ASSUME NEW p \in People, StartCreate(c, p)
      PROVE  request'[c].kind = "create" /\ request'[c].person \in People
             /\ request'[c].step = "pending"
  BY <1>0, <1>2 DEF StartCreate, NoRequest
<1>3. ASSUME NEW i \in Invitations, StartAccept(c, i)
      PROVE  /\ request'[c].kind = "accept" /\ request'[c].step = "members"
             /\ request'[c].person \in People /\ request'[c].invitation = i /\ i \in Valid
  <2>1. i \in Valid /\ invitation[i].email \in People
    BY <1>3 DEF StartAccept, Acceptable, RequestsHoldInvitations
  <2> QED
    BY <1>0, <1>3, <2>1 DEF StartAccept, NoRequest
<1>4. ASSUME CountMembers(c)
      PROVE  /\ request'[c].kind = request[c].kind /\ request'[c].step = "pending"
             /\ request'[c].person = request[c].person
             /\ request'[c].invitation = request[c].invitation
             /\ request[c].kind = "accept"
  <2>1. request[c].kind = "accept"
    BY <1>0, <1>1, <1>4 DEF CountMembers, Holds, NoRequest, Request
  <2> QED
    BY <1>0, <1>4, <2>1 DEF CountMembers, Request
<1>5. ASSUME CountPending(c)
      PROVE  \/ request'[c] = NoRequest
             \/ /\ request'[c].kind = request[c].kind /\ request'[c].step = "write"
                /\ request'[c].person = request[c].person
                /\ request'[c].invitation = request[c].invitation
                /\ request[c].kind \in {"create", "accept"}
  <2>1. CASE Leave(c)
    BY <1>0, <2>1 DEF Leave
  <2>2. CASE /\ request[c].kind \in {"create", "accept"}
             /\ request' = [request EXCEPT ![c].step = "write", ![c].used = 0]
    BY <1>0, <2>2 DEF Request
  <2> QED
    BY <1>5, <2>1, <2>2 DEF CountPending
<1>6. ASSUME RevokeEarlier(c)
      PROVE  request'[c].kind = "create" /\ request'[c].person = request[c].person
  BY <1>0, <1>6 DEF RevokeEarlier, Request
<1>7. ASSUME InsertInvitation(c) \/ Join(c)
      PROVE  request'[c] = NoRequest
  BY <1>0, <1>7 DEF InsertInvitation, Join, Leave
<1>8. ASSUME NEW d \in Requests \ {c},
             \/ \E p \in People : StartCreate(d, p)
             \/ \E i \in Invitations : StartAccept(d, i)
             \/ CountMembers(d) \/ CountPending(d) \/ RevokeEarlier(d)
             \/ InsertInvitation(d) \/ Join(d)
      PROVE  request'[c] = request[c]
  BY <1>0, <1>8 DEF StartCreate, StartAccept, CountMembers, CountPending, RevokeEarlier,
                    InsertInvitation, Join, Leave
<1>9. ASSUME \/ \E i \in Invitations : Revoke(i) \/ Expire(i)
             \/ \E p \in People : Offboard(p) \/ Reinstate(p)
             \/ \E j \in Imports : StartImport(j)
             \/ \E w \in Workers : RunStep(w)
      PROVE  request'[c] = request[c]
  BY <1>9 DEF Revoke, Expire, Offboard, Reinstate, RunStep, StartImport, RunImport, TakeRow,
              LookUp, CreateInvitation, RowFails, FinishImport, RunThrows, LosesJob, others
<1>10. request[c].kind \in {"create", "accept"} => request[c].person \in People
  BY <1>1 DEF Holds
<1>11. \/ \E p \in People : StartCreate(c, p)
       \/ \E i \in Invitations : StartAccept(c, i)
       \/ CountMembers(c) \/ CountPending(c) \/ RevokeEarlier(c)
       \/ InsertInvitation(c) \/ Join(c)
       \/ request'[c] = request[c]
  BY <1>8, <1>9 DEF Next
<1>12. CASE RevokeEarlier(c)
  <2>1. request[c].kind = "create"
    BY <1>12 DEF RevokeEarlier
  <2> QED
    BY <1>6, <1>10, <1>12, <2>1
<1> QED
  BY <1>2, <1>3, <1>4, <1>5, <1>7, <1>10, <1>11, <1>12

LEMMA RequestsHold ==
    ASSUME TypeOK, RunsHold, RequestsHoldInvitations, Next
    PROVE  RequestsHoldInvitations'
<1>0. invitation \in [Invitations -> Invitation] /\ request \in [Requests -> Request]
  BY DEF TypeOK
<1>1. ASSUME NEW i \in Invitations, Settled(i), i \in BeingAccepted
      PROVE  Settled(i)'
  <2>1. CASE \E d \in Requests : Join(d) /\ i = request[d].invitation
    BY <1>0, <2>1 DEF Join, Settled, Invitation
  <2> QED
    BY <1>1, <2>1, EndsAreRemembered DEF Settled
<1>2. ASSUME NEW c \in Requests
      PROVE  Holds(c)'
  <2>1. Holds(c)
    BY DEF RequestsHoldInvitations
  <2>2. ASSUME NEW i \in Invitations, request[c].kind = "accept", i = request[c].invitation
        PROVE  i \in (Valid \cup contested)' \/ invitation'[i].status = "accepted"
    <3>1. Settled(i) /\ i \in BeingAccepted
      BY <2>1, <2>2 DEF Holds, BeingAccepted, Accepting
    <3> QED
      BY <1>1, <3>1 DEF Settled
  <2>3. CASE request'[c] = request[c]
    BY <2>1, <2>2, <2>3 DEF Holds, Settled
  <2>4. CASE request'[c] = NoRequest
    BY <2>4 DEF Holds, NoRequest
  <2>5. CASE RevokeEarlier(c) /\ request'[c].kind = "create" /\ request'[c].person \in People
    <3>1. request'[c].step = "insert"
      BY <1>0, <2>5 DEF RevokeEarlier, Request
    <3> QED
      BY <2>5, <3>1 DEF Holds
  <2>6. CASE /\ request'[c].kind = "create" /\ request'[c].person \in People
             /\ request'[c].step \in {"pending", "write"}
    BY <2>6 DEF Holds
  <2>7. CASE /\ request'[c].kind = "accept" /\ request[c].kind = "accept"
             /\ request'[c].step \in {"pending", "write"}
             /\ request'[c].person = request[c].person
             /\ request'[c].invitation = request[c].invitation
    BY <2>1, <2>2, <2>7 DEF Holds, Settled
  <2>8. CASE /\ request'[c].kind = "accept" /\ request'[c].step = "members"
             /\ request'[c].person \in People /\ request'[c].invitation \in Valid
             /\ StartAccept(c, request'[c].invitation)
    <3>1. request'[c].invitation \in Invitations /\ request'[c].invitation \in Valid'
      BY <2>8 DEF StartAccept, Valid, Pending
    <3> QED
      BY <2>8, <3>1 DEF Holds, Settled
  <2> QED
    BY <2>3, <2>4, <2>5, <2>6, <2>7, <2>8, RequestsMove
<1>3. ASSUME NEW i \in Valid'
      PROVE  invitation'[i].email \in People
  <2>1. i \in Invitations
    BY DEF Valid, Pending
  <2>2. CASE i \in Valid /\ invitation'[i].email = invitation[i].email
    BY <2>2 DEF RequestsHoldInvitations
  <2>3. ASSUME NEW c \in Requests, InsertInvitation(c)
        PROVE  invitation'[i].email \in People
    <3>1. request[c].person \in People
      BY <1>0, <2>3 DEF InsertInvitation, RequestsHoldInvitations, Holds, NoRequest, Request
    <3>2. i # Fresh => i \in Valid /\ invitation'[i].email = invitation[i].email
      BY <1>0, <1>3, <2>1, <2>3 DEF InsertInvitation, Valid, Pending, Invitation
    <3>3. i = Fresh => invitation'[i].email = request[c].person
      BY <2>1, <2>3 DEF InsertInvitation, New
    <3> QED
      BY <2>2, <3>1, <3>2, <3>3
  <2>4. ASSUME NEW w \in Workers, CreateInvitation(w)
        PROVE  invitation'[i].email \in People
    <3>1. run[w].person \in People
      BY <2>4 DEF CreateInvitation, RunsHold
    <3>2. i # Fresh => i \in Valid /\ invitation'[i].email = invitation[i].email
      BY <1>0, <1>3, <2>1, <2>4 DEF CreateInvitation, Valid, Pending, Invitation
    <3>3. i = Fresh => invitation'[i].email = run[w].person
      BY <1>0, <2>1, <2>4 DEF CreateInvitation, New
    <3> QED
      BY <2>2, <3>1, <3>2, <3>3
  <2>5. ASSUME NEW k \in Invitations, Revoke(k) \/ Expire(k)
        PROVE  i \in Valid /\ invitation'[i].email = invitation[i].email
    BY <1>0, <1>3, <2>1, <2>5 DEF Revoke, Expire, Valid, Pending, Invitation
  <2>6. ASSUME NEW c \in Requests, Join(c)
        PROVE  i \in Valid /\ invitation'[i].email = invitation[i].email
    BY <1>0, <1>3, <2>1, <2>6 DEF Join, Valid, Pending, Invitation
  <2>7. ASSUME UNCHANGED invitation
        PROVE  i \in Valid /\ invitation'[i].email = invitation[i].email
    BY <1>3, <2>7 DEF Valid, Pending
  <2>8. \/ \E c \in Requests : InsertInvitation(c) \/ Join(c)
        \/ \E k \in Invitations : Revoke(k) \/ Expire(k)
        \/ \E w \in Workers : CreateInvitation(w)
        \/ UNCHANGED invitation
    BY DEF Next, RunStep, StartCreate, StartAccept, CountMembers, CountPending,
           RevokeEarlier, Offboard, Reinstate, StartImport, RunImport, TakeRow, LookUp,
           RowFails, FinishImport, RunThrows, LosesJob
  <2> QED
    BY <2>2, <2>3, <2>4, <2>5, <2>6, <2>7, <2>8
<1> QED
  BY <1>2, <1>3 DEF RequestsHoldInvitations

-----------------------------------------------------------------------------
(* The valid links of a person                                              *)

(* A person's valid links only become fewer, unless one is written.         *)
LEMMA LinksBecomeFewer ==
    ASSUME TypeOK, Next, NEW p \in People,
           \A c \in Requests : ~InsertInvitation(c),
           \A w \in Workers : ~CreateInvitation(w)
    PROVE  ValidFor(p)' \subseteq ValidFor(p)
<1>0. invitation \in [Invitations -> Invitation]
  BY DEF TypeOK
<1> USE DEF ValidFor, Valid, Pending
<1>1. ASSUME NEW i \in Invitations, Revoke(i)
      PROVE  ValidFor(p)' \subseteq ValidFor(p)
  BY <1>0, <1>1 DEF Revoke, Invitation
<1>2. ASSUME NEW i \in Invitations, Expire(i)
      PROVE  ValidFor(p)' \subseteq ValidFor(p)
  BY <1>0, <1>2 DEF Expire, Invitation
<1>3. ASSUME NEW c \in Requests, Join(c)
      PROVE  ValidFor(p)' \subseteq ValidFor(p)
  BY <1>0, <1>3 DEF Join, Invitation
<1>4. ASSUME UNCHANGED invitation
      PROVE  ValidFor(p)' \subseteq ValidFor(p)
  BY <1>4
<1>5. \/ \E i \in Invitations : Revoke(i) \/ Expire(i)
      \/ \E c \in Requests : Join(c)
      \/ UNCHANGED invitation
  BY DEF Next, RunStep, StartCreate, StartAccept, CountMembers, CountPending,
         RevokeEarlier, Offboard, Reinstate, StartImport, RunImport, TakeRow, LookUp,
         RowFails, FinishImport, RunThrows, LosesJob
<1> QED
  BY <1>1, <1>2, <1>3, <1>4, <1>5

(* One more row adds one to them at most. *)
LEMMA OneMore ==
    ASSUME TypeOK, NEW p \in People, NEW i \in Invitations,
           ValidFor(p)' \subseteq ValidFor(p) \cup {i}
    PROVE  /\ Cardinality(ValidFor(p)') <= Cardinality(ValidFor(p)) + 1
           /\ ValidFor(p)' \subseteq {i} => Cardinality(ValidFor(p)') <= 1
           /\ ValidFor(p)' \subseteq ValidFor(p) =>
                Cardinality(ValidFor(p)') <= Cardinality(ValidFor(p))
           /\ Cardinality(ValidFor(p)) \in Nat /\ Cardinality(ValidFor(p)') \in Nat
<1>1. IsFiniteSet(ValidFor(p)) /\ Cardinality(ValidFor(p)) \in Nat
  BY TeamsAssumption, FS_Subset, FS_CardinalityType DEF ValidFor, Valid, Pending
<1>2. /\ IsFiniteSet(ValidFor(p) \cup {i})
      /\ Cardinality(ValidFor(p) \cup {i}) =
           IF i \in ValidFor(p) THEN Cardinality(ValidFor(p)) ELSE Cardinality(ValidFor(p)) + 1
  BY <1>1, FS_AddElement
<1>3. /\ IsFiniteSet(ValidFor(p)')
      /\ Cardinality(ValidFor(p)') <= Cardinality(ValidFor(p) \cup {i})
  BY <1>2, FS_Subset
<1>4. Cardinality(ValidFor(p)') \in Nat
  BY <1>3, FS_CardinalityType
<1>5. IsFiniteSet({i}) /\ Cardinality({i}) = 1
  BY FS_Singleton
<1>6. ValidFor(p)' \subseteq {i} => Cardinality(ValidFor(p)') <= 1
  BY <1>5, FS_Subset
<1>7. ValidFor(p)' \subseteq ValidFor(p) => Cardinality(ValidFor(p)') <= Cardinality(ValidFor(p))
  BY <1>1, FS_Subset
<1> QED
  BY <1>1, <1>2, <1>3, <1>4, <1>6, <1>7

(* A worker about to write either was, and is overtaken if it was, or has   *)
(* just found no valid link; whoever is not has not been overtaken.         *)
LEMMA WritersLookedUp ==
    ASSUME TypeOK, RunsHold, OvertakenWrite, Next, NEW w \in Workers
    PROVE  \/ /\ run'[w].step = run[w].step /\ run'[w].person = run[w].person
              /\ w \in overtaken => w \in overtaken'
           \/ run'[w].step # "create" /\ w \notin overtaken'
           \/ /\ run'[w].step = "create" /\ LookUp(w)
              /\ ValidFor(run'[w].person) = {}
<1>0. run \in [Workers -> Run] /\ run[w] \in Run
  BY DEF TypeOK
<1> DEFINE Goal ==
      \/ /\ run'[w].step = run[w].step /\ run'[w].person = run[w].person
         /\ w \in overtaken => w \in overtaken'
      \/ run'[w].step # "create" /\ w \notin overtaken'
      \/ /\ run'[w].step = "create" /\ LookUp(w)
         /\ ValidFor(run'[w].person) = {}
<1> SUFFICES Goal
  OBVIOUS
<1>1. ASSUME NEW v \in Workers \ {w}, RunStep(v)
      PROVE  run'[w] = run[w] /\ (w \in overtaken => w \in overtaken')
  <2>1. run'[w] = run[w]
    BY <1>0, <1>1, RunMoves
  <2>2. w \in overtaken => w \in overtaken'
    BY <1>1 DEF RunStep, RunImport, TakeRow, LookUp, CreateInvitation, WritesTo, RowFails,
                FinishImport, RunThrows, LosesJob
  <2> QED
    BY <2>1, <2>2
<1>2. ASSUME NEW c \in Requests, InsertInvitation(c)
      PROVE  run' = run /\ (w \in overtaken => w \in overtaken')
  BY <1>2, TeamsAssumption DEF InsertInvitation, WritesTo
<1>3. ASSUME RunStep(w)
      PROVE  Goal
  <2>1. ASSUME NEW j \in Imports, RunImport(w, j)
        PROVE  Goal
    BY <1>0, <2>1 DEF RunImport, NoRun, OvertakenWrite
  <2>2. CASE TakeRow(w)
    BY <1>0, <2>2 DEF TakeRow, OvertakenWrite, Run
  <2>3. CASE LookUp(w)
    <3>1. CASE RowDone(w)
      BY <1>0, <2>3, <3>1, RowDoneKeeps DEF LookUp, OvertakenWrite
    <3>2. CASE NeedsInvitation(run[w].person) /\ run' = [run EXCEPT ![w].step = "create"]
      BY <1>0, <2>3, <3>2 DEF NeedsInvitation, Run
    <3> QED
      BY <2>3, <3>1, <3>2 DEF LookUp
  <2>4. CASE CreateInvitation(w)
    BY <1>0, <2>4, RowDoneKeeps DEF CreateInvitation, WritesTo
  <2>5. CASE RowFails(w)
    BY <1>0, <2>5, RowDoneKeeps DEF RowFails
  <2>6. CASE FinishImport(w)
    BY <1>0, <2>6 DEF FinishImport, NoRun, OvertakenWrite
  <2>7. CASE RunThrows(w)
    BY <1>0, <2>7 DEF RunThrows, NoRun
  <2>8. CASE LosesJob(w)
    <3>1. CASE run' = [run EXCEPT ![w] = NoRun] /\ overtaken' = overtaken \ {w}
      BY <1>0, <3>1 DEF NoRun
    <3>2. CASE run' = [run EXCEPT ![w].holds = FALSE] /\ UNCHANGED overtaken
      BY <1>0, <3>2 DEF Run
    <3> QED
      BY <2>8, <3>1, <3>2 DEF LosesJob
  <2> QED
    BY <1>3, <2>1, <2>2, <2>3, <2>4, <2>5, <2>6, <2>7, <2>8 DEF RunStep
<1>4. ASSUME UNCHANGED <<run, overtaken>>
      PROVE  Goal
  BY <1>4
<1>5. \/ \E v \in Workers : RunStep(v)
      \/ \E c \in Requests : InsertInvitation(c)
      \/ UNCHANGED <<run, overtaken>>
  BY DEF Next, StartCreate, StartAccept, CountMembers, CountPending, RevokeEarlier, Join, Revoke,
         Expire, Offboard, Reinstate, StartImport, imports
<1> HIDE DEF Goal
<1> QED
  BY <1>1, <1>2, <1>3, <1>4, <1>5 DEF Goal

(* Whose request is overtaken stays so until it writes, and nobody else is  *)
(* while nothing is written.                                                *)
LEMMA OvertakenRequests ==
    ASSUME TypeOK, Next, NEW c \in Requests
    PROVE  /\ c \in overtaken => c \in overtaken' \/ InsertInvitation(c)
           /\ InsertInvitation(c) => c \notin overtaken'
           /\ \/ c \in overtaken' => c \in overtaken
              \/ \E d \in Requests \ {c} : InsertInvitation(d)
              \/ \E w \in Workers : CreateInvitation(w)
<1>1. ASSUME NEW d \in Requests, InsertInvitation(d)
      PROVE  /\ d \notin overtaken'
             /\ c # d => (c \in overtaken => c \in overtaken')
  BY <1>1 DEF InsertInvitation, WritesTo
<1>2. ASSUME NEW w \in Workers, CreateInvitation(w)
      PROVE  c \in overtaken => c \in overtaken'
  BY <1>2, TeamsAssumption DEF CreateInvitation, WritesTo
<1>3. \/ \E d \in Requests : InsertInvitation(d)
      \/ \E w \in Workers : CreateInvitation(w)
      \/ c \in overtaken' <=> c \in overtaken
  BY TeamsAssumption
     DEF Next, RunStep, StartCreate, StartAccept, CountMembers, CountPending, RevokeEarlier, Join,
         Revoke, Expire, Offboard, Reinstate, StartImport, RunImport, TakeRow, LookUp, RowFails,
         FinishImport, RunThrows, LosesJob, imports
<1>4. InsertInvitation(c) => c \notin overtaken'
  BY <1>1
<1> QED
  BY <1>1, <1>2, <1>3, <1>4

(* A write leaves its person either the link written, or one more. *)
LEMMA LinkIsWritten ==
    ASSUME TypeOK, OvertakenWrite, NEW p \in People, LinksAreSeen(p), NEW writer, NEW seen,
           seen \subseteq Invitations, Unused # {},
           \A i \in Invitations \ ({Fresh} \cup seen) : invitation'[i] = invitation[i],
           \A i \in seen \ {Fresh} : i \notin Valid',
           writer \in overtaken \/ ValidFor(p) \subseteq seen,
           WritesTo(p, writer)
    PROVE  Cardinality(ValidFor(p)') <= 1 + blind'[p]
<1>1. Fresh \in Invitations
  BY FreshIsUnused
<1>2. \A i \in ValidFor(p)' : i = Fresh \/ (i \in ValidFor(p) /\ i \notin seen)
  BY DEF ValidFor, Valid, Pending
<1>3. blind[p] \in Nat /\ Cardinality(ValidFor(p)) <= 1 + blind[p]
  BY DEF TypeOK, LinksAreSeen
<1>4. CASE writer \in overtaken
  <2>1. blind'[p] = blind[p] + 1
    BY <1>4 DEF WritesTo, TypeOK
  <2>2. ValidFor(p)' \subseteq ValidFor(p) \cup {Fresh}
    BY <1>2
  <2>3. /\ Cardinality(ValidFor(p)') <= Cardinality(ValidFor(p)) + 1
        /\ Cardinality(ValidFor(p)) \in Nat /\ Cardinality(ValidFor(p)') \in Nat
    BY <1>1, <2>2, OneMore
  <2> QED
    BY <1>3, <2>1, <2>3
<1>5. CASE writer \notin overtaken
  <2>1. blind'[p] = blind[p]
    BY <1>5 DEF WritesTo
  <2>2. ValidFor(p)' \subseteq {Fresh}
    BY <1>2, <1>5
  <2>3. Cardinality(ValidFor(p)') <= 1 /\ Cardinality(ValidFor(p)') \in Nat
    BY <1>1, <2>2, OneMore
  <2> QED
    BY <1>3, <2>1, <2>3
<1> QED
  BY <1>4, <1>5

(* Whom somebody else is written to, nothing happens. *)
LEMMA OthersKeepLinks ==
    ASSUME TypeOK, NEW p \in People, NEW q, NEW writer, p # q, WritesTo(q, writer),
           ValidFor(p)' \subseteq ValidFor(p), LinksAreSeen(p)
    PROVE  Cardinality(ValidFor(p)') <= 1 + blind'[p]
<1>1. blind'[p] = blind[p] /\ blind[p] \in Nat
  BY DEF WritesTo, TypeOK
<1>2. IsFiniteSet(ValidFor(p))
  BY TeamsAssumption, FS_Subset DEF ValidFor, Valid, Pending
<1>3. Cardinality(ValidFor(p)') <= Cardinality(ValidFor(p)) /\ IsFiniteSet(ValidFor(p)')
  BY <1>2, FS_Subset
<1>4. Cardinality(ValidFor(p)') \in Nat /\ Cardinality(ValidFor(p)) \in Nat
  BY <1>2, <1>3, FS_CardinalityType
<1> QED
  BY <1>1, <1>3, <1>4 DEF LinksAreSeen

(* Who is about to insert waits for nothing but its insertion. *)
LEMMA RequestStays ==
    ASSUME TypeOK, RequestsHoldInvitations, Next, NEW c \in Requests,
           request[c].step = "insert", ~InsertInvitation(c)
    PROVE  request'[c] = request[c]
<1>0. request \in [Requests -> Request]
  BY DEF TypeOK
<1>1. request[c] # NoRequest
  BY DEF NoRequest
<1>2. ASSUME NEW d \in Requests \ {c},
             \/ \E p \in People : StartCreate(d, p)
             \/ \E i \in Invitations : StartAccept(d, i)
             \/ CountMembers(d) \/ CountPending(d) \/ RevokeEarlier(d)
             \/ InsertInvitation(d) \/ Join(d)
      PROVE  request'[c] = request[c]
  BY <1>0, <1>2 DEF StartCreate, StartAccept, CountMembers, CountPending, RevokeEarlier,
                    InsertInvitation, Join, Leave
<1>3. ASSUME \/ \E p \in People : StartCreate(c, p)
             \/ \E i \in Invitations : StartAccept(c, i)
             \/ CountMembers(c) \/ CountPending(c) \/ RevokeEarlier(c) \/ Join(c)
      PROVE  FALSE
  BY <1>1, <1>3 DEF StartCreate, StartAccept, CountMembers, CountPending, RevokeEarlier, Join
<1>4. ASSUME \/ \E i \in Invitations : Revoke(i) \/ Expire(i)
             \/ \E p \in People : Offboard(p) \/ Reinstate(p)
             \/ \E j \in Imports : StartImport(j)
             \/ \E w \in Workers : RunStep(w)
      PROVE  request'[c] = request[c]
  BY <1>4 DEF Revoke, Expire, Offboard, Reinstate, RunStep, StartImport, RunImport, TakeRow,
              LookUp, CreateInvitation, RowFails, FinishImport, RunThrows, LosesJob, others
<1> QED
  BY <1>2, <1>3, <1>4 DEF Next

LEMMA LinksHold ==
    ASSUME TypeOK, RunsHold, RequestsHoldInvitations, LinksAreExplained, Next
    PROVE  LinksAreExplained'
<1>0. /\ invitation \in [Invitations -> Invitation]
      /\ request \in [Requests -> Request]
      /\ run \in [Workers -> Run]
      /\ blind \in [People -> Nat]
  BY DEF TypeOK
<1>1. OvertakenWrite
  BY DEF LinksAreExplained
<1>2. Requests \cap Workers = {}
  BY TeamsAssumption
<1>3. ASSUME NEW c \in Requests, request'[c].step = "insert"
      PROVE  request'[c] = request[c] \/ RevokeEarlier(c)
  BY <1>3, RequestsMove DEF NoRequest
(* who writes, in the next state *)
<1>4. OvertakenWrite'
  <2>1. ASSUME NEW c \in Requests \cap overtaken'
        PROVE  request'[c].step = "insert"
    <3>1. ~InsertInvitation(c)
      BY OvertakenRequests
    <3>2. request[c].step = "insert"
      <4>1. CASE c \in overtaken
        BY <1>1, <4>1 DEF OvertakenWrite
      <4>2. ASSUME NEW d \in Requests \ {c}, InsertInvitation(d), c \notin overtaken
            PROVE  request[c].step = "insert"
        BY <1>2, <4>2 DEF InsertInvitation, WritesTo, WritingTo
      <4>3. ASSUME NEW w \in Workers, CreateInvitation(w), c \notin overtaken
            PROVE  request[c].step = "insert"
        BY <1>2, <4>3 DEF CreateInvitation, WritesTo, WritingTo
      <4> QED
        BY <4>1, <4>2, <4>3, OvertakenRequests
    <3>3. request'[c] = request[c]
      BY <1>0, <3>1, <3>2, RequestStays
    <3> QED
      BY <3>2, <3>3
  <2>2. ASSUME NEW w \in Workers \cap overtaken'
        PROVE  run'[w].step = "create"
    <3>1. CASE w \in overtaken
      BY <1>1, <3>1, WritersLookedUp DEF OvertakenWrite
    <3>2. CASE w \notin overtaken
      <4>1. ASSUME NEW d \in Requests, InsertInvitation(d)
            PROVE  run[w].step = "create" /\ run' = run
        BY <1>2, <3>2, <4>1 DEF InsertInvitation, WritesTo, WritingTo
      <4>2. ASSUME NEW v \in Workers, CreateInvitation(v)
            PROVE  run[w].step = "create" /\ run'[w] = run[w]
        <5>1. w # v /\ run[w].step = "create"
          BY <1>2, <3>2, <4>2 DEF CreateInvitation, WritesTo, WritingTo
        <5> QED
          BY <1>0, <4>2, <5>1, RowDoneKeeps DEF CreateInvitation
      <4>3. \/ \E d \in Requests : InsertInvitation(d)
            \/ \E v \in Workers : CreateInvitation(v)
            \/ w \in overtaken
        BY DEF Next, RunStep, StartCreate, StartAccept, CountMembers, CountPending, RevokeEarlier,
               Join, Revoke, Expire, Offboard, Reinstate, StartImport, RunImport, TakeRow, LookUp,
               RowFails, FinishImport, RunThrows, LosesJob, imports
      <4> QED
        BY <3>2, <4>1, <4>2, <4>3
    <3> QED
      BY <3>1, <3>2
  <2> QED
    BY <2>1, <2>2 DEF OvertakenWrite
<1> SUFFICES ASSUME NEW p \in People
             PROVE  LinksAreSeen(p)'
  BY <1>4 DEF LinksAreExplained
<1>5. LinksAreSeen(p)
  BY DEF LinksAreExplained
(* what has been seen, when nothing is added *)
<1>6. ASSUME ValidFor(p)' \subseteq ValidFor(p)
      PROVE  /\ \A w \in Workers \ overtaken' :
                  run'[w].step = "create" /\ run'[w].person = p => ValidFor(p)' = {}
             /\ \A c \in Requests \ overtaken' :
                  request'[c].step = "insert" /\ request'[c].person = p
                    => ValidFor(p)' \subseteq request'[c].earlier
  <2>1. ASSUME NEW w \in Workers \ overtaken', run'[w].step = "create", run'[w].person = p
        PROVE  ValidFor(p) = {}
    BY <1>1, <1>5, <2>1, WritersLookedUp DEF LinksAreSeen
  <2>2. ASSUME NEW c \in Requests \ overtaken', request'[c].step = "insert",
               request'[c].person = p
        PROVE  ValidFor(p) \subseteq request'[c].earlier
    <3>1. CASE RevokeEarlier(c)
      <4>1. request'[c].earlier = EarlierFor(p)
        BY <1>0, <2>2, <3>1 DEF RevokeEarlier, Request
      <4> QED
        BY <4>1 DEF EarlierFor, ValidFor, Valid
    <3>2. CASE request'[c] = request[c]
      <4>1. ~InsertInvitation(c)
        BY <1>0, <2>2 DEF InsertInvitation, Leave, NoRequest
      <4>2. c \notin overtaken
        BY <2>2, <4>1, OvertakenRequests
      <4> QED
        BY <1>5, <2>2, <3>2, <4>2 DEF LinksAreSeen
    <3> QED
      BY <1>3, <2>2, <3>1, <3>2
  <2> QED
    BY <1>6, <2>1, <2>2
(* the writes *)
<1>7. ASSUME NEW q \in People, NEW writer, WritesTo(q, writer),
             p = q, Cardinality(ValidFor(p)') <= 1 + blind'[p],
             \A c \in Requests : request'[c].step = "insert" => request'[c] = request[c] /\ c # writer,
             \A w \in Workers : run'[w].step = "create" => run'[w] = run[w] /\ w # writer
      PROVE  LinksAreSeen(p)'
  <2>1. \A c \in Requests \ overtaken' : ~(request'[c].step = "insert" /\ request'[c].person = p)
    BY <1>7 DEF WritesTo, WritingTo
  <2>2. \A w \in Workers \ overtaken' : ~(run'[w].step = "create" /\ run'[w].person = p)
    BY <1>7 DEF WritesTo, WritingTo
  <2> QED
    BY <1>7, <2>1, <2>2 DEF LinksAreSeen
<1>8. ASSUME NEW c \in Requests, InsertInvitation(c)
      PROVE  LinksAreSeen(p)'
  <2> DEFINE q == request[c].person
             seen == request[c].earlier \cap Pending
  <2>1. q \in People /\ WritesTo(q, c) /\ Unused # {} /\ run' = run
    BY <1>0, <1>8 DEF InsertInvitation, RequestsHoldInvitations, Holds, NoRequest, Request
  <2>2. /\ seen \subseteq Invitations
        /\ \A i \in Invitations \ ({Fresh} \cup seen) : invitation'[i] = invitation[i]
        /\ \A i \in seen \ {Fresh} : invitation'[i].status = "revoked"
        /\ invitation'[Fresh] = New(q)
    BY <1>0, <1>8, FreshIsUnused DEF InsertInvitation, Pending, Invitation
  <2>3. request' = [request EXCEPT ![c] = NoRequest]
    BY <1>8 DEF InsertInvitation, Leave
  <2>4. CASE p = q
    <3>1. c \in overtaken \/ ValidFor(p) \subseteq seen
      BY <1>5, <1>8, <2>4 DEF InsertInvitation, LinksAreSeen, ValidFor, Valid
    <3>2. \A i \in seen \ {Fresh} : i \notin Valid'
      BY <2>2 DEF Valid, Pending
    <3>3. WritesTo(p, c)
      BY <2>1, <2>4
    <3> HIDE DEF seen, q
    <3>4. Cardinality(ValidFor(p)') <= 1 + blind'[p]
      BY <1>1, <1>5, <2>1, <2>2, <3>1, <3>2, <3>3, LinkIsWritten
    <3>5. \A d \in Requests : request'[d].step = "insert" => request'[d] = request[d] /\ d # c
      BY <1>0, <2>3 DEF NoRequest
    <3>6. \A w \in Workers : run'[w].step = "create" => run'[w] = run[w] /\ w # c
      BY <1>2, <2>1
    <3> QED
      BY <1>7, <3>3, <3>4, <3>5, <3>6
  <2>5. CASE p # q
    <3> HIDE DEF seen, q
    <3>1. ValidFor(p)' \subseteq ValidFor(p)
      <4>1. \A i \in ValidFor(p)' : i # Fresh /\ i \notin seen
        BY <2>2, <2>5 DEF ValidFor, Valid, Pending, New
      <4> QED
        BY <2>2, <4>1 DEF ValidFor, Valid, Pending
    <3>2. Cardinality(ValidFor(p)') <= 1 + blind'[p]
      BY <1>5, <2>1, <2>5, <3>1, OthersKeepLinks
    <3> QED
      BY <1>6, <3>1, <3>2 DEF LinksAreSeen
  <2> QED
    BY <2>4, <2>5
<1>9. ASSUME NEW w \in Workers, CreateInvitation(w)
      PROVE  LinksAreSeen(p)'
  <2> DEFINE q == run[w].person
  <2>1. q \in People /\ WritesTo(q, w) /\ Unused # {} /\ request' = request /\ RowDone(w)
    BY <1>9 DEF CreateInvitation, RunsHold, others
  <2>2. /\ \A i \in Invitations \ {Fresh} : invitation'[i] = invitation[i]
        /\ invitation'[Fresh] = New(q)
    BY <1>0, <1>9, FreshIsUnused DEF CreateInvitation
  <2>3. CASE p = q
    <3>1. w \in overtaken \/ ValidFor(p) \subseteq {}
      BY <1>5, <1>9, <2>3 DEF CreateInvitation, LinksAreSeen
    <3>3. WritesTo(p, w)
      BY <2>1, <2>3
    <3>4. Cardinality(ValidFor(p)') <= 1 + blind'[p]
      <4> DEFINE none == {}
      <4>1. /\ none \subseteq Invitations
            /\ \A i \in Invitations \ ({Fresh} \cup none) : invitation'[i] = invitation[i]
            /\ \A i \in none \ {Fresh} : i \notin Valid'
            /\ w \in overtaken \/ ValidFor(p) \subseteq none
        BY <2>2, <3>1
      <4> HIDE DEF none
      <4> QED
        BY <1>1, <1>5, <2>1, <3>3, <4>1, LinkIsWritten
    <3>5. \A d \in Requests : request'[d].step = "insert" => request'[d] = request[d] /\ d # w
      BY <1>2, <2>1
    <3>6. \A v \in Workers : run'[v].step = "create" => run'[v] = run[v] /\ v # w
      BY <1>0, <2>1, RowDoneKeeps
    <3> HIDE DEF q
    <3> QED
      BY <1>7, <3>3, <3>4, <3>5, <3>6
  <2>4. CASE p # q
    <3> HIDE DEF q
    <3>1. ValidFor(p)' \subseteq ValidFor(p)
      <4>1. \A i \in ValidFor(p)' : i # Fresh
        BY <2>2, <2>4 DEF ValidFor, Valid, Pending, New
      <4> QED
        BY <2>2, <4>1 DEF ValidFor, Valid, Pending
    <3>2. Cardinality(ValidFor(p)') <= 1 + blind'[p]
      BY <1>5, <2>1, <2>4, <3>1, OthersKeepLinks
    <3> QED
      BY <1>6, <3>1, <3>2 DEF LinksAreSeen
  <2> QED
    BY <2>3, <2>4
<1>10. ASSUME \A c \in Requests : ~InsertInvitation(c), \A w \in Workers : ~CreateInvitation(w)
       PROVE  LinksAreSeen(p)'
  <2>1. ValidFor(p)' \subseteq ValidFor(p)
    BY <1>10, LinksBecomeFewer
  <2>2. blind' = blind
    BY <1>10
       DEF Next, RunStep, StartCreate, StartAccept, CountMembers, CountPending, RevokeEarlier,
           Join, Revoke, Expire, Offboard, Reinstate, StartImport, RunImport, TakeRow, LookUp,
           RowFails, FinishImport, RunThrows, LosesJob, imports
  <2>3. Cardinality(ValidFor(p)') <= Cardinality(ValidFor(p))
        /\ Cardinality(ValidFor(p)') \in Nat /\ Cardinality(ValidFor(p)) \in Nat
    <3>1. IsFiniteSet(ValidFor(p))
      BY TeamsAssumption, FS_Subset DEF ValidFor, Valid, Pending
    <3> QED
      BY <2>1, <3>1, FS_Subset, FS_CardinalityType
  <2>4. Cardinality(ValidFor(p)') <= 1 + blind'[p]
    BY <1>0, <1>5, <2>2, <2>3 DEF LinksAreSeen
  <2> QED
    BY <1>6, <2>1, <2>4 DEF LinksAreSeen
<1> QED
  BY <1>8, <1>9, <1>10

-----------------------------------------------------------------------------
(* The seats                                                                *)

(* One acceptance at a time stays so, and holds a valid invitation.         *)
LEMMA AcceptancesTakeTurns ==
    ASSUME TypeOK, RunsHold, RequestsHoldInvitations, SeatsAreCounted, Next, ~excused'
    PROVE  /\ \A c, d \in Accepting' : c = d
           /\ \A c \in Accepting' :
                /\ request'[c].invitation \in Valid'
                /\ \/ request'[c] = request[c] /\ c \in Accepting
                   \/ c \in Accepting /\ CountMembers(c)
                   \/ c \in Accepting /\ CountPending(c)
                   \/ request'[c].step = "members"
<1>0. request \in [Requests -> Request]
  BY DEF TypeOK
<1>1. ~excused
  BY EndsAreRemembered
<1>2. /\ \A c, d \in Accepting : c = d
      /\ \A c \in Accepting : request[c].invitation \in Valid
  BY <1>1 DEF SeatsAreCounted
<1>3. ASSUME NEW c \in Accepting'
      PROVE  \/ request'[c] = request[c] /\ c \in Accepting
             \/ /\ c \in Accepting
                /\ CountMembers(c) \/ CountPending(c)
                /\ request'[c].invitation = request[c].invitation
             \/ /\ request'[c].step = "members"
                /\ \E i \in Valid : request'[c].invitation = i /\ StartAccept(c, i)
  <2>1. c \in Requests /\ request'[c].kind = "accept"
    BY DEF Accepting
  <2>2. request'[c] # NoRequest
    BY <2>1 DEF NoRequest
  <2>3. \/ request'[c] = request[c]
        \/ /\ request[c].kind = "accept"
           /\ request'[c].invitation = request[c].invitation
           /\ CountMembers(c) \/ CountPending(c)
        \/ /\ request'[c].step = "members"
           /\ \E i \in Valid : request'[c].invitation = i /\ StartAccept(c, i)
    BY <2>1, <2>2, RequestsMove
  <2> QED
    BY <2>1, <2>3 DEF Accepting
<1>4. ASSUME NEW c \in Requests, NEW i \in Invitations, StartAccept(c, i)
      PROVE  Accepting = {} /\ \A d \in Requests \ {c} : request'[d] = request[d]
  BY <1>0, <1>4 DEF StartAccept
<1>5. ASSUME NEW c \in Accepting', NEW d \in Accepting'
      PROVE  c = d
  <2>1. c \in Requests /\ d \in Requests
    BY DEF Accepting
  <2>5. Valid \subseteq Invitations
    BY DEF Valid, Pending
  <2>2. CASE c \in Accepting /\ d \in Accepting
    BY <1>2, <2>2
  <2>3. CASE c \notin Accepting
    <3>1. PICK i \in Invitations : StartAccept(c, i)
      BY <1>3, <2>3, <2>5
    <3>2. d # c => d \in Accepting
      BY <1>4, <2>1, <3>1 DEF Accepting
    <3> QED
      BY <1>4, <2>1, <3>1, <3>2
  <2>4. CASE d \notin Accepting
    <3>1. PICK i \in Invitations : StartAccept(d, i)
      BY <1>3, <2>4, <2>5
    <3>2. c # d => c \in Accepting
      BY <1>4, <2>1, <3>1 DEF Accepting
    <3> QED
      BY <1>4, <2>1, <3>1, <3>2
  <2> QED
    BY <2>2, <2>3, <2>4
<1>6. ASSUME NEW c \in Accepting'
      PROVE  request'[c].invitation \in Valid'
  <2>1. CASE c \in Accepting /\ request'[c].invitation = request[c].invitation
    <3>1. request[c].invitation \in Valid \cap BeingAccepted
      BY <1>2, <2>1 DEF BeingAccepted
    <3>2. ASSUME NEW d \in Requests, Join(d)
          PROVE  FALSE
      <4>1. d \in Accepting /\ request' = [request EXCEPT ![d] = NoRequest]
        BY <3>2 DEF Join, Leave, Accepting
      <4>2. d = c
        BY <1>2, <2>1, <4>1
      <4> QED
        BY <1>0, <1>6, <4>1, <4>2 DEF Accepting, NoRequest
    <3> QED
      BY <2>1, <3>1, <3>2, EndsAreRemembered
  <2>2. ASSUME NEW i \in Valid, request'[c].invitation = i, StartAccept(c, i)
        PROVE  request'[c].invitation \in Valid'
    BY <2>2 DEF StartAccept, Valid, Pending
  <2> QED
    BY <1>3, <2>1, <2>2
<1> QED
  BY <1>3, <1>5, <1>6

LEMMA SeatsHold ==
    ASSUME TypeOK, RunsHold, RequestsHoldInvitations, SeatsAreCounted, Next
    PROVE  SeatsAreCounted'
<1>0. /\ member \in [People -> {"none", "active", "revoked"}]
      /\ request \in [Requests -> Request]
  BY DEF TypeOK
<1> SUFFICES ASSUME ~excused'
             PROVE  /\ Cardinality(Active)' <= Limit
                    /\ \A c \in Accepting' :
                         /\ request'[c].step = "pending" =>
                              Cardinality(Active)' <= request'[c].used
                         /\ request'[c].step = "write" => Cardinality(Active)' + 1 <= Limit
  BY AcceptancesTakeTurns DEF SeatsAreCounted
<1>1. /\ Cardinality(Active) <= Limit
      /\ \A c, d \in Accepting : c = d
      /\ \A c \in Accepting :
           /\ request[c].invitation \in Valid
           /\ request[c].step = "pending" => Cardinality(Active) <= request[c].used
           /\ request[c].step = "write" => Cardinality(Active) + 1 <= Limit
  BY EndsAreRemembered DEF SeatsAreCounted
<1>2. IsFiniteSet(Active) /\ Cardinality(Active) \in Nat /\ Limit \in Nat
  BY ActiveIsCounted, TeamsAssumption
<1>3. CASE \E c \in Requests : Join(c)
  <2>1. PICK c \in Requests : Join(c)
    BY <1>3
  <2>2. c \in Accepting /\ request[c].step = "write"
    BY <2>1 DEF Join, Accepting
  <2>3. Active' \subseteq Active \cup {request[c].person}
    BY <1>0, <2>1 DEF Join, Active
  <2>4. /\ IsFiniteSet(Active \cup {request[c].person})
        /\ Cardinality(Active \cup {request[c].person}) <= Cardinality(Active) + 1
        /\ Cardinality(Active \cup {request[c].person}) \in Nat
    <3>1. /\ IsFiniteSet(Active \cup {request[c].person})
          /\ Cardinality(Active \cup {request[c].person}) =
               IF request[c].person \in Active THEN Cardinality(Active)
               ELSE Cardinality(Active) + 1
      BY <1>2, FS_AddElement
    <3> QED
      BY <1>2, <3>1
  <2>5. Cardinality(Active') <= Cardinality(Active \cup {request[c].person})
        /\ Cardinality(Active') \in Nat
    BY <2>3, <2>4, FS_Subset, FS_CardinalityType
  <2>6. Cardinality(Active) + 1 <= Limit
    BY <1>1, <2>2
  <2>7. Accepting' = {}
    <3>1. request' = [request EXCEPT ![c] = NoRequest]
      BY <2>1 DEF Join, Leave
    <3>2. Accepting \subseteq {c}
      BY <1>1, <2>2
    <3> QED
      BY <1>0, <3>1, <3>2 DEF Accepting, NoRequest
  <2> QED
    BY <1>2, <2>4, <2>5, <2>6, <2>7
<1>4. CASE \E p \in People : Offboard(p)
  <2>1. Active' \subseteq Active /\ request' = request
    BY <1>0, <1>4 DEF Offboard, Active
  <2>2. Cardinality(Active') <= Cardinality(Active) /\ Cardinality(Active') \in Nat
    BY <1>2, <2>1, FS_Subset, FS_CardinalityType
  <2>3. Accepting' = Accepting /\ \A c \in Accepting : c \in Requests
    BY <2>1 DEF Accepting
  <2>4. \A c \in Accepting : request[c].used \in Nat
    BY <1>0, <2>3 DEF Request
  <2> QED
    BY <1>1, <1>2, <2>1, <2>2, <2>3, <2>4
<1>5. CASE UNCHANGED member
  <2>1. Active' = Active
    BY <1>5 DEF Active
  <2>2. ASSUME NEW c \in Accepting'
        PROVE  /\ request'[c].step = "pending" => Cardinality(Active) <= request'[c].used
               /\ request'[c].step = "write" => Cardinality(Active) + 1 <= Limit
    <3>0. c \in Requests /\ request[c] \in Request /\ request'[c].kind = "accept"
      BY <1>0 DEF Accepting
    <3>1. CASE request'[c] = request[c] /\ c \in Accepting
      BY <1>1, <3>1
    <3>2. CASE CountMembers(c)
      BY <1>0, <1>2, <3>0, <3>2 DEF CountMembers, Request
    <3>3. CASE c \in Accepting /\ CountPending(c)
      <4>1. request' # [request EXCEPT ![c] = NoRequest]
        BY <1>0, <3>0 DEF NoRequest
      <4>3. IsFiniteSet(Valid) /\ Cardinality(Valid) \in Nat
        BY TeamsAssumption, FS_Subset, FS_CardinalityType DEF Valid, Pending
      <4>2. /\ request[c].step = "pending" /\ request[c].kind = "accept"
            /\ request[c].used + Cardinality(Valid) <= Limit
            /\ request'[c].step = "write"
        <5>1. request[c].kind = "accept" /\ request[c].step = "pending"
          BY <3>3 DEF CountPending, Accepting
        <5>2. SeatsFit(c, 0) /\ request' = [request EXCEPT ![c].step = "write", ![c].used = 0]
          BY <3>3, <4>1, <5>1 DEF CountPending, Leave
        <5>3. request[c].used \in Nat /\ Cardinality(Valid) \in Nat
          BY <3>0, <4>3 DEF Request
        <5>4. request'[c].step = "write"
          BY <1>0, <3>0, <5>2 DEF Request
        <5> QED
          BY <5>1, <5>2, <5>3, <5>4 DEF SeatsFit
      <4>4. Cardinality(Valid) >= 1
        <5>1. {request[c].invitation} \subseteq Valid
          BY <1>1, <3>3
        <5>2. Cardinality({request[c].invitation}) = 1
          BY FS_Singleton
        <5> QED
          BY <4>3, <5>1, <5>2, FS_Subset
      <4>5. Cardinality(Active) <= request[c].used /\ request[c].used \in Nat
        BY <1>1, <3>0, <3>3, <4>2 DEF Request
      <4> QED
        BY <1>2, <4>2, <4>3, <4>4, <4>5
    <3>4. CASE request'[c].step = "members"
      BY <3>4
    <3> QED
      BY <3>1, <3>2, <3>3, <3>4, AcceptancesTakeTurns
  <2> QED
    BY <1>1, <2>1, <2>2
<1>6. ASSUME NEW p \in People, Reinstate(p)
      PROVE  FALSE
  BY <1>6 DEF Reinstate
<1>7. \/ \E c \in Requests : Join(c)
      \/ \E p \in People : Offboard(p) \/ Reinstate(p)
      \/ UNCHANGED member
  BY DEF Next, RunStep, StartCreate, StartAccept, CountMembers, CountPending, RevokeEarlier,
         InsertInvitation, Revoke, Expire, StartImport, RunImport, TakeRow, LookUp,
         CreateInvitation, RowFails, FinishImport, RunThrows, LosesJob, others
<1> QED
  BY <1>3, <1>4, <1>5, <1>6, <1>7

-----------------------------------------------------------------------------
(* The theorems                                                             *)

LEMMA InitHolds ==
    Init => IInv
<1> SUFFICES ASSUME Init
             PROVE  IInv
  OBVIOUS
<1> USE TeamsAssumption
<1>1. TypeOK
  <2>1. [status |-> "none", email |-> Nobody, expired |-> FALSE] \in Invitation
    BY DEF Invitation
  <2>2. invitation \in [Invitations -> Invitation]
    BY <2>1 DEF Init
  <2>3. member \in [People -> {"none", "active", "revoked"}]
    BY DEF Init
  <2>4. /\ request \in [Requests -> Request] /\ job \in [Imports -> Job]
        /\ run \in [Workers -> Run]
    BY NothingUnderWay DEF Init
  <2>5. offs \in 0..MaxOffs /\ stops \in 0..MaxStops
    BY DEF Init
  <2>6. /\ overtaken \in SUBSET (Requests \cup Workers) /\ blind \in [People -> Nat]
        /\ contested \in SUBSET Invitations /\ excused \in BOOLEAN
    BY DEF Init
  <2> QED
    BY <2>2, <2>3, <2>4, <2>5, <2>6 DEF TypeOK
<1>2. RunsHold
  BY DEF Init, RunsHold, NoJob, NoRun
<1>3. Valid = {}
  BY DEF Init, Valid, Pending
<1>4. \A c \in Requests : request[c] = NoRequest
  BY DEF Init
<1>5. RequestsHoldInvitations
  BY <1>3, <1>4 DEF RequestsHoldInvitations, Holds, NoRequest
<1>6. LinksAreExplained
  <2>1. \A p \in People : ValidFor(p) = {} /\ Cardinality(ValidFor(p)) <= 1 + blind[p]
    BY <1>3, FS_EmptySet DEF Init, ValidFor
  <2> QED
    BY <1>4, <2>1 DEF Init, LinksAreExplained, OvertakenWrite, LinksAreSeen, NoRequest, NoRun
<1>7. SeatsAreCounted
  <2>1. Active = {Owner}
    BY DEF Init, Active
  <2>2. Cardinality(Active) = 1
    BY <2>1, FS_Singleton
  <2>3. Accepting = {}
    BY <1>4 DEF Accepting, NoRequest
  <2> QED
    BY <2>2, <2>3 DEF SeatsAreCounted
<1> QED
  BY <1>1, <1>2, <1>5, <1>6, <1>7 DEF IInv

LEMMA StepHolds ==
    IInv /\ [Next]_vars => IInv'
<1> SUFFICES ASSUME IInv, [Next]_vars
             PROVE  IInv'
  OBVIOUS
<1>1. CASE Next
  BY <1>1, TypesHold, RunsStay, RequestsHold, LinksHold, SeatsHold DEF IInv
<1>2. CASE UNCHANGED vars
  <2>1. /\ TypeOK' /\ RunsHold'
    BY <1>2 DEF vars, IInv, TypeOK, RunsHold
  <2>2. RequestsHoldInvitations'
    BY <1>2 DEF vars, IInv, RequestsHoldInvitations, Holds, Settled, Valid, Pending
  <2>3. LinksAreExplained'
    BY <1>2 DEF vars, IInv, LinksAreExplained, OvertakenWrite, LinksAreSeen, ValidFor, Valid, Pending
  <2>4. SeatsAreCounted'
    BY <1>2 DEF vars, IInv, SeatsAreCounted, Active, Accepting, Valid, Pending
  <2> QED
    BY <2>1, <2>2, <2>3, <2>4 DEF IInv
<1> QED
  BY <1>1, <1>2

(* Runs, requests, links and seats are as the definitions above say in     *)
(* every state.                                                             *)
THEOREM InvariantHolds == Spec => []IInv
  BY InitHolds, StepHolds, PTL DEF Spec

(* Every row and every local holds a value of its type. *)
THEOREM TypeCorrect == Spec => []TypeOK
<1>1. IInv => TypeOK
  BY DEF IInv
<1> QED
  BY <1>1, InvariantHolds, PTL

(* assertSeatAvailable: with acceptances one at a time, none of whose       *)
(* invitations ends under it, and no reinstatement, members never outgrow   *)
(* the plan, whatever creations and imports do.                             *)
THEOREM WithinLimit == Spec => []MembersWithinLimit
<1>1. IInv => MembersWithinLimit
  BY DEF IInv, SeatsAreCounted, MembersWithinLimit
<1> QED
  BY <1>1, InvariantHolds, PTL

(* create and importRow: beyond one link a person has only those whose      *)
(* writers were overtaken between look and write, whatever runs throw,      *)
(* stall, go on without their lock or are repeated, in any number of        *)
(* processes.                                                               *)
THEOREM ExtraLinks == Spec => []ExtraLinksWereBlind
<1>1. IInv => ExtraLinksWereBlind
  BY DEF IInv, LinksAreExplained, LinksAreSeen, ExtraLinksWereBlind
<1> QED
  BY <1>1, InvariantHolds, PTL

(* The comment above revoke: what was withdrawn, replaced or has expired is *)
(* accepted only by somebody who was accepting it when it ended.            *)
THEOREM LinkDies == Spec => LinkDiesWithInvitation
<1>1. IInv /\ [Next]_vars =>
        [\A i \in Invitations :
           invitation'[i].status = "accepted" /\ invitation[i].status # "accepted"
             => i \in Valid \cup contested]_invitation
  <2> SUFFICES ASSUME IInv, Next, NEW i \in Invitations,
                      invitation'[i].status = "accepted", invitation[i].status # "accepted"
               PROVE  i \in Valid \cup contested
    BY DEF vars
  <2>0. invitation \in [Invitations -> Invitation]
    BY DEF IInv, TypeOK
  <2>1. ASSUME NEW c \in Requests, Join(c)
        PROVE  i \in Valid \cup contested
    <3>1. i = request[c].invitation
      BY <2>0, <2>1 DEF Join
    <3>2. Settled(request[c].invitation)
      BY <2>1 DEF Join, IInv, RequestsHoldInvitations, Holds
    <3> QED
      BY <3>1, <3>2 DEF Settled
  <2>2. ASSUME NEW c \in Requests, InsertInvitation(c)
        PROVE  FALSE
    BY <2>0, <2>2 DEF InsertInvitation, New, Invitation
  <2>3. ASSUME NEW k \in Invitations, Revoke(k) \/ Expire(k)
        PROVE  FALSE
    <3>1. CASE Revoke(k)
      BY <2>0, <3>1 DEF Revoke, Invitation
    <3>2. CASE Expire(k)
      BY <2>0, <3>2 DEF Expire, Invitation
    <3> QED
      BY <2>3, <3>1, <3>2
  <2>4. ASSUME NEW w \in Workers, CreateInvitation(w)
        PROVE  FALSE
    BY <2>0, <2>4 DEF CreateInvitation, New
  <2>5. \/ \E c \in Requests : InsertInvitation(c) \/ Join(c)
        \/ \E k \in Invitations : Revoke(k) \/ Expire(k)
        \/ \E w \in Workers : CreateInvitation(w)
        \/ UNCHANGED invitation
    BY DEF Next, RunStep, StartCreate, StartAccept, CountMembers, CountPending,
           RevokeEarlier, Offboard, Reinstate, StartImport, RunImport, TakeRow, LookUp,
           RowFails, FinishImport, RunThrows, LosesJob
  <2> QED
    BY <2>1, <2>2, <2>3, <2>4, <2>5
<1> QED
  BY <1>1, InvariantHolds, PTL DEF Spec, LinkDiesWithInvitation
=============================================================================
