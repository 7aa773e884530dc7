-------------------------------- MODULE Cards --------------------------------
(***************************************************************************)
(* Publishing a card: publish, unpublish and remove of apps/api/src/cards/ *)
(* cards.service.ts with the copies of its picture in the public bucket,   *)
(* and offboard of teams/members.service.ts, which hides the card of an    *)
(* employee who leaves.                                                    *)
(*                                                                         *)
(* A call reads the card, copies or writes, and cleans up in steps of its  *)
(* own: the database and the bucket share no transaction.  Calls overlap   *)
(* with each other and with edits, storage calls may fail, and the API     *)
(* process may stop between two steps.                                     *)
(***************************************************************************)
EXTENDS CardUpdate

CONSTANTS
    NoPublication,  \* a card that was never published
    MaxOps,         \* bound: how many lifecycle calls are made
    MaxFaults       \* bound: how often storage fails or a process stops

ASSUME CardsAssumption == MaxOps \in Nat /\ MaxFaults \in Nat

VARIABLES
    publication,  \* the latest row of card_publications: what visitors get
    media,        \* the keys under the card's prefix in the public bucket
    op,           \* a lifecycle call under way, by the call that makes it
    contentOf,    \* what each revision said
    overlapped,   \* two lifecycle calls have been under way at once
    ops, faults

pubVars == <<publication, media, op, overlapped, ops, faults>>

vars == <<card, save, contentOf, pubVars>>

Publication == [revision : Revisions, content : Content]

ASSUME NoPublicationAssumption == NoPublication \notin Publication

Op ==
    [kind : {"none", "publish", "unpublish", "remove"},
     step : {"idle", "copy", "commit", "list", "delete"},
     revision : Revisions,      \* the card as loaded
     content : Content,
     keep : SUBSET Avatars,     \* keepKeys of pruneStaleMedia
     stale : SUBSET Avatars]    \* what it has listed and will delete

NoOp ==
    [kind |-> "none", step |-> "idle", revision |-> 1,
     content |-> NoSave.content, keep |-> {}, stale |-> {}]

Init ==
    /\ CardInit
    /\ publication = NoPublication
    /\ media = {}
    /\ op = [c \in Calls |-> NoOp]
    /\ contentOf = [r \in Revisions |-> card.content]
    /\ overlapped = FALSE
    /\ ops = 0
    /\ faults = 0

UnderWay == {c \in Calls : op[c] # NoOp}

Visible == card.status = "published" /\ ~card.deleted

-----------------------------------------------------------------------------
(* Editing                                                                  *)

Edit(c) ==
    /\ op[c] = NoOp
    /\ OpenCard(c) \/ CheckUpdate(c) \/ CommitUpdate(c)
    /\ contentOf' = [contentOf EXCEPT ![card'.revision] = card'.content]
    /\ UNCHANGED pubVars

-----------------------------------------------------------------------------
(* The steps lifecycle calls share                                          *)

(* loadCard; what has been deleted is not found. *)
Start(c, kind, step) ==
    /\ op[c] = NoOp
    /\ save[c].step = "idle"
    /\ ~card.deleted
    /\ ops < MaxOps
    /\ ops' = ops + 1
    /\ op' = [op EXCEPT ![c] = [NoOp EXCEPT !.kind = kind, !.step = step,
                                            !.revision = card.revision,
                                            !.content = card.content]]
    /\ overlapped' = (overlapped \/ UnderWay # {})
    /\ UNCHANGED <<card, save, contentOf, publication, media, faults>>

(* The call returns. *)
End(c) == op' = [op EXCEPT ![c] = NoOp]

PruneAll(c, keep) == op' = [op EXCEPT ![c].step = "list"]

(* pruneStaleMedia follows, to keep these. *)
Prune(c, keep) == op' = [op EXCEPT ![c].step = "list", ![c].keep = keep]

ListMedia(c) ==
    /\ op[c].step = "list"
    /\ op' = [op EXCEPT ![c].step = "delete", ![c].stale = media \ op[c].keep]
    /\ UNCHANGED <<card, save, contentOf, publication, media, overlapped, ops, faults>>

DeleteStale(c) ==
    /\ op[c].step = "delete"
    /\ media' = media \ op[c].stale
    /\ End(c)
    /\ UNCHANGED <<card, save, contentOf, publication, overlapped, ops, faults>>

(* A storage call fails, which ends a publication and is only logged in a   *)
(* clean-up; or the process stops.                                          *)
CutShort(c) ==
    /\ op[c] # NoOp
    /\ faults < MaxFaults
    /\ faults' = faults + 1
    /\ End(c)
    /\ UNCHANGED <<card, save, contentOf, publication, media, overlapped, ops>>

-----------------------------------------------------------------------------
(* publish                                                                  *)

StartPublish(c) == Start(c, "publish", "copy")

Publishable(content) == content.text # Blank

(* The picture is copied before publishBlockers is asked. *)
CopyMedia(c) ==
    /\ op[c].step = "copy"
    /\ media' = media \cup {op[c].content.avatar}
    /\ IF Publishable(op[c].content)
       THEN op' = [op EXCEPT ![c].step = "commit"]
       ELSE End(c)
    /\ UNCHANGED <<card, save, contentOf, publication, overlapped, ops, faults>>

StillExists(c) == ~card.deleted

(* The condition of its updateMany: the card is still the one loaded. *)
Unchanged(c) == card.revision = op[c].revision /\ ~card.deleted

CommitPublish(c) ==
    /\ op[c].kind = "publish"
    /\ op[c].step = "commit"
    /\ IF Unchanged(c)
       THEN /\ card' = [card EXCEPT !.status = "published"]
            /\ publication' = [revision |-> op[c].revision, content |-> op[c].content]
            /\ Prune(c, {op[c].content.avatar})
       ELSE /\ End(c)
            /\ UNCHANGED <<card, publication>>
    /\ UNCHANGED <<save, contentOf, media, overlapped, ops, faults>>

-----------------------------------------------------------------------------
(* unpublish and remove                                                     *)

StartUnpublish(c) == card.status = "published" /\ Start(c, "unpublish", "commit")

StartRemove(c) == Start(c, "remove", "commit")

Hide(c) ==
    /\ op[c].kind \in {"unpublish", "remove"}
    /\ op[c].step = "commit"
    /\ card' = IF card.deleted THEN card
               ELSE [card EXCEPT !.status = "unpublished",
                                 !.deleted = (op[c].kind = "remove")]
    /\ Prune(c, {})
    /\ UNCHANGED <<save, contentOf, publication, media, overlapped, ops, faults>>

(* offboard hides every published card of the employee, in its transaction; *)
(* the bucket is not its business.                                          *)
Offboard ==
    /\ card.status = "published"
    /\ ops < MaxOps
    /\ ops' = ops + 1
    /\ card' = [card EXCEPT !.status = "unpublished"]
    /\ UNCHANGED <<save, contentOf, publication, media, op, overlapped, faults>>

-----------------------------------------------------------------------------

Next ==
    \/ \E c \in Calls :
        \/ Edit(c)
        \/ StartPublish(c)
        \/ CopyMedia(c)
        \/ CommitPublish(c)
        \/ StartUnpublish(c)
        \/ StartRemove(c)
        \/ Hide(c)
        \/ ListMedia(c)
        \/ DeleteStale(c)
        \/ CutShort(c)
    \/ Offboard

Spec == Init /\ [][Next]_vars

-----------------------------------------------------------------------------
(* Properties                                                               *)

(* Every column, key and local holds a value of its type. *)
TypeOK ==
    /\ CardTypeOK
    /\ publication \in Publication \cup {NoPublication}
    /\ media \in SUBSET Avatars
    /\ op \in [Calls -> Op]
    /\ contentOf \in [Revisions -> Content]
    /\ overlapped \in BOOLEAN
    /\ ops \in 0..MaxOps
    /\ faults \in 0..MaxFaults

(* docs/cards/publishing.md, 2: a visitor sees the card as it was at one    *)
(* revision that was fit to be seen, never half an edit; and the card lists *)
(* no unpublished changes only when the visitor sees what the editor shows. *)
VisitorsSeeARevision ==
    Visible =>
        /\ publication # NoPublication
        /\ publication.content = contentOf[publication.revision]
        /\ Publishable(publication.content)
        /\ publication.revision = card.revision => publication.content = card.content

(* The picture a public page shows is there, whatever edits, failed         *)
(* clean-ups and stopped calls came in between, as long as no two lifecycle *)
(* calls of the card have overlapped.                                       *)
PublicPictureExists ==
    Visible /\ ~overlapped => publication.content.avatar \in media

(* A card goes back to an earlier text only by an edit: a publication that  *)
(* was prepared before an edit does not come out after it.                  *)
PublicationsMoveForward ==
    [][publication # NoPublication => publication'.revision >= publication.revision]_publication

-----------------------------------------------------------------------------
(* What docs and comments say, and the code does not do                     *)

(* docs/cards/publishing.md, 5: the public bucket holds the pictures of     *)
(* published cards only, and all are deleted when a card is hidden.  But    *)
(* publish copies before it asks whether the card may be published, and     *)
(* offboard hides without cleaning up.                                      *)
HiddenCardHasNoPublicPicture ==
    ~Visible /\ UnderWay = {} => media = {}

(* docs/branding/policies.md, 3, and the comment above pathPresent: a field *)
(* the policy locks is not touched without an approval, in whatever         *)
(* language it is changed.                                                  *)
LockedFieldsNeedApproval ==
    [][\A f \in Locked : card'.content[f] # card.content[f] =>
         \E c \in Approvers : save[c].step = "commit"]_card
=============================================================================
