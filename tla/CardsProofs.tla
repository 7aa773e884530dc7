----------------------------- MODULE CardsProofs -----------------------------
(***************************************************************************)
(* Cards, for any number of calls, texts, pictures, requests and           *)
(* revisions.  First publishing: what a visitor sees is one revision of    *)
(* the card that was fit to be seen, it never goes back, and its picture   *)
(* exists.  Then change requests: what a request says happened to the card *)
(* did, and it happened to the text the requester saw.                     *)
(***************************************************************************)
EXTENDS Cards, Approvals, TLAPS

-----------------------------------------------------------------------------
(* Publishing: what an edit does to the card                                *)

LEMMA NoSaveIsSave ==
    ASSUME Content # {}
    PROVE  NoSave \in Save
<1>1. (CHOOSE content \in Content : TRUE) \in Content
  OBVIOUS
<1> HIDE DEF Content
<1> QED
  BY <1>1, CardAssumption DEF NoSave, Save, Revisions

LEMMA CardInitHolds ==
    ASSUME CardInit
    PROVE  CardTypeOK
<1>1. PICK avatar \in Avatars :
        card = [revision |-> 1, content |-> [text |-> Blank, avatar |-> avatar],
                status |-> "draft", deleted |-> FALSE]
  BY DEF CardInit
<1>2. [text |-> Blank, avatar |-> avatar] \in Content
  BY CardAssumption DEF Content
<1>3. save = [c \in Calls |-> NoSave] /\ NoSave \in Save
  BY <1>2, NoSaveIsSave DEF CardInit
<1>4. card \in CardRow
  BY <1>1, <1>2, CardAssumption DEF CardRow, Revisions
<1> QED
  BY <1>3, <1>4 DEF CardTypeOK

(* It says something else in a new revision, or nothing has changed;        *)
(* whether the card is published an edit does not touch.                    *)
LEMMA EditHolds ==
    ASSUME CardTypeOK, NEW c \in Calls,
           OpenCard(c) \/ CheckUpdate(c) \/ CommitUpdate(c)
    PROVE  /\ CardTypeOK'
           /\ \/ card' = card
              \/ /\ card'.revision = card.revision + 1
                 /\ card'.status = card.status
                 /\ card'.deleted = card.deleted
<1>1. card \in CardRow /\ save \in [Calls -> Save] /\ NoSave \in Save
  BY NoSaveIsSave DEF CardTypeOK, CardRow
<1>2. CloseCard(c) => save' \in [Calls -> Save]
  BY <1>1 DEF CloseCard
<1>3. CASE OpenCard(c)
  BY <1>1, <1>3 DEF OpenCard, CardTypeOK, CardRow, Save
<1>4. CASE CheckUpdate(c)
  <2>1. card' = card
    BY <1>4 DEF CheckUpdate
  <2>2. CloseCard(c) \/ \E new \in Content :
          save' = [save EXCEPT ![c].step = "commit", ![c].content = new]
    <3>1. \E fields \in SUBSET Fields \ {{}} : \E new \in Edits(fields) :
            \/ save' = [save EXCEPT ![c].step = "commit", ![c].content = new]
            \/ CloseCard(c)
      BY <1>4, Zenon DEF CheckUpdate
    <3>2. \A fields : Edits(fields) \subseteq Content
      BY DEF Edits
    <3> QED
      BY <3>1, <3>2, Zenon
  <2>3. save' \in [Calls -> Save]
    BY <1>1, <1>2, <2>2 DEF Save
  <2> QED
    BY <1>1, <2>1, <2>3 DEF CardTypeOK
<1>5. CASE CommitUpdate(c)
  <2>1. CASE MayCommit(c)
    <3>1. /\ card.revision < MaxRevision
          /\ card' = [card EXCEPT !.content = save[c].content, !.revision = @ + 1]
      BY <1>5, <2>1 DEF CommitUpdate, Written
    <3>2. save[c].content \in Content
      BY <1>1 DEF Save
    <3>3. card.revision + 1 \in Revisions
      BY <1>1, <3>1, CardAssumption DEF CardRow, Revisions
    <3>4. card' = [revision |-> card.revision + 1, content |-> save[c].content,
                   status |-> card.status, deleted |-> card.deleted]
      BY <1>1, <3>1 DEF CardRow
    <3>5. card' \in CardRow
      BY <1>1, <3>2, <3>3, <3>4 DEF CardRow
    <3> QED
      BY <1>2, <1>5, <3>4, <3>5 DEF CommitUpdate, CardTypeOK
  <2>2. CASE ~MayCommit(c)
    BY <1>1, <1>2, <1>5, <2>2 DEF CommitUpdate, CardTypeOK
  <2> QED
    BY <2>1, <2>2
<1> QED
  BY <1>3, <1>4, <1>5

(* Publishing, hiding and deleting a card leave what it says alone. *)
LEMMA StatusHolds ==
    ASSUME CardTypeOK, UNCHANGED save, card' \in CardRow
    PROVE  CardTypeOK'
  BY DEF CardTypeOK

-----------------------------------------------------------------------------
(* What a publication keeps                                                 *)

(* What a publication shows, and what one under way has loaded, is what a   *)
(* revision of the card says.                                               *)
PublicationIsARevision ==
    publication # NoPublication =>
        /\ publication.revision <= card.revision
        /\ publication.content = contentOf[publication.revision]
        /\ Publishable(publication.content)

LoadedIsARevision ==
    \A c \in Calls : op[c].step # "idle" =>
        /\ op[c].revision <= card.revision
        /\ op[c].content = contentOf[op[c].revision]
        /\ op[c].kind = "publish" /\ op[c].step = "commit" => Publishable(op[c].content)

RevisionsRemember ==
    /\ contentOf[card.revision] = card.content
    /\ PublicationIsARevision
    /\ LoadedIsARevision
    /\ card.status = "published" => publication # NoPublication

(* One call at a time: the picture of the public page is there, and neither *)
(* the publication about to be written nor the clean-up under way changes   *)
(* that.                                                                    *)
PictureIsKept ==
    ~overlapped =>
        /\ \A c, d \in UnderWay : c = d
        /\ Visible => publication.content.avatar \in media
        /\ \A c \in Calls :
             /\ op[c].kind = "publish" /\ op[c].step = "commit"
                  => op[c].content.avatar \in media
             /\ op[c].step = "list" /\ Visible
                  => publication.content.avatar \in op[c].keep
             /\ op[c].step = "delete" /\ Visible
                  => publication.content.avatar \notin op[c].stale

IInv ==
    /\ TypeOK
    /\ RevisionsRemember
    /\ PictureIsKept

-----------------------------------------------------------------------------
(* Types                                                                    *)

LEMMA NoOpIsOp ==
    ASSUME CardTypeOK
    PROVE  NoOp \in Op /\ NoOp.step = "idle" /\ NoOp.kind = "none"
<1>1. Content # {}
  BY DEF CardTypeOK, CardRow
<1>2. NoSave.content \in Content
  BY <1>1, NoSaveIsSave DEF Save
<1>3. 1 \in Revisions
  BY CardAssumption DEF Revisions
<1> QED
  BY <1>2, <1>3 DEF NoOp, Op

(* What each step does to the card: its content and its revision change by  *)
(* an edit only.                                                            *)
LEMMA CardSteps ==
    ASSUME TypeOK, Next
    PROVE  /\ CardTypeOK'
           /\ \/ \E c \in Calls : Edit(c)
              \/ /\ card'.revision = card.revision
                 /\ card'.content = card.content
                 /\ UNCHANGED <<save, contentOf>>
<1> USE DEF TypeOK
<1>1. ASSUME NEW c \in Calls, Edit(c)
      PROVE  CardTypeOK'
  BY <1>1, EditHolds DEF Edit
<1>2. ASSUME NEW c \in Calls,
             StartPublish(c) \/ StartUnpublish(c) \/ StartRemove(c) \/ CopyMedia(c)
               \/ ListMedia(c) \/ DeleteStale(c) \/ CutShort(c)
      PROVE  UNCHANGED <<card, save, contentOf>>
  BY <1>2 DEF StartPublish, StartUnpublish, StartRemove, Start, CopyMedia, ListMedia,
              DeleteStale, CutShort
<1>3. ASSUME NEW c \in Calls, CommitPublish(c) \/ Hide(c)
      PROVE  /\ card' \in CardRow
             /\ card'.revision = card.revision /\ card'.content = card.content
             /\ UNCHANGED <<save, contentOf>>
  <2>1. CASE CommitPublish(c)
    BY <2>1 DEF CommitPublish, CardTypeOK, CardRow
  <2>2. CASE Hide(c)
    BY <2>2 DEF Hide, CardTypeOK, CardRow
  <2> QED
    BY <1>3, <2>1, <2>2
<1>4. ASSUME Offboard
      PROVE  /\ card' \in CardRow
             /\ card'.revision = card.revision /\ card'.content = card.content
             /\ UNCHANGED <<save, contentOf>>
  BY <1>4 DEF Offboard, CardTypeOK, CardRow
<1>5. CASE \E c \in Calls : Edit(c)
  BY <1>1, <1>5
<1>6. CASE UNCHANGED <<card, save, contentOf>>
  BY <1>6, StatusHolds DEF CardTypeOK
<1>7. CASE /\ card' \in CardRow
           /\ card'.revision = card.revision /\ card'.content = card.content
           /\ UNCHANGED <<save, contentOf>>
  BY <1>7, StatusHolds
<1> QED
  BY <1>2, <1>3, <1>4, <1>5, <1>6, <1>7 DEF Next

LEMMA TypesHold ==
    ASSUME TypeOK, Next
    PROVE  TypeOK'
<1>1. CardTypeOK' /\ CardTypeOK
  BY CardSteps DEF TypeOK
<1>2. card.revision \in Revisions /\ card.content \in Content
  BY <1>1 DEF CardTypeOK, CardRow
<1> USE CardsAssumption DEF TypeOK
<1>3. ASSUME NEW c \in Calls, Edit(c)
      PROVE  TypeOK'
  <2>1. card'.revision \in Revisions /\ card'.content \in Content
    BY <1>1 DEF CardTypeOK, CardRow
  <2> QED
    BY <1>1, <1>3, <2>1 DEF Edit, pubVars
<1>4. ASSUME NEW c \in Calls, NEW kind \in {"publish", "unpublish", "remove"},
             NEW step \in {"copy", "commit"}, Start(c, kind, step)
      PROVE  TypeOK'
  <2>1. op' \in [Calls -> Op]
    <3>1. [NoOp EXCEPT !.kind = kind, !.step = step, !.revision = card.revision,
                       !.content = card.content] \in Op
      BY <1>1, <1>2, NoOpIsOp DEF Op
    <3> QED
      BY <1>4, <3>1 DEF Start
  <2>2. ops' \in 0..MaxOps
    BY <1>4 DEF Start
  <2>3. overlapped' \in BOOLEAN
    BY <1>4 DEF Start
  <2> QED
    BY <1>1, <1>4, <2>1, <2>2, <2>3 DEF Start
<1>5. ASSUME NEW c \in Calls, CopyMedia(c)
      PROVE  TypeOK'
  <2>1. op' \in [Calls -> Op]
    BY <1>1, <1>5, NoOpIsOp DEF CopyMedia, End, Op
  <2>2. op[c].content.avatar \in Avatars
    BY DEF Op, Content
  <2> QED
    BY <1>1, <1>5, <2>1, <2>2 DEF CopyMedia
<1>6. ASSUME NEW c \in Calls, CommitPublish(c)
      PROVE  TypeOK'
  <2>1. /\ op[c].revision \in Revisions
        /\ op[c].content \in Content
        /\ op[c].content.avatar \in Avatars
    BY DEF Op, Content
  <2>2. op' \in [Calls -> Op]
    <3>1. [op[c] EXCEPT !.step = "list", !.keep = {op[c].content.avatar}] \in Op
      BY <2>1 DEF Op
    <3> QED
      BY <1>1, <1>6, <3>1, NoOpIsOp DEF CommitPublish, End, Prune
  <2>3. publication' \in Publication \cup {NoPublication}
    BY <1>6, <2>1 DEF CommitPublish, Publication
  <2> QED
    BY <1>1, <1>6, <2>2, <2>3 DEF CommitPublish
<1>7. ASSUME NEW c \in Calls, Hide(c)
      PROVE  TypeOK'
  <2>1. op' \in [Calls -> Op]
    <3> DEFINE pruning == [op[c] EXCEPT !.step = "list", !.keep = {}]
    <3>1. pruning \in Op
      BY DEF Op
    <3>2. op' = [op EXCEPT ![c] = pruning]
      BY <1>7 DEF Hide, Prune
    <3> HIDE DEF pruning
    <3> QED
      BY <3>1, <3>2
  <2> QED
    BY <1>1, <1>7, <2>1 DEF Hide
<1>8. ASSUME NEW c \in Calls, ListMedia(c)
      PROVE  TypeOK'
  <2>1. op' \in [Calls -> Op]
    <3> DEFINE listed == [op[c] EXCEPT !.step = "delete", !.stale = media \ op[c].keep]
    <3>1. listed \in Op
      BY DEF Op
    <3>2. op' = [op EXCEPT ![c] = listed]
      BY <1>8 DEF ListMedia
    <3> HIDE DEF listed
    <3> QED
      BY <3>1, <3>2
  <2> QED
    BY <1>1, <1>8, <2>1 DEF ListMedia
<1>9. ASSUME NEW c \in Calls, DeleteStale(c)
      PROVE  TypeOK'
  BY <1>1, <1>9, NoOpIsOp DEF DeleteStale, End
<1>10. ASSUME NEW c \in Calls, CutShort(c)
       PROVE  TypeOK'
  <2>1. faults' \in 0..MaxFaults
    BY <1>10 DEF CutShort
  <2> QED
    BY <1>1, <1>10, <2>1, NoOpIsOp DEF CutShort, End
<1>11. ASSUME Offboard
       PROVE  TypeOK'
  <2>1. ops' \in 0..MaxOps
    BY <1>11 DEF Offboard
  <2> QED
    BY <1>1, <1>11, <2>1 DEF Offboard
<1> QED
  BY <1>3, <1>4, <1>5, <1>6, <1>7, <1>8, <1>9, <1>10, <1>11
     DEF Next, StartPublish, StartUnpublish, StartRemove

-----------------------------------------------------------------------------
(* Revisions                                                                *)

(* An edit adds a revision and rewrites none. *)
LEMMA EditRemembers ==
    ASSUME TypeOK, RevisionsRemember, NEW c \in Calls, Edit(c)
    PROVE  RevisionsRemember'
<1>1. /\ CardTypeOK /\ CardTypeOK'
      /\ \/ card' = card
         \/ /\ card'.revision = card.revision + 1
            /\ card'.status = card.status
            /\ card'.deleted = card.deleted
  BY EditHolds DEF Edit, TypeOK
<1>2. UNCHANGED <<publication, media, op, overlapped, ops, faults>>
  BY DEF Edit, pubVars
<1>3. /\ card.revision \in Nat /\ card.revision \in Revisions /\ card'.revision \in Revisions
      /\ card'.revision >= card.revision
      /\ card'.status = card.status
  BY <1>1, CardAssumption DEF CardTypeOK, CardRow, Revisions
<1>4. /\ contentOf'[card'.revision] = card'.content
      /\ \A r \in Revisions : r <= card.revision => contentOf'[r] = contentOf[r]
  <2>1. contentOf' = [contentOf EXCEPT ![card'.revision] = card'.content]
    BY DEF Edit
  <2>2. contentOf \in [Revisions -> Content]
    BY DEF TypeOK
  <2>3. CASE card' = card
    BY <1>3, <2>1, <2>2, <2>3 DEF RevisionsRemember
  <2>4. CASE card'.revision = card.revision + 1
    BY <1>3, <2>1, <2>2, <2>4 DEF Revisions
  <2> QED
    BY <1>1, <2>3, <2>4
<1>5. PublicationIsARevision'
  <2>1. publication # NoPublication => publication.revision \in Revisions
    BY DEF TypeOK, Publication
  <2> QED
    BY <1>2, <1>3, <1>4, <2>1, CardAssumption
       DEF RevisionsRemember, PublicationIsARevision, Publishable, Revisions
<1>6. LoadedIsARevision'
  <2>1. \A d \in Calls : op[d].revision \in Revisions
    BY DEF TypeOK, Op
  <2> QED
    BY <1>2, <1>3, <1>4, <2>1, CardAssumption
       DEF RevisionsRemember, LoadedIsARevision, Publishable, Revisions
<1> QED
  BY <1>2, <1>3, <1>4, <1>5, <1>6 DEF RevisionsRemember

LEMMA RevisionsHold ==
    ASSUME TypeOK, RevisionsRemember, Next
    PROVE  RevisionsRemember'
<1> USE DEF RevisionsRemember
<1>1. CASE \E c \in Calls : Edit(c)
  BY <1>1, EditRemembers
<1>2. ASSUME card'.revision = card.revision, card'.content = card.content,
             UNCHANGED <<save, contentOf>>
      PROVE  RevisionsRemember'
  <2>1. /\ op \in [Calls -> Op]
        /\ card.revision \in Nat
        /\ NoOp.step = "idle"
    BY NoOpIsOp, CardAssumption DEF TypeOK, CardTypeOK, CardRow, Revisions
  <2>2. ASSUME NEW c \in Calls, NEW kind \in {"publish", "unpublish", "remove"},
               NEW step \in {"copy", "commit"}, Start(c, kind, step),
               kind = "publish" => step = "copy"
        PROVE  RevisionsRemember'
    <3>1. UNCHANGED <<card, publication, contentOf>>
      BY <2>2 DEF Start
    <3>2. op' = [op EXCEPT ![c] = [NoOp EXCEPT !.kind = kind, !.step = step,
                       !.revision = card.revision, !.content = card.content]]
      BY <2>2 DEF Start
    <3>3. /\ op'[c].kind = kind /\ op'[c].step = step
          /\ op'[c].revision = card.revision /\ op'[c].content = card.content
      BY <2>1, <3>2 DEF NoOp
    <3>4. LoadedIsARevision'
      BY <2>1, <2>2, <3>1, <3>2, <3>3 DEF LoadedIsARevision, Publishable
    <3> QED
      BY <3>1, <3>4 DEF PublicationIsARevision, Publishable
  <2>3. ASSUME NEW c \in Calls, CopyMedia(c)
        PROVE  RevisionsRemember'
    <3>1. UNCHANGED <<card, publication, contentOf>>
      BY <2>3 DEF CopyMedia
    <3>2. /\ \A d \in Calls \ {c} : op'[d] = op[d]
          /\ op[c].step = "copy"
          /\ \/ /\ op'[c].revision = op[c].revision
                /\ op'[c].content = op[c].content
                /\ Publishable(op[c].content)
             \/ op'[c].step = "idle"
      BY <2>1, <2>3 DEF CopyMedia, End, Op
    <3>3. LoadedIsARevision'
      BY <3>1, <3>2 DEF LoadedIsARevision, Publishable
    <3> QED
      BY <3>1, <3>3 DEF PublicationIsARevision, Publishable
  <2>4. ASSUME NEW c \in Calls, CommitPublish(c)
        PROVE  RevisionsRemember'
    <3>1. /\ \A d \in Calls \ {c} : op'[d] = op[d]
          /\ op[c].kind = "publish" /\ op[c].step = "commit"
          /\ \/ /\ op'[c].revision = op[c].revision
                /\ op'[c].content = op[c].content
                /\ op'[c].step = "list"
             \/ op'[c].step = "idle"
      BY <2>1, <2>4 DEF CommitPublish, End, Prune, Op
    <3>2. LoadedIsARevision'
      BY <1>2, <3>1 DEF LoadedIsARevision, Publishable
    <3>3. CASE Unchanged(c)
      <4>1. publication' = [revision |-> op[c].revision, content |-> op[c].content]
        BY <2>4, <3>3 DEF CommitPublish
      <4>2. publication'.revision <= card'.revision
        BY <1>2, <2>1, <3>3, <4>1 DEF Unchanged
      <4>3. /\ publication'.content = contentOf'[publication'.revision]
            /\ Publishable(publication'.content)
        BY <1>2, <3>1, <4>1 DEF LoadedIsARevision
      <4>4. publication' \in Publication
        BY <4>1 DEF TypeOK, Op, Publication
      <4> QED
        BY <1>2, <3>2, <4>2, <4>3, <4>4, NoPublicationAssumption
           DEF PublicationIsARevision, Publishable
    <3>4. CASE ~Unchanged(c)
      BY <2>4, <1>2, <3>2, <3>4 DEF CommitPublish, PublicationIsARevision, Publishable
    <3> QED
      BY <3>3, <3>4
  <2>5. ASSUME NEW c \in Calls, Hide(c) \/ ListMedia(c) \/ DeleteStale(c) \/ CutShort(c)
        PROVE  RevisionsRemember'
    <3>1. UNCHANGED publication
      BY <2>5 DEF Hide, ListMedia, DeleteStale, CutShort
    <3>2. card'.status = "published" => card.status = "published"
      BY <2>5 DEF Hide, ListMedia, DeleteStale, CutShort, TypeOK, CardTypeOK, CardRow
    <3>3. /\ \A d \in Calls \ {c} : op'[d] = op[d]
          /\ \/ /\ op[c].step # "idle"
                /\ op'[c].revision = op[c].revision
                /\ op'[c].content = op[c].content
                /\ op'[c].step # "commit"
             \/ op'[c].step = "idle"
      BY <2>1, <2>5 DEF Hide, Prune, ListMedia, DeleteStale, CutShort, End, Op
    <3>4. LoadedIsARevision'
      BY <1>2, <3>3 DEF LoadedIsARevision, Publishable
    <3> QED
      BY <1>2, <3>1, <3>2, <3>4 DEF PublicationIsARevision, Publishable
  <2>6. ASSUME Offboard
        PROVE  RevisionsRemember'
    <3>1. UNCHANGED <<publication, op>> /\ card'.status # "published"
      BY <2>6 DEF Offboard, TypeOK, CardTypeOK, CardRow
    <3> QED
      BY <1>2, <3>1 DEF PublicationIsARevision, LoadedIsARevision, Publishable
  <2> QED
    BY <1>1, <2>2, <2>3, <2>4, <2>5, <2>6
       DEF Next, StartPublish, StartUnpublish, StartRemove
<1> QED
  BY <1>1, <1>2, CardSteps

-----------------------------------------------------------------------------
(* The picture                                                              *)

(* Once alone, a call that goes on is alone. *)
LEMMA PicturesHold ==
    ASSUME TypeOK, PictureIsKept, Next
    PROVE  PictureIsKept'
<1> SUFFICES ASSUME ~overlapped'
             PROVE  PictureIsKept'
  BY DEF PictureIsKept
<1> USE DEF PictureIsKept
<1>1. /\ op \in [Calls -> Op]
      /\ NoOp.step = "idle" /\ NoOp.kind = "none"
      /\ \A c \in Calls : op[c].step # "idle" => c \in UnderWay
  BY NoOpIsOp DEF TypeOK, UnderWay
<1>2. ASSUME NEW c \in Calls, Edit(c)
      PROVE  PictureIsKept'
  <2>1. Visible' <=> Visible
    <3>1. card'.status = card.status /\ card'.deleted = card.deleted
      BY <1>2, EditHolds DEF Edit, TypeOK
    <3> QED
      BY <3>1 DEF Visible
  <2> QED
    BY <1>2, <2>1 DEF Edit, pubVars, UnderWay
<1>3. ASSUME NEW c \in Calls, NEW kind \in {"publish", "unpublish", "remove"},
             NEW step \in {"copy", "commit"}, Start(c, kind, step),
             kind = "publish" => step = "copy"
      PROVE  PictureIsKept'
  <2>1. /\ UNCHANGED <<card, publication, media>>
        /\ ~overlapped /\ UnderWay = {}
    BY <1>3 DEF Start
  <2>2. op' = [op EXCEPT ![c] = [NoOp EXCEPT !.kind = kind, !.step = step,
                     !.revision = card.revision, !.content = card.content]]
    BY <1>3 DEF Start
  <2>3. op'[c].kind = kind /\ op'[c].step = step
    BY <1>1, <2>2 DEF NoOp
  <2>4. \A d \in Calls \ {c} : op'[d] = NoOp
    BY <1>1, <2>1, <2>2 DEF UnderWay
  <2>5. \A d \in UnderWay' : d = c
    BY <2>4 DEF UnderWay
  <2> QED
    BY <1>1, <1>3, <2>1, <2>3, <2>4, <2>5 DEF Visible
<1>4. ASSUME NEW c \in Calls,
             CopyMedia(c) \/ CommitPublish(c) \/ Hide(c) \/ ListMedia(c) \/ DeleteStale(c)
               \/ CutShort(c)
      PROVE  /\ ~overlapped
             /\ c \in UnderWay
             /\ \A d \in Calls \ {c} : op'[d] = NoOp /\ op[d] = NoOp
             /\ \A d, e \in UnderWay' : d = e
  <2>1. ~overlapped /\ c \in UnderWay
    BY <1>1, <1>4 DEF CopyMedia, CommitPublish, Hide, ListMedia, DeleteStale, CutShort, UnderWay
  <2>2. \A d \in Calls \ {c} : op[d] = NoOp
    BY <2>1 DEF UnderWay
  <2>3. \A d \in Calls \ {c} : op'[d] = op[d]
    BY <1>1, <1>4 DEF CopyMedia, CommitPublish, Hide, Prune, ListMedia, DeleteStale, CutShort, End
  <2>4. \A d \in UnderWay' : d = c
    BY <2>2, <2>3 DEF UnderWay
  <2> QED
    BY <2>1, <2>2, <2>3, <2>4
<1>5. ASSUME NEW c \in Calls, CopyMedia(c)
      PROVE  PictureIsKept'
  <2>1. /\ UNCHANGED <<card, publication>>
        /\ media' = media \cup {op[c].content.avatar}
        /\ \/ op'[c].content = op[c].content /\ op'[c].step = "commit"
           \/ op'[c].step = "idle"
    BY <1>1, <1>5 DEF CopyMedia, End, Op
  <2> QED
    BY <1>1, <1>4, <1>5, <2>1 DEF Visible
<1>6. ASSUME NEW c \in Calls, CommitPublish(c)
      PROVE  PictureIsKept'
  <2>1. /\ UNCHANGED media
        /\ op[c].kind = "publish" /\ op[c].step = "commit"
    BY <1>6 DEF CommitPublish
  <2>2. op[c].content.avatar \in media
    BY <1>4, <1>6, <2>1
  <2>3. CASE Unchanged(c)
    <3>1. /\ publication' = [revision |-> op[c].revision, content |-> op[c].content]
          /\ op'[c].step = "list"
          /\ op'[c].keep = {op[c].content.avatar}
      BY <1>1, <1>6, <2>3 DEF CommitPublish, Prune, Op
    <3> QED
      BY <1>1, <1>4, <1>6, <2>1, <2>2, <3>1
  <2>4. CASE ~Unchanged(c)
    <3>1. UNCHANGED <<card, publication>> /\ op'[c].step = "idle"
      BY <1>1, <1>6, <2>4 DEF CommitPublish, End
    <3> QED
      BY <1>1, <1>4, <1>6, <2>1, <3>1 DEF Visible
  <2> QED
    BY <2>3, <2>4
<1>7. ASSUME NEW c \in Calls, Hide(c)
      PROVE  PictureIsKept'
  <2>1. ~Visible'
    BY <1>7 DEF Hide, Visible, TypeOK, CardTypeOK, CardRow
  <2>2. op'[c].step = "list"
    BY <1>1, <1>7 DEF Hide, Prune, Op
  <2> QED
    BY <1>1, <1>4, <1>7, <2>1, <2>2
<1>8. ASSUME NEW c \in Calls, ListMedia(c)
      PROVE  PictureIsKept'
  <2>1. /\ UNCHANGED <<card, publication, media>>
        /\ op[c].step = "list"
        /\ op'[c].step = "delete"
        /\ op'[c].stale = media \ op[c].keep
    BY <1>1, <1>8 DEF ListMedia, Op
  <2> QED
    BY <1>1, <1>4, <1>8, <2>1 DEF Visible
<1>9. ASSUME NEW c \in Calls, DeleteStale(c)
      PROVE  PictureIsKept'
  <2>1. /\ UNCHANGED <<card, publication>>
        /\ op[c].step = "delete"
        /\ op'[c].step = "idle"
        /\ media' = media \ op[c].stale
    BY <1>1, <1>9 DEF DeleteStale, End
  <2> QED
    BY <1>1, <1>4, <1>9, <2>1 DEF Visible
<1>10. ASSUME NEW c \in Calls, CutShort(c)
       PROVE  PictureIsKept'
  <2>1. UNCHANGED <<card, publication, media>> /\ op'[c].step = "idle"
    BY <1>1, <1>10 DEF CutShort, End
  <2> QED
    BY <1>1, <1>4, <1>10, <2>1 DEF Visible
<1>11. ASSUME Offboard
       PROVE  PictureIsKept'
  <2>1. UNCHANGED <<publication, media, op, overlapped>> /\ ~Visible'
    BY <1>11 DEF Offboard, Visible, TypeOK, CardTypeOK, CardRow
  <2> QED
    BY <2>1 DEF UnderWay
<1> QED
  BY <1>2, <1>3, <1>5, <1>6, <1>7, <1>8, <1>9, <1>10, <1>11
     DEF Next, StartPublish, StartUnpublish, StartRemove

-----------------------------------------------------------------------------
(* The invariant                                                            *)

LEMMA InitHolds ==
    ASSUME Init
    PROVE  IInv
<1>1. CardTypeOK
  BY CardInitHolds DEF Init
<1>2. /\ card.revision = 1 /\ 1 \in Revisions
      /\ card.content \in Content
      /\ card.status # "published"
  BY <1>1, CardAssumption DEF Init, CardInit, CardTypeOK, CardRow, Revisions
<1>3. NoOp \in Op /\ NoOp.step = "idle" /\ NoOp.kind = "none"
  BY <1>1, NoOpIsOp
<1>4. TypeOK
  <2>1. contentOf \in [Revisions -> Content]
    BY <1>2 DEF Init
  <2>2. op \in [Calls -> Op]
    BY <1>3 DEF Init
  <2>3. 0 \in 0..MaxOps /\ 0 \in 0..MaxFaults
    BY CardsAssumption
  <2> QED
    BY <1>1, <2>1, <2>2, <2>3 DEF Init, TypeOK
<1>5. RevisionsRemember
  BY <1>2, <1>3 DEF Init, RevisionsRemember, PublicationIsARevision, LoadedIsARevision
<1>6. PictureIsKept
  BY <1>2, <1>3 DEF Init, PictureIsKept, UnderWay, Visible
<1> QED
  BY <1>1, <1>4, <1>5, <1>6 DEF IInv

LEMMA StepHolds ==
    ASSUME IInv, [Next]_vars
    PROVE  IInv'
<1>1. CASE Next
  BY <1>1, CardSteps, TypesHold, RevisionsHold, PicturesHold DEF IInv
<1>2. CASE UNCHANGED vars
  BY <1>2 DEF vars, pubVars, IInv, TypeOK, CardTypeOK, RevisionsRemember,
              PublicationIsARevision, LoadedIsARevision, Publishable, PictureIsKept,
              UnderWay, Visible
<1> QED
  BY <1>1, <1>2

THEOREM InvariantHolds == Spec => []IInv
<1>1. Init => IInv
  BY InitHolds
<1>2. IInv /\ [Next]_vars => IInv'
  BY StepHolds
<1> QED
  BY <1>1, <1>2, PTL DEF Spec

(* docs/cards/publishing.md, 2: what a visitor sees is one revision of the  *)
(* card that was fit to be seen, whatever edits and calls overlap.          *)
THEOREM VisitorsSee == Spec => []VisitorsSeeARevision
<1>1. IInv => VisitorsSeeARevision
  BY DEF IInv, RevisionsRemember, PublicationIsARevision, VisitorsSeeARevision, Visible
<1> QED
  BY <1>1, InvariantHolds, PTL

(* cards.service.ts, pruneStaleMedia: the clean-up never takes the picture  *)
(* of the page that is out, where no two lifecycle calls overlapped.        *)
THEOREM PictureExists == Spec => []PublicPictureExists
<1>1. IInv => PublicPictureExists
  BY DEF IInv, PictureIsKept, PublicPictureExists
<1> QED
  BY <1>1, InvariantHolds, PTL

(* cards.service.ts, the guard of publish: no publication prepared before   *)
(* an edit comes out after one that shows it.                               *)
THEOREM MovesForward == Spec => PublicationsMoveForward
<1>1. IInv /\ [Next]_vars =>
        [publication # NoPublication => publication'.revision >= publication.revision]_publication
  <2> SUFFICES ASSUME IInv, Next, publication' # publication, publication # NoPublication
               PROVE  publication'.revision >= publication.revision
    BY DEF vars, pubVars
  <2>1. PICK c \in Calls : CommitPublish(c)
    BY DEF Next, Edit, pubVars, StartPublish, StartUnpublish, StartRemove, Start, CopyMedia,
           Hide, ListMedia, DeleteStale, CutShort, Offboard
  <2>2. publication' = [revision |-> op[c].revision, content |-> op[c].content]
        /\ op[c].revision = card.revision
    BY <2>1 DEF CommitPublish, Unchanged
  <2>3. publication.revision \in Nat /\ card.revision \in Nat
        /\ publication.revision <= card.revision
    BY CardAssumption DEF IInv, TypeOK, CardTypeOK, CardRow, Publication, Revisions,
                          RevisionsRemember, PublicationIsARevision
  <2> QED
    BY <2>2, <2>3
<1> QED
  BY <1>1, InvariantHolds, PTL DEF Spec, PublicationsMoveForward

-----------------------------------------------------------------------------
(* Change requests: what the steps of an update keep                        *)

USE DEF Fields, Content, Revisions, CardRow, Save

-----------------------------------------------------------------------------

(* A client that has the card's present revision was looking at what the    *)
(* card says: a revision is never reused for another content.               *)
SavesRemember ==
    \A c \in Calls : save[c].step # "idle" =>
        /\ save[c].revision <= card.revision
        /\ save[c].revision = card.revision => save[c].seen = card.content

(* What a step may do to the card: nothing to its content, or one step of   *)
(* its revision.                                                            *)
CardAdvances ==
    /\ card'.revision >= card.revision
    /\ card'.revision = card.revision => card'.content = card.content

LEMMA NoSaveIsIdle ==
    ASSUME Content # {}
    PROVE  NoSave \in Save /\ NoSave.step = "idle"
<1>1. (CHOOSE content \in Content : TRUE) \in Content
  OBVIOUS
<1> QED
  BY <1>1, CardAssumption DEF NoSave

LEMMA CardInitRemembers ==
    ASSUME CardInit
    PROVE  CardTypeOK /\ SavesRemember
<1>1. PICK avatar \in Avatars :
        card = [revision |-> 1, content |-> [text |-> Blank, avatar |-> avatar],
                status |-> "draft", deleted |-> FALSE]
  BY DEF CardInit
<1>2. save = [c \in Calls |-> NoSave]
  BY DEF CardInit
<1>3. [text |-> Blank, avatar |-> avatar] \in Content
  BY CardAssumption
<1>4. NoSave \in Save /\ NoSave.step = "idle"
  BY <1>3, NoSaveIsIdle
<1> HIDE DEF Content, Save
<1>5. card \in CardRow
  BY <1>1, <1>3, CardAssumption
<1> QED
  BY <1>2, <1>4, <1>5 DEF CardTypeOK, SavesRemember

(* Closing a card forgets what the client was looking at, and no more. *)
LEMMA CloseCardHolds ==
    ASSUME CardTypeOK, SavesRemember, NEW c \in Calls, CloseCard(c),
           card' \in CardRow, CardAdvances
    PROVE  CardTypeOK' /\ SavesRemember'
<1>1. Content # {}
  BY DEF CardTypeOK
<1>2. NoSave \in Save /\ NoSave.step = "idle"
  BY <1>1, NoSaveIsIdle
<1>3. save' = [save EXCEPT ![c] = NoSave]
  BY DEF CloseCard
<1>4. save' \in [Calls -> Save]
  BY <1>2, <1>3 DEF CardTypeOK
<1>5. ASSUME NEW d \in Calls, save'[d].step # "idle"
      PROVE  /\ save'[d].revision <= card'.revision
             /\ save'[d].revision = card'.revision => save'[d].seen = card'.content
  <2>1. save'[d] = save[d] /\ save[d].step # "idle"
    BY <1>2, <1>3, <1>5 DEF CardTypeOK
  <2>2. save[d].revision \in Nat /\ card.revision \in Nat /\ card'.revision \in Nat
    BY CardAssumption DEF CardTypeOK
  <2> QED
    BY <2>1, <2>2 DEF SavesRemember, CardAdvances
<1> QED
  BY <1>4, <1>5 DEF CardTypeOK, SavesRemember

LEMMA OpenCardHolds ==
    ASSUME CardTypeOK, SavesRemember, NEW c \in Calls, OpenCard(c)
    PROVE  CardTypeOK' /\ SavesRemember'
<1>1. card' = card
  BY DEF OpenCard
<1>2. save' = [save EXCEPT ![c].step = "open", ![c].revision = card.revision,
                           ![c].seen = card.content]
  BY DEF OpenCard
<1>3. card.revision \in Revisions /\ card.revision \in Nat /\ card.content \in Content
  BY CardAssumption DEF CardTypeOK
<1> HIDE DEF Content, Revisions
<1>4. save' \in [Calls -> Save]
  <2> DEFINE opened == [save[c] EXCEPT !.step = "open", !.revision = card.revision,
                                        !.seen = card.content]
  <2>1. save[c] \in Save /\ save \in [Calls -> Save]
    BY DEF CardTypeOK
  <2>2. opened \in Save
    BY <1>3, <2>1 DEF Save
  <2>3. save' = [save EXCEPT ![c] = opened]
    BY <1>2, <2>1
  <2> HIDE DEF opened
  <2> QED
    BY <2>1, <2>2, <2>3
<1>5. ASSUME NEW d \in Calls, save'[d].step # "idle"
      PROVE  /\ save'[d].revision <= card'.revision
             /\ save'[d].revision = card'.revision => save'[d].seen = card'.content
  <2>1. CASE d = c
    BY <1>1, <1>2, <1>3, <2>1 DEF CardTypeOK
  <2>2. CASE d # c
    BY <1>1, <1>2, <1>5, <2>2 DEF CardTypeOK, SavesRemember
  <2> QED
    BY <2>1, <2>2
<1> QED
  BY <1>1, <1>4, <1>5 DEF CardTypeOK, SavesRemember

LEMMA CheckUpdateHolds ==
    ASSUME CardTypeOK, SavesRemember, NEW c \in Calls, CheckUpdate(c)
    PROVE  CardTypeOK' /\ SavesRemember'
<1>1. card' = card /\ save[c].step = "open"
  BY DEF CheckUpdate
<1>2. CASE CloseCard(c)
  <2>1. card' \in CardRow /\ CardAdvances
    BY <1>1, CardAssumption DEF CardTypeOK, CardAdvances
  <2> QED
    BY <1>2, <2>1, CloseCardHolds
<1>3. ASSUME NEW new \in Content,
             save' = [save EXCEPT ![c].step = "commit", ![c].content = new]
      PROVE  CardTypeOK' /\ SavesRemember'
  <2> HIDE DEF Content, Revisions
  <2>1. save' \in [Calls -> Save]
    BY <1>3 DEF CardTypeOK
  <2>2. ASSUME NEW d \in Calls, save'[d].step # "idle"
        PROVE  /\ save'[d].revision <= card'.revision
               /\ save'[d].revision = card'.revision => save'[d].seen = card'.content
    <3>1. /\ save'[d].revision = save[d].revision
          /\ save'[d].seen = save[d].seen
          /\ save[d].step # "idle"
      BY <1>1, <1>3, <2>2 DEF CardTypeOK
    <3> QED
      BY <1>1, <3>1 DEF SavesRemember
  <2> QED
    BY <1>1, <2>1, <2>2 DEF CardTypeOK, SavesRemember
<1>4. CloseCard(c) \/ \E new \in Content :
        save' = [save EXCEPT ![c].step = "commit", ![c].content = new]
  <2>1. \E fields \in SUBSET Fields \ {{}} : \E new \in Edits(fields) :
          \/ save' = [save EXCEPT ![c].step = "commit", ![c].content = new]
          \/ CloseCard(c)
    <3> HIDE DEF Fields, Content, Revisions, Save
    <3> QED
      BY Zenon DEF CheckUpdate
  <2>2. \A fields : Edits(fields) \subseteq Content
    BY DEF Edits
  <2> HIDE DEF Fields, Content, Revisions, Save
  <2> QED
    BY <2>1, <2>2, Zenon
<1> QED
  BY <1>2, <1>3, <1>4

(* A commit writes the next revision, and only over what its client saw. *)
LEMMA CommitUpdateWrites ==
    ASSUME CardTypeOK, SavesRemember, NEW c \in Calls, CommitUpdate(c)
    PROVE  /\ card' \in CardRow
           /\ CardAdvances
           /\ MayCommit(c) => /\ card' = Written(save[c].content)
                              /\ card'.revision = card.revision + 1
                              /\ save[c].seen = card.content
           /\ ~MayCommit(c) => card' = card
<1>1. CASE MayCommit(c)
  <2>1. /\ card.revision < MaxRevision
        /\ card' = [card EXCEPT !.content = save[c].content, !.revision = @ + 1]
    BY <1>1 DEF CommitUpdate, Written
  <2>2. /\ card.revision \in 1..MaxRevision
        /\ MaxRevision \in Nat
        /\ save[c].content \in Content
    BY CardAssumption DEF CardTypeOK
  <2>3. card'.revision = card.revision + 1 /\ card' \in CardRow
    <3> HIDE DEF Content
    <3>1. card' = [revision |-> card.revision + 1, content |-> save[c].content,
                   status |-> card.status, deleted |-> card.deleted]
      BY <2>1 DEF CardTypeOK
    <3>2. card.revision + 1 \in 1..MaxRevision
      BY <2>1, <2>2
    <3>3. card.status \in {"draft", "published", "unpublished"} /\ card.deleted \in BOOLEAN
      BY DEF CardTypeOK
    <3> QED
      BY <2>2, <3>1, <3>2, <3>3
  <2>4. save[c].step = "commit" /\ save[c].revision = card.revision
    BY <1>1 DEF CommitUpdate, MayCommit
  <2>5. save[c].seen = card.content
    BY <2>4 DEF SavesRemember
  <2> QED
    BY <1>1, <2>1, <2>2, <2>3, <2>5 DEF CardAdvances, Written
<1>2. CASE ~MayCommit(c)
  BY <1>2, CardAssumption DEF CommitUpdate, CardTypeOK, CardAdvances
<1> QED
  BY <1>1, <1>2

LEMMA CommitUpdateHolds ==
    ASSUME CardTypeOK, SavesRemember, NEW c \in Calls, CommitUpdate(c)
    PROVE  CardTypeOK' /\ SavesRemember'
<1>1. card' \in CardRow /\ CardAdvances
  BY CommitUpdateWrites
<1>2. CloseCard(c)
  BY DEF CommitUpdate
<1> QED
  BY <1>1, <1>2, CloseCardHolds

(* Publishing, hiding and deleting a card leave what it says alone. *)
LEMMA ReviewStatusHolds ==
    ASSUME CardTypeOK, SavesRemember, UNCHANGED save, card' \in CardRow,
           card'.revision = card.revision, card'.content = card.content
    PROVE  CardTypeOK' /\ SavesRemember'
  BY DEF CardTypeOK, SavesRemember

-----------------------------------------------------------------------------
(* What requests and reviews keep                                           *)

HIDE DEF Fields, Content, Revisions, CardRow, Save

(* A request was made of a revision the card has had, and is written to a   *)
(* revision once.                                                           *)
RequestsRemember ==
    \A r \in Requests :
        /\ request[r].status = "none" => applied[r] = 0
        /\ request[r].status # "none" =>
             /\ request[r].revision <= request[r].base
             /\ request[r].base <= card.revision
             /\ request[r].revision = card.revision => request[r].seen = card.content
             /\ applied[r] = 1 => request[r].revision < card.revision

(* What a submission and a review hold in their hands. *)
Submitting(c) ==
    /\ review[c].request = NoRequest
    /\ save[c].step = "open"
    /\ save[c].revision <= review[c].base
    /\ review[c].base <= card.revision

Reviewing(c) == review[c].request \in Requests /\ request[review[c].request].status # "none"

SavesTheRequest(c) ==
    LET r == review[c].request
    IN  /\ review[c].outcome = "approved"
        /\ save[c].step = "commit"
        /\ save[c].revision = request[r].revision
        /\ save[c].seen = request[r].seen

ReviewsRemember ==
    \A c \in Calls :
        /\ review[c].step = "idle" => review[c] = NoReview
        /\ review[c].step = "create" => Submitting(c)
        /\ review[c].step \in {"write", "finish"} => Reviewing(c)
        /\ review[c].step = "write" => SavesTheRequest(c)
        /\ review[c].step = "finish" /\ review[c].outcome = "approved"
             => applied[review[c].request] = 1

ReviewOf(c, r) == review[c].step # "idle" /\ review[c].request = r

(* A request nothing interfered with: it has one review at a time, under    *)
(* which it stays pending, and once written it is approved or about to be.  *)
Undisturbed(r) ==
    /\ \A c, d \in Calls : ReviewOf(c, r) /\ ReviewOf(d, r) => c = d
    /\ \A c \in Calls : ReviewOf(c, r) => request[r].status = "pending"
    /\ applied[r] = 1 =>
         \/ request[r].status = "approved"
         \/ \E c \in Calls : /\ ReviewOf(c, r)
                             /\ review[c].step = "finish"
                             /\ review[c].outcome = "approved"

ReviewsAgree == \A r \in Requests \ contested : Undisturbed(r)

ApprovedIsApplied == \A r \in Requests : request[r].status = "approved" => applied[r] = 1

ReviewInv ==
    /\ ReviewTypeOK
    /\ SavesRemember
    /\ RequestsRemember
    /\ ReviewsRemember
    /\ ReviewsAgree
    /\ ApprovedIsApplied

-----------------------------------------------------------------------------
(* The card                                                                 *)

LEMMA CardIsTyped ==
    ASSUME CardTypeOK
    PROVE  /\ card.revision \in Revisions /\ card.revision \in Nat
           /\ card.content \in Content
           /\ 1 \in Revisions
           /\ NoSave \in Save /\ NoSave.step = "idle"
<1>1. card.revision \in Revisions /\ card.content \in Content
  BY DEF CardTypeOK, CardRow
<1> QED
  BY <1>1, NoSaveIsIdle, CardAssumption DEF Revisions

(* Every step but a commit leaves what the card says, and every one keeps   *)
(* what a client knows of it.                                               *)
LEMMA CardStepsOfReviews ==
    ASSUME ReviewTypeOK, SavesRemember, RequestsRemember, ReviewNext
    PROVE  /\ CardTypeOK' /\ SavesRemember'
           /\ CardAdvances
<1>1. CardTypeOK /\ card.revision \in Nat
  BY CardIsTyped DEF ReviewTypeOK
<1>2. ASSUME NEW c \in Calls, OpenCard(c) \/ CheckUpdate(c)
      PROVE  CardTypeOK' /\ SavesRemember' /\ CardAdvances
  <2>1. CardTypeOK' /\ SavesRemember'
    BY <1>1, <1>2, OpenCardHolds, CheckUpdateHolds
  <2>2. UNCHANGED card
    BY <1>2 DEF OpenCard, CheckUpdate
  <2> QED
    BY <1>1, <2>1, <2>2 DEF CardAdvances
<1>3. ASSUME NEW c \in Calls, CommitUpdate(c)
      PROVE  CardTypeOK' /\ SavesRemember' /\ CardAdvances
  BY <1>1, <1>3, CommitUpdateWrites, CommitUpdateHolds
<1>4. ASSUME NEW c \in Calls, CloseCard(c), UNCHANGED card
      PROVE  CardTypeOK' /\ SavesRemember' /\ CardAdvances
  <2>1. card' \in CardRow /\ CardAdvances
    BY <1>1, <1>4 DEF CardTypeOK, CardAdvances
  <2> QED
    BY <1>1, <1>4, <2>1, CloseCardHolds
<1>5. ASSUME UNCHANGED <<card, save>>
      PROVE  CardTypeOK' /\ SavesRemember' /\ CardAdvances
  BY <1>1, <1>5 DEF CardTypeOK, SavesRemember, CardAdvances
<1>6. ASSUME NEW c \in Calls, NEW r \in Requests, StartReview(c, r)
      PROVE  CardTypeOK' /\ SavesRemember' /\ CardAdvances
  <2>1. UNCHANGED card
    BY <1>6 DEF StartReview
  <2>2. CASE UNCHANGED save
    BY <1>5, <2>1, <2>2
  <2>3. CASE Writing(c, r)
    <3> DEFINE sent == [step |-> "commit", revision |-> request[r].revision,
                        seen |-> request[r].seen, content |-> request[r].content]
    <3>1. save' = [save EXCEPT ![c] = sent]
      BY <2>3 DEF Writing
    <3>2. request[r] \in RequestRow /\ request[r].status = "pending"
      BY <1>6 DEF ReviewTypeOK, StartReview
    <3>3. sent \in Save
      BY <3>2 DEF RequestRow, Save
    <3>4. /\ sent.revision <= card.revision
          /\ sent.revision = card.revision => sent.seen = card.content
      <4>1. request[r].revision \in Nat /\ request[r].base \in Nat
        BY <3>2, CardAssumption DEF RequestRow, Revisions
      <4> QED
        BY <1>1, <3>2, <4>1 DEF RequestsRemember
    <3> HIDE DEF sent
    <3>5. save' \in [Calls -> Save] /\ \A d \in Calls : save'[d] = IF d = c THEN sent ELSE save[d]
      BY <1>1, <3>1, <3>3 DEF CardTypeOK
    <3> QED
      BY <1>1, <2>1, <3>4, <3>5 DEF CardTypeOK, SavesRemember, CardAdvances
  <2> QED
    BY <1>6, <2>2, <2>3 DEF StartReview, Finishing
<1>7. ASSUME RemoveCard
      PROVE  CardTypeOK' /\ SavesRemember' /\ CardAdvances
  <2>1. /\ card' \in CardRow
        /\ card'.revision = card.revision /\ card'.content = card.content
        /\ UNCHANGED save
    BY <1>1, <1>7 DEF RemoveCard, CardTypeOK, CardRow
  <2> QED
    BY <1>1, <2>1, ReviewStatusHolds DEF CardAdvances
<1> QED
  BY <1>2, <1>3, <1>4, <1>5, <1>6, <1>7
     DEF ReviewNext, EditCard, StartSubmit, CommitSubmit, WriteApproved, Finish, Stop, Withdraw

-----------------------------------------------------------------------------
(* Types                                                                    *)

LEMMA NoReviewIsReview ==
    /\ NoReview \in Review
    /\ NoReview.step = "idle" /\ NoReview.request = NoRequest /\ NoReview.own = {}
<1>1. 1 \in Revisions
  BY CardAssumption DEF Revisions
<1> QED
  BY <1>1 DEF NoReview, Review

(* A request a review of which may still write has not been written. *)
LEMMA NotYetApplied ==
    ASSUME ReviewTypeOK, RequestsRemember, ReviewsRemember, NEW c \in Calls,
           review[c].step = "write", MayCommit(c)
    PROVE  /\ review[c].request \in Requests
           /\ applied[review[c].request] = 0
           /\ request[review[c].request].revision = card.revision
           /\ request[review[c].request].base = card.revision
<1> DEFINE r == review[c].request
<1>1. r \in Requests /\ request[r].status # "none" /\ save[c].revision = request[r].revision
  BY DEF ReviewsRemember, Reviewing, SavesTheRequest
<1>2. card.revision = request[r].revision
  BY <1>1 DEF MayCommit
<1>3. /\ request[r].revision \in Nat /\ request[r].base \in Nat /\ card.revision \in Nat
      /\ applied[r] \in 0..1
  BY <1>1, CardIsTyped, CardAssumption DEF ReviewTypeOK, RequestRow, Revisions
<1> HIDE DEF r
<1> QED
  BY <1>1, <1>2, <1>3 DEF RequestsRemember, r

LEMMA ReviewTypesHold ==
    ASSUME ReviewTypeOK, SavesRemember, RequestsRemember, ReviewsRemember, ReviewNext
    PROVE  ReviewTypeOK'
<1>1. CardTypeOK /\ CardTypeOK'
  BY CardStepsOfReviews DEF ReviewTypeOK
<1>2. NoReview \in Review
  BY NoReviewIsReview
<1> USE ApprovalsAssumption DEF ReviewTypeOK
<1>3. ASSUME NEW c \in Calls, EditCard(c)
      PROVE  ReviewTypeOK'
  BY <1>1, <1>3 DEF EditCard
<1>4. ASSUME NEW c \in Calls, StartSubmit(c)
      PROVE  ReviewTypeOK'
  <2>1. PendingOf(UserOf[c]) \in SUBSET Requests /\ card.revision \in Revisions
    BY <1>1, CardIsTyped DEF PendingOf
  <2>2. review' \in [Calls -> Review]
    <3> DEFINE own == PendingOf(UserOf[c])
               found == [review[c] EXCEPT !.step = "create", !.base = card.revision,
                                          !.own = own]
    <3>1. review' = [review EXCEPT ![c] = found]
      BY <1>4 DEF StartSubmit
    <3> HIDE DEF own
    <3>2. own \in SUBSET Requests
      BY <2>1 DEF own
    <3>3. found \in Review
      BY <2>1, <3>2 DEF Review
    <3> HIDE DEF found
    <3> QED
      BY <3>1, <3>3
  <2> QED
    BY <1>1, <1>4, <2>2 DEF StartSubmit
<1>5. ASSUME NEW c \in Calls, CommitSubmit(c)
      PROVE  ReviewTypeOK'
  <2>1. request' \in [Requests -> RequestRow]
    <3>1. PICK r \in Requests, new \in Content :
            request' = [q \in Requests |->
              IF q = r THEN
                [status |-> "pending", by |-> UserOf[c], base |-> review[c].base,
                 revision |-> save[c].revision, seen |-> save[c].seen, content |-> new]
              ELSE IF q \in Withdrawn(review[c].own)
              THEN [request[q] EXCEPT !.status = "withdrawn"] ELSE request[q]]
      BY <1>5 DEF CommitSubmit
    <3>2. [status |-> "pending", by |-> UserOf[c], base |-> review[c].base,
           revision |-> save[c].revision, seen |-> save[c].seen, content |-> new] \in RequestRow
      <4>1. save[c] \in Save /\ review[c] \in Review
        BY <1>1 DEF CardTypeOK
      <4> QED
        BY <4>1 DEF RequestRow, Save, Review
    <3>3. ASSUME NEW q \in Requests
          PROVE  [request[q] EXCEPT !.status = "withdrawn"] \in RequestRow
      BY DEF RequestRow
    <3> QED
      BY <3>1, <3>2, <3>3
  <2>2. review' \in [Calls -> Review]
    BY <1>2, <1>5 DEF CommitSubmit
  <2>3. contested' \in SUBSET Requests
    BY <1>5 DEF CommitSubmit, Contest, Withdrawn, Review
  <2> QED
    BY <1>1, <1>5, <2>1, <2>2, <2>3 DEF CommitSubmit
<1>6. ASSUME NEW r \in Requests, Withdraw(r)
      PROVE  ReviewTypeOK'
  <2>1. request' \in [Requests -> RequestRow]
    BY <1>6 DEF Withdraw, RequestRow
  <2> QED
    BY <1>1, <1>6, <2>1 DEF Withdraw, Contest
<1>7. ASSUME NEW c \in Calls, NEW r \in Requests, StartReview(c, r)
      PROVE  ReviewTypeOK'
  <2>1. ASSUME NEW outcome \in {"approved", "rejected", "stale"}, NEW step \in {"write", "finish"}
        PROVE  [NoReview EXCEPT !.step = step, !.request = r, !.outcome = outcome] \in Review
    BY <1>2 DEF Review
  <2>2. [NoReview EXCEPT !.step = "write", !.request = r] \in Review
    BY <1>2 DEF Review
  <2>3. review' \in [Calls -> Review]
    BY <1>7, <2>1, <2>2 DEF StartReview, Finishing, Writing
  <2> QED
    BY <1>1, <1>7, <2>3 DEF StartReview, Contest
<1>8. ASSUME NEW c \in Calls, WriteApproved(c)
      PROVE  ReviewTypeOK'
  <2>1. review' \in [Calls -> Review]
    BY <1>2, <1>8 DEF WriteApproved, Review
  <2>2. applied' \in [Requests -> 0..1]
    BY <1>8, NotYetApplied DEF WriteApproved
  <2> QED
    BY <1>1, <1>8, <2>1, <2>2 DEF WriteApproved
<1>9. ASSUME NEW c \in Calls, Finish(c)
      PROVE  ReviewTypeOK'
  <2>1. request' \in [Requests -> RequestRow]
    <3>1. review[c].outcome \in {"approved", "rejected", "stale"}
      BY DEF Review
    <3> QED
      <4>1. PICK r : /\ r = review[c].request
                     /\ request' = [request EXCEPT ![r].status = review[c].outcome]
        BY <1>9 DEF Finish
      <4> DEFINE finished == [request[r] EXCEPT !.status = review[c].outcome]
      <4>2. r \in Requests => finished \in RequestRow
        BY <3>1 DEF RequestRow
      <4>3. request' = [request EXCEPT ![r] = finished]
        BY <4>1
      <4> HIDE DEF finished
      <4> QED
        BY <4>2, <4>3
  <2> QED
    BY <1>1, <1>2, <1>9, <2>1 DEF Finish
<1>10. ASSUME NEW c \in Calls, Stop(c)
       PROVE  ReviewTypeOK'
  <2>1. review[c].request \in Requests \cup {NoRequest}
    BY DEF Review
  <2>2. contested' \in SUBSET Requests /\ stops' \in 0..MaxStops
    BY <1>10, <2>1 DEF Stop
  <2> QED
    BY <1>1, <1>2, <1>10, <2>2 DEF Stop
<1>11. ASSUME RemoveCard
       PROVE  ReviewTypeOK'
  BY <1>1, <1>11 DEF RemoveCard
<1> QED
  BY <1>3, <1>4, <1>5, <1>6, <1>7, <1>8, <1>9, <1>10, <1>11 DEF ReviewNext

-----------------------------------------------------------------------------
(* Requests                                                                 *)

(* Once made a request keeps all but its status, and it is not unmade. *)
RequestsKeep ==
    \A r \in Requests : request[r].status # "none" =>
        /\ request'[r].status # "none"
        /\ request'[r].revision = request[r].revision
        /\ request'[r].base = request[r].base
        /\ request'[r].seen = request[r].seen

(* What CommitSubmit writes. *)
LEMMA Submission ==
    ASSUME ReviewTypeOK, NEW c \in Calls, CommitSubmit(c)
    PROVE  \E r \in Requests :
             /\ request[r].status = "none"
             /\ request'[r].status = "pending"
             /\ request'[r].base = review[c].base
             /\ request'[r].revision = save[c].revision
             /\ request'[r].seen = save[c].seen
             /\ \A q \in Requests \ {r} :
                  /\ request'[q].revision = request[q].revision
                  /\ request'[q].base = request[q].base
                  /\ request'[q].seen = request[q].seen
                  /\ \/ request'[q].status = request[q].status
                     \/ /\ request[q].status = "pending"
                        /\ request'[q].status = "withdrawn"
                        /\ UnderReview(q) => q \in contested'
<1>1. PICK r \in Requests, new \in Content :
        /\ request[r].status = "none"
        /\ request' = [q \in Requests |->
             IF q = r THEN
               [status |-> "pending", by |-> UserOf[c], base |-> review[c].base,
                revision |-> save[c].revision, seen |-> save[c].seen, content |-> new]
             ELSE IF q \in Withdrawn(review[c].own)
             THEN [request[q] EXCEPT !.status = "withdrawn"] ELSE request[q]]
  BY DEF CommitSubmit
<1>2. ASSUME NEW q \in Requests, q # r, q \in Withdrawn(review[c].own)
      PROVE  /\ request'[q] = [request[q] EXCEPT !.status = "withdrawn"]
             /\ request[q].status = "pending"
             /\ UnderReview(q) => q \in contested'
  BY <1>1, <1>2 DEF Withdrawn, CommitSubmit, Contest
<1>3. ASSUME NEW q \in Requests, q # r
      PROVE  /\ request'[q].revision = request[q].revision
             /\ request'[q].base = request[q].base
             /\ request'[q].seen = request[q].seen
             /\ \/ request'[q].status = request[q].status
                \/ /\ request[q].status = "pending"
                   /\ request'[q].status = "withdrawn"
                   /\ UnderReview(q) => q \in contested'
  <2>1. CASE q \in Withdrawn(review[c].own)
    BY <1>2, <1>3, <2>1 DEF ReviewTypeOK, RequestRow
  <2>2. CASE q \notin Withdrawn(review[c].own)
    BY <1>1, <1>3, <2>2
  <2> QED
    BY <2>1, <2>2
<1> QED
  BY <1>1, <1>3

LEMMA RequestSteps ==
    ASSUME ReviewTypeOK, ReviewsRemember, ReviewNext
    PROVE  RequestsKeep
<1>1. ASSUME NEW c \in Calls, CommitSubmit(c)
      PROVE  RequestsKeep
  BY <1>1, Submission DEF RequestsKeep
<1>2. ASSUME NEW r \in Requests, Withdraw(r)
      PROVE  RequestsKeep
  BY <1>2 DEF Withdraw, RequestsKeep, ReviewTypeOK, RequestRow
<1>3. ASSUME NEW c \in Calls, Finish(c)
      PROVE  RequestsKeep
  <2>1. /\ review[c].outcome # "none"
        /\ review[c].request \in Requests
    BY <1>3 DEF ReviewTypeOK, Review, Finish, ReviewsRemember, Reviewing
  <2> QED
    BY <1>3, <2>1 DEF Finish, RequestsKeep, ReviewTypeOK, RequestRow
<1>4. ASSUME UNCHANGED request
      PROVE  RequestsKeep
  BY <1>4 DEF RequestsKeep
<1> QED
  BY <1>1, <1>2, <1>3, <1>4
     DEF ReviewNext, EditCard, StartSubmit, StartReview, WriteApproved, Stop, RemoveCard

(* What was written was written once, and over the revision it was made of. *)
LEMMA AppliedSteps ==
    ASSUME ReviewTypeOK, RequestsRemember, ReviewsRemember, ReviewNext
    PROVE  \/ UNCHANGED applied
           \/ \E c \in Calls :
                /\ WriteApproved(c) /\ MayCommit(c)
                /\ applied' = [applied EXCEPT ![review[c].request] = 1]
<1>1. ASSUME NEW c \in Calls, WriteApproved(c)
      PROVE  \/ UNCHANGED applied
             \/ /\ MayCommit(c)
                /\ applied' = [applied EXCEPT ![review[c].request] = 1]
  BY <1>1, NotYetApplied DEF WriteApproved
<1> QED
  BY <1>1 DEF ReviewNext, EditCard, StartSubmit, CommitSubmit, StartReview, Finish, Stop, Withdraw,
              RemoveCard

LEMMA RequestsHold ==
    ASSUME ReviewTypeOK, SavesRemember, RequestsRemember, ReviewsRemember, ReviewNext
    PROVE  RequestsRemember'
<1>1. /\ CardAdvances
      /\ card.revision \in Nat /\ card'.revision \in Nat
      /\ ReviewTypeOK'
  <2>1. ReviewTypeOK' /\ CardAdvances
    BY CardStepsOfReviews, ReviewTypesHold
  <2>2. card'.revision \in Nat
    BY <2>1, CardAssumption DEF ReviewTypeOK, CardTypeOK, CardRow, Revisions
  <2> QED
    BY <2>1, <2>2, CardIsTyped DEF ReviewTypeOK
<1>2. RequestsKeep
  BY RequestSteps
<1>3. ASSUME NEW r \in Requests
      PROVE  /\ request[r].revision \in Nat /\ request[r].base \in Nat
             /\ request'[r].revision \in Nat /\ request'[r].base \in Nat
  BY <1>1, CardAssumption DEF ReviewTypeOK, RequestRow, Revisions
<1>4. ASSUME NEW r \in Requests, request[r].status # "none"
      PROVE  /\ request'[r].status # "none"
             /\ request'[r].revision <= request'[r].base
             /\ request'[r].base <= card'.revision
             /\ request'[r].revision = card'.revision => request'[r].seen = card'.content
             /\ applied'[r] = 1 => request'[r].revision < card'.revision
  <2>1. /\ request'[r].status # "none"
        /\ request'[r].revision <= request'[r].base
        /\ request'[r].base <= card'.revision
    BY <1>1, <1>2, <1>3, <1>4 DEF RequestsRemember, RequestsKeep, CardAdvances
  <2>2. request'[r].revision = card'.revision => request'[r].seen = card'.content
    BY <1>1, <1>2, <1>3, <1>4 DEF RequestsRemember, RequestsKeep, CardAdvances
  <2>3. CASE UNCHANGED applied
    <3>1. applied[r] = 1 => request[r].revision < card.revision
      BY <1>4 DEF RequestsRemember
    <3>2. applied'[r] = applied[r] /\ request'[r].revision = request[r].revision
      BY <1>2, <1>4, <2>3 DEF RequestsKeep
    <3>3. applied'[r] = 1 => request'[r].revision < card'.revision
      BY <1>1, <1>3, <3>1, <3>2 DEF CardAdvances
    <3> QED
      BY <2>1, <2>2, <3>3
  <2>4. ASSUME NEW c \in Calls, WriteApproved(c), MayCommit(c),
               applied' = [applied EXCEPT ![review[c].request] = 1]
        PROVE  applied'[r] = 1 => request'[r].revision < card'.revision
    <3>1. CASE review[c].request = r
      <4>1. request[r].revision = card.revision
        BY <2>4, <3>1, NotYetApplied DEF WriteApproved
      <4>2. card'.revision = card.revision + 1
        BY <2>4, CommitUpdateWrites DEF WriteApproved, ReviewTypeOK
      <4> QED
        BY <1>1, <1>2, <1>4, <4>1, <4>2 DEF RequestsKeep
    <3>2. CASE review[c].request # r
      <4>1. applied'[r] = applied[r]
        BY <2>4, <3>2 DEF ReviewTypeOK
      <4>2. applied[r] = 1 => request[r].revision < card.revision
        BY <1>4 DEF RequestsRemember
      <4>3. request'[r].revision = request[r].revision
        BY <1>2, <1>4 DEF RequestsKeep
      <4> QED
        BY <1>1, <1>3, <4>1, <4>2, <4>3 DEF CardAdvances
    <3> QED
      BY <3>1, <3>2
  <2> QED
    BY <2>1, <2>2, <2>3, <2>4, AppliedSteps
<1>5. ASSUME NEW r \in Requests, request[r].status = "none"
      PROVE  applied'[r] = 0
  <2>1. applied[r] = 0
    BY <1>5 DEF RequestsRemember
  <2>2. ASSUME NEW c \in Calls, WriteApproved(c), MayCommit(c),
               applied' = [applied EXCEPT ![review[c].request] = 1]
        PROVE  applied'[r] = 0
    <3>1. review[c].request # r
      BY <1>5, <2>2 DEF WriteApproved, ReviewsRemember, Reviewing
    <3> QED
      BY <2>1, <2>2, <3>1 DEF ReviewTypeOK
  <2> QED
    BY <2>1, <2>2, AppliedSteps
<1>6. ASSUME NEW r \in Requests, request[r].status = "none", request'[r].status # "none"
      PROVE  /\ request'[r].revision <= request'[r].base
             /\ request'[r].base <= card'.revision
             /\ request'[r].revision = card'.revision => request'[r].seen = card'.content
  <2>1. PICK c \in Calls : CommitSubmit(c)
    <3>1. ASSUME NEW c \in Calls, Finish(c)
          PROVE  request'[r].status = request[r].status
      <4>1. review[c].request # r
        BY <1>6, <3>1 DEF Finish, ReviewsRemember, Reviewing
      <4> QED
        BY <3>1, <4>1 DEF Finish, ReviewTypeOK
    <3>2. ASSUME NEW q \in Requests, Withdraw(q)
          PROVE  request'[r].status = request[r].status
      BY <1>6, <3>2 DEF Withdraw, ReviewTypeOK
    <3> QED
      BY <1>6, <3>1, <3>2 DEF ReviewNext, EditCard, StartSubmit, StartReview, WriteApproved, Stop,
                              RemoveCard
  <2>2. Submitting(c)
    BY <2>1 DEF CommitSubmit, ReviewsRemember
  <2>3. /\ request'[r].base = review[c].base
        /\ request'[r].revision = save[c].revision
        /\ request'[r].seen = save[c].seen
    BY <1>6, <2>1, Submission
  <2>4. UNCHANGED card
    BY <2>1 DEF CommitSubmit
  <2>5. save[c].revision = card.revision => save[c].seen = card.content
    BY <2>2 DEF Submitting, SavesRemember
  <2> QED
    BY <2>2, <2>3, <2>4, <2>5 DEF Submitting
<1> QED
  BY <1>4, <1>5, <1>6 DEF RequestsRemember

-----------------------------------------------------------------------------
(* Reviews                                                                  *)

(* What the steps of a call do to what it holds, and to what others hold.   *)
LEMMA OthersReviews ==
    ASSUME ReviewTypeOK, ReviewsRemember, ReviewNext
    PROVE  \/ UNCHANGED review /\ \A d \in Calls : review[d] # NoReview => save'[d] = save[d]
           \/ \E c \in Calls :
                /\ \/ StartSubmit(c) \/ CommitSubmit(c) \/ WriteApproved(c) \/ Finish(c) \/ Stop(c)
                   \/ \E r \in Requests : StartReview(c, r)
                /\ \A d \in Calls \ {c} : review'[d] = review[d] /\ save'[d] = save[d]
<1>1. review \in [Calls -> Review] /\ save \in [Calls -> Save]
  BY DEF ReviewTypeOK, CardTypeOK
<1>2. ASSUME NEW c \in Calls, EditCard(c)
      PROVE  UNCHANGED review /\ \A d \in Calls : review[d] # NoReview => save'[d] = save[d]
  <2>1. \A d \in Calls \ {c} : save'[d] = save[d]
    BY <1>1, <1>2 DEF EditCard, OpenCard, CheckUpdate, CommitUpdate, CloseCard
  <2> QED
    BY <1>2, <2>1 DEF EditCard
<1>3. ASSUME NEW c \in Calls,
             StartSubmit(c) \/ CommitSubmit(c) \/ WriteApproved(c) \/ Finish(c) \/ Stop(c)
      PROVE  \A d \in Calls \ {c} : review'[d] = review[d] /\ save'[d] = save[d]
  BY <1>1, <1>3 DEF StartSubmit, CommitSubmit, WriteApproved, Finish, Stop, CommitUpdate, CloseCard
<1>4. ASSUME NEW c \in Calls, NEW r \in Requests, StartReview(c, r)
      PROVE  \A d \in Calls \ {c} : review'[d] = review[d] /\ save'[d] = save[d]
  BY <1>1, <1>4 DEF StartReview, Finishing, Writing
<1>5. ASSUME RemoveCard \/ \E r \in Requests : Withdraw(r)
      PROVE  UNCHANGED <<review, save>>
  BY <1>5 DEF RemoveCard, Withdraw
<1> QED
  BY <1>2, <1>3, <1>4, <1>5 DEF ReviewNext

ReviewRemembers(c) ==
    /\ review[c].step = "idle" => review[c] = NoReview
    /\ review[c].step = "create" => Submitting(c)
    /\ review[c].step \in {"write", "finish"} => Reviewing(c)
    /\ review[c].step = "write" => SavesTheRequest(c)
    /\ review[c].step = "finish" /\ review[c].outcome = "approved"
         => applied[review[c].request] = 1

(* What a call holds stays true while others go on. *)
LEMMA HeldStaysTrue ==
    ASSUME ReviewTypeOK, SavesRemember, RequestsRemember, ReviewsRemember, ReviewNext,
           NEW d \in Calls, review'[d] = review[d],
           review[d] # NoReview => save'[d] = save[d]
    PROVE  ReviewRemembers(d)'
<1>1. /\ CardAdvances /\ RequestsKeep
      /\ card.revision \in Nat /\ card'.revision \in Nat
  <2>1. ReviewTypeOK' /\ CardAdvances
    BY CardStepsOfReviews, ReviewTypesHold
  <2>2. card'.revision \in Nat
    BY <2>1, CardAssumption DEF ReviewTypeOK, CardTypeOK, CardRow, Revisions
  <2> QED
    BY <2>1, <2>2, CardIsTyped, RequestSteps DEF ReviewTypeOK
<1>2. review[d].base \in Nat
  BY CardAssumption DEF ReviewTypeOK, Review, Revisions
<1>3. \A r \in Requests : applied[r] = 1 => applied'[r] = 1
  BY AppliedSteps DEF ReviewTypeOK
<1>4. ReviewRemembers(d)
  BY DEF ReviewsRemember, ReviewRemembers
<1>5. CASE review[d].step = "idle"
  BY <1>4, <1>5 DEF ReviewRemembers
<1>6. CASE review[d].step = "create"
  BY <1>1, <1>2, <1>4, <1>6, NoReviewIsReview DEF ReviewRemembers, Submitting, CardAdvances
<1>7. CASE review[d].step = "write"
  <2>1. Reviewing(d) /\ SavesTheRequest(d) /\ save'[d] = save[d]
    BY <1>4, <1>7, NoReviewIsReview DEF ReviewRemembers
  <2>2. Reviewing(d)' /\ SavesTheRequest(d)'
    BY <1>1, <2>1 DEF Reviewing, SavesTheRequest, RequestsKeep
  <2> QED
    BY <1>7, <2>2 DEF ReviewRemembers
<1>8. CASE review[d].step = "finish"
  <2>1. Reviewing(d)
    BY <1>4, <1>8 DEF ReviewRemembers
  <2>2. Reviewing(d)'
    BY <1>1, <2>1 DEF Reviewing, RequestsKeep
  <2> QED
    BY <1>3, <1>4, <1>8, <2>1, <2>2 DEF ReviewRemembers, Reviewing
<1> QED
  BY <1>5, <1>6, <1>7, <1>8 DEF ReviewTypeOK, Review

LEMMA ReviewsHold ==
    ASSUME ReviewTypeOK, SavesRemember, RequestsRemember, ReviewsRemember, ReviewNext
    PROVE  ReviewsRemember'
<1>1. ASSUME NEW c \in Calls, StartSubmit(c)
      PROVE  ReviewRemembers(c)'
  <2>1. /\ UNCHANGED <<card, save, request>>
        /\ review'[c].step = "create"
        /\ review'[c].base = card.revision
        /\ review'[c].request = NoRequest
        /\ save[c].step = "open"
    BY <1>1, NoReviewIsReview DEF StartSubmit, ReviewTypeOK, Review
  <2>2. save[c].revision <= card.revision /\ card.revision \in Nat
    BY <2>1, CardIsTyped DEF SavesRemember, ReviewTypeOK
  <2> QED
    BY <2>1, <2>2 DEF ReviewRemembers, Submitting
<1>2. ASSUME NEW c \in Calls, CommitSubmit(c) \/ Finish(c) \/ Stop(c)
      PROVE  ReviewRemembers(c)'
  <2>1. review'[c] = NoReview
    BY <1>2 DEF CommitSubmit, Finish, Stop, ReviewTypeOK
  <2> QED
    BY <2>1, NoReviewIsReview DEF ReviewRemembers
<1>3. ASSUME NEW c \in Calls, NEW r \in Requests, StartReview(c, r)
      PROVE  ReviewRemembers(c)'
  <2>1. UNCHANGED request /\ request[r].status = "pending"
    BY <1>3 DEF StartReview
  <2>2. CASE Writing(c, r)
    <3>1. /\ review'[c].step = "write" /\ review'[c].request = r
          /\ review'[c].outcome = "approved"
      BY <2>2 DEF Writing, ReviewTypeOK, NoReview
    <3>2. /\ save'[c].step = "commit"
          /\ save'[c].revision = request[r].revision /\ save'[c].seen = request[r].seen
      BY <2>2 DEF Writing, ReviewTypeOK, CardTypeOK
    <3> QED
      BY <2>1, <3>1, <3>2 DEF ReviewRemembers, Reviewing, SavesTheRequest
  <2>3. CASE Finishing(c, r, "rejected") \/ Finishing(c, r, "stale")
    <3>1. /\ review'[c].step = "finish" /\ review'[c].request = r
          /\ review'[c].outcome # "approved"
      BY <2>3 DEF Finishing, ReviewTypeOK, NoReview
    <3> QED
      BY <2>1, <3>1 DEF ReviewRemembers, Reviewing
  <2> QED
    BY <1>3, <2>2, <2>3 DEF StartReview
<1>4. ASSUME NEW c \in Calls, WriteApproved(c)
      PROVE  ReviewRemembers(c)'
  <2>1. CASE MayCommit(c)
    <3>1. /\ review'[c].step = "finish" /\ review'[c].request = review[c].request
          /\ review[c].step = "write"
          /\ UNCHANGED request
      BY <1>4, <2>1 DEF WriteApproved, ReviewTypeOK, Review
    <3>2. Reviewing(c) /\ review[c].request \in Requests
      BY <3>1 DEF ReviewsRemember, Reviewing
    <3>3. applied'[review[c].request] = 1
      BY <1>4, <2>1, <3>1, <3>2, NotYetApplied DEF WriteApproved, ReviewTypeOK
    <3> QED
      BY <3>1, <3>2, <3>3 DEF ReviewRemembers, Reviewing
  <2>2. CASE ~MayCommit(c)
    <3>1. review'[c] = NoReview
      BY <1>4, <2>2 DEF WriteApproved, ReviewTypeOK
    <3> QED
      BY <3>1, NoReviewIsReview DEF ReviewRemembers
  <2> QED
    BY <2>1, <2>2
<1>5. ASSUME NEW d \in Calls
      PROVE  ReviewRemembers(d)'
  <2>1. CASE UNCHANGED review /\ \A e \in Calls : review[e] # NoReview => save'[e] = save[e]
    BY <2>1, HeldStaysTrue
  <2>2. ASSUME NEW c \in Calls,
               \/ StartSubmit(c) \/ CommitSubmit(c) \/ WriteApproved(c) \/ Finish(c) \/ Stop(c)
               \/ \E r \in Requests : StartReview(c, r),
               \A e \in Calls \ {c} : review'[e] = review[e] /\ save'[e] = save[e]
        PROVE  ReviewRemembers(d)'
    <3>1. CASE d = c
      BY <1>1, <1>2, <1>3, <1>4, <2>2, <3>1
    <3>2. CASE d # c
      BY <2>2, <3>2, HeldStaysTrue
    <3> QED
      BY <3>1, <3>2
  <2> QED
    BY <2>1, <2>2, OthersReviews
<1> QED
  BY <1>5 DEF ReviewsRemember, ReviewRemembers

-----------------------------------------------------------------------------
(* Outcomes                                                                 *)

LEMMA ApprovedHolds ==
    ASSUME ReviewTypeOK, RequestsRemember, ReviewsRemember, ApprovedIsApplied, ReviewNext
    PROVE  ApprovedIsApplied'
<1>1. \A r \in Requests : applied[r] = 1 => applied'[r] = 1
  BY AppliedSteps DEF ReviewTypeOK
<1>2. ASSUME NEW r \in Requests, request'[r].status = "approved"
      PROVE  applied[r] = 1
  <2>1. ASSUME NEW c \in Calls, CommitSubmit(c)
        PROVE  request[r].status = "approved"
    BY <1>2, <2>1, Submission
  <2>2. ASSUME NEW q \in Requests, Withdraw(q)
        PROVE  request[r].status = "approved"
    BY <1>2, <2>2 DEF Withdraw, ReviewTypeOK, RequestRow
  <2>3. ASSUME NEW c \in Calls, Finish(c)
        PROVE  request[r].status = "approved" \/ applied[r] = 1
    <3>1. CASE review[c].request = r
      <4>1. review[c].outcome = "approved"
        BY <1>2, <2>3, <3>1 DEF Finish, ReviewTypeOK, RequestRow
      <4> QED
        BY <2>3, <3>1, <4>1 DEF Finish, ReviewsRemember
    <3>2. CASE review[c].request # r
      BY <1>2, <2>3, <3>2 DEF Finish, ReviewTypeOK
    <3> QED
      BY <3>1, <3>2
  <2>4. request[r].status = "approved" \/ applied[r] = 1
    BY <1>2, <2>1, <2>2, <2>3
       DEF ReviewNext, EditCard, StartSubmit, StartReview, WriteApproved, Stop, RemoveCard
  <2> QED
    BY <2>4 DEF ApprovedIsApplied
<1> QED
  BY <1>1, <1>2 DEF ApprovedIsApplied

LEMMA AgreementHolds ==
    ASSUME ReviewTypeOK, RequestsRemember, ReviewsRemember, ReviewsAgree, ReviewNext
    PROVE  ReviewsAgree'
<1> SUFFICES ASSUME NEW r \in Requests, r \notin contested'
             PROVE  Undisturbed(r)'
  BY DEF ReviewsAgree
<1>1. r \notin contested
  BY DEF ReviewNext, EditCard, StartSubmit, CommitSubmit, StartReview, WriteApproved, Finish, Stop,
         Withdraw, RemoveCard, Contest
<1>2. /\ Undisturbed(r)
      /\ review \in [Calls -> Review] /\ request \in [Requests -> RequestRow]
      /\ NoReview.step = "idle" /\ NoReview.request = NoRequest /\ r # NoRequest
  BY <1>1, NoReviewIsReview, ApprovalsAssumption DEF ReviewsAgree, ReviewTypeOK
<1>3. ASSUME UNCHANGED <<request, applied>>, \A d \in Calls : ReviewOf(d, r)' <=> ReviewOf(d, r),
             \A d \in Calls : ReviewOf(d, r) => review'[d] = review[d]
      PROVE  Undisturbed(r)'
  BY <1>2, <1>3 DEF Undisturbed
(* Nobody reviews it, and it has not been written. *)
<1>4. ASSUME ~UnderReview(r), request[r].status \in {"none", "pending"}
      PROVE  applied[r] # 1
  BY <1>2, <1>4 DEF UnderReview, Undisturbed, ReviewOf
<1>5. ASSUME NEW c \in Calls, StartSubmit(c)
      PROVE  Undisturbed(r)'
  BY <1>2, <1>3, <1>5 DEF StartSubmit, ReviewOf, NoReview, Review
<1>6. ASSUME NEW c \in Calls, CommitSubmit(c)
      PROVE  Undisturbed(r)'
  <2>1. /\ UNCHANGED applied
        /\ review' = [review EXCEPT ![c] = NoReview]
        /\ review[c].request = NoRequest
    BY <1>6 DEF CommitSubmit, ReviewsRemember, Submitting
  <2>2. \A d \in Calls : ReviewOf(d, r)' <=> ReviewOf(d, r)
    BY <1>2, <2>1 DEF ReviewOf
  <2>3. CASE request'[r].status = request[r].status
    BY <1>2, <2>1, <2>2, <2>3 DEF Undisturbed, ReviewOf
  <2>4. CASE request'[r].status # request[r].status
    <3>1. request[r].status \in {"none", "pending"} /\ ~UnderReview(r)
      <4>1. request[r].status = "none" => ~UnderReview(r)
        <5>1. ASSUME NEW d \in Calls, request[r].status = "none", ReviewOf(d, r)
              PROVE  FALSE
          <6>1. review[d].step # "create"
            BY <1>2, <5>1 DEF ReviewOf, ReviewsRemember, Submitting
          <6>2. review[d].step \in {"write", "finish"}
            BY <1>2, <5>1, <6>1 DEF ReviewOf, Review
          <6> QED
            BY <5>1, <6>2 DEF ReviewOf, ReviewsRemember, Reviewing
        <5> QED
          BY <5>1 DEF UnderReview, ReviewOf
      <4> QED
        BY <1>6, <2>4, <4>1, Submission
    <3> QED
      BY <1>4, <2>1, <2>2, <3>1 DEF Undisturbed, UnderReview, ReviewOf
  <2> QED
    BY <2>3, <2>4
<1>7. ASSUME NEW q \in Requests, Withdraw(q)
      PROVE  Undisturbed(r)'
  <2>1. CASE q = r
    <3>1. request[r].status = "pending" /\ ~UnderReview(r) /\ UNCHANGED <<applied, review>>
      BY <1>1, <1>7, <2>1 DEF Withdraw, Contest
    <3> QED
      BY <1>4, <3>1 DEF Undisturbed, UnderReview, ReviewOf
  <2>2. CASE q # r
    <3>1. request'[r] = request[r] /\ UNCHANGED <<applied, review>>
      BY <1>2, <1>7, <2>2 DEF Withdraw
    <3> QED
      BY <1>2, <3>1 DEF Undisturbed, ReviewOf
  <2> QED
    BY <2>1, <2>2
<1>8. ASSUME NEW c \in Calls, NEW q \in Requests, StartReview(c, q)
      PROVE  Undisturbed(r)'
  <2>1. /\ UNCHANGED <<request, applied>>
        /\ review[c] = NoReview
        /\ review'[c].request = q
        /\ \A d \in Calls \ {c} : review'[d] = review[d]
    BY <1>2, <1>8 DEF StartReview, Finishing, Writing, NoReview
  <2>2. CASE q = r
    <3>1. request[r].status = "pending" /\ ~UnderReview(r)
      BY <1>8, <2>2 DEF StartReview, Contest
    <3> QED
      BY <1>4, <2>1, <3>1 DEF Undisturbed, UnderReview, ReviewOf
  <2>3. CASE q # r
    BY <1>2, <1>3, <2>1, <2>3 DEF ReviewOf
  <2> QED
    BY <2>2, <2>3
<1>9. ASSUME NEW c \in Calls, WriteApproved(c)
      PROVE  Undisturbed(r)'
  <2>1. /\ UNCHANGED request
        /\ \A d \in Calls \ {c} : review'[d] = review[d]
        /\ review[c].step = "write"
    BY <1>2, <1>9 DEF WriteApproved
  <2>2. CASE MayCommit(c)
    <3>1. /\ review'[c].step = "finish"
          /\ review'[c].request = review[c].request /\ review'[c].outcome = "approved"
      <4>1. review[c].outcome = "approved"
        BY <2>1 DEF ReviewsRemember, SavesTheRequest
      <4> QED
        BY <1>2, <1>9, <2>2, <4>1 DEF WriteApproved, Review
    <3>2. review[c].request # r => applied'[r] = applied[r]
      BY <1>9, <2>2 DEF WriteApproved, ReviewTypeOK
    <3> QED
      BY <1>2, <2>1, <3>1, <3>2 DEF Undisturbed, ReviewOf
  <2>3. CASE ~MayCommit(c)
    <3>1. review'[c] = NoReview /\ UNCHANGED applied
      BY <1>2, <1>9, <2>3 DEF WriteApproved
    <3> QED
      BY <1>2, <2>1, <3>1 DEF Undisturbed, ReviewOf
  <2> QED
    BY <2>2, <2>3
<1>10. ASSUME NEW c \in Calls, Finish(c)
       PROVE  Undisturbed(r)'
  <2>1. /\ UNCHANGED applied
        /\ review'[c] = NoReview
        /\ \A d \in Calls \ {c} : review'[d] = review[d]
        /\ review[c].step = "finish"
    BY <1>2, <1>10 DEF Finish
  <2>2. CASE review[c].request = r
    <3>1. request'[r].status = review[c].outcome
      BY <1>2, <1>10, <2>2 DEF Finish, RequestRow
    <3>2. \A d \in Calls : ~ReviewOf(d, r)'
      BY <1>2, <2>1, <2>2 DEF Undisturbed, ReviewOf
    <3>3. applied[r] = 1 => review[c].outcome = "approved"
      BY <1>2, <2>1, <2>2 DEF Undisturbed, ReviewOf
    <3> QED
      BY <2>1, <3>1, <3>2, <3>3 DEF Undisturbed
  <2>3. CASE review[c].request # r
    <3>1. request'[r] = request[r]
      BY <1>2, <1>10, <2>3 DEF Finish
    <3> QED
      BY <1>2, <2>1, <2>3, <3>1 DEF Undisturbed, ReviewOf
  <2> QED
    BY <2>2, <2>3
<1>11. ASSUME NEW c \in Calls, Stop(c)
       PROVE  Undisturbed(r)'
  <2>1. /\ UNCHANGED <<request, applied>>
        /\ review'[c] = NoReview
        /\ \A d \in Calls \ {c} : review'[d] = review[d]
        /\ review[c].request # r
    BY <1>2, <1>11 DEF Stop
  <2> QED
    BY <1>2, <1>3, <2>1 DEF ReviewOf
<1>12. ASSUME UNCHANGED <<request, applied, review>>
       PROVE  Undisturbed(r)'
  BY <1>3, <1>12 DEF ReviewOf
<1> QED
  BY <1>5, <1>6, <1>7, <1>8, <1>9, <1>10, <1>11, <1>12 DEF ReviewNext, EditCard, RemoveCard

-----------------------------------------------------------------------------
(* The invariant                                                            *)

LEMMA ReviewInitHolds ==
    ASSUME ReviewInit
    PROVE  ReviewInv
<1>1. CardTypeOK /\ SavesRemember
  BY CardInitRemembers DEF ReviewInit
<1>2. 1 \in Revisions /\ card.content \in Content
  BY <1>1, CardIsTyped
<1>3. /\ \A r \in Requests : request[r].status = "none"
      /\ request \in [Requests -> RequestRow]
  <2> DEFINE first == [status |-> "none", by |-> UserOf[CHOOSE c \in Calls : TRUE], base |-> 1,
                       revision |-> 1, seen |-> card.content, content |-> card.content]
  <2>1. request = [r \in Requests |-> first]
    BY DEF ReviewInit
  <2>2. UserOf[CHOOSE c \in Calls : TRUE] \in Users
    BY ApprovalsAssumption
  <2>3. first \in RequestRow /\ first.status = "none"
    BY <1>2, <2>2 DEF RequestRow
  <2> HIDE DEF first
  <2> QED
    BY <2>1, <2>3
<1>4. review = [c \in Calls |-> NoReview] /\ applied = [r \in Requests |-> 0]
  BY DEF ReviewInit
<1>5. ReviewTypeOK
  <2>1. review \in [Calls -> Review] /\ applied \in [Requests -> 0..1]
    BY <1>4, NoReviewIsReview
  <2>2. 0 \in 0..MaxStops
    BY ApprovalsAssumption
  <2> QED
    BY <1>1, <1>3, <2>1, <2>2 DEF ReviewInit, ReviewTypeOK
<1>6. RequestsRemember /\ ReviewsRemember /\ ReviewsAgree /\ ApprovedIsApplied
  BY <1>3, <1>4, NoReviewIsReview
     DEF RequestsRemember, ReviewsRemember, ReviewsAgree, Undisturbed, ReviewOf, ApprovedIsApplied
<1> QED
  BY <1>1, <1>5, <1>6 DEF ReviewInv

LEMMA ReviewStepHolds ==
    ASSUME ReviewInv, [ReviewNext]_reviewVars
    PROVE  ReviewInv'
<1>1. CASE ReviewNext
  BY <1>1, CardStepsOfReviews, ReviewTypesHold, RequestsHold, ReviewsHold, AgreementHolds,
     ApprovedHolds DEF ReviewInv
<1>2. CASE UNCHANGED reviewVars
  BY <1>2 DEF reviewVars, ReviewInv, ReviewTypeOK, CardTypeOK, SavesRemember, RequestsRemember,
              ReviewsRemember, Submitting, Reviewing, SavesTheRequest, ReviewsAgree, Undisturbed,
              ReviewOf,
              ApprovedIsApplied
<1> QED
  BY <1>1, <1>2

THEOREM ReviewInvariantHolds == ReviewSpec => []ReviewInv
<1>1. ReviewInit => ReviewInv
  BY ReviewInitHolds
<1>2. ReviewInv /\ [ReviewNext]_reviewVars => ReviewInv'
  BY ReviewStepHolds
<1> QED
  BY <1>1, <1>2, PTL DEF ReviewSpec

(* Every row and every local of a submission, a review and an edit holds a  *)
(* value of its type; in particular a request is written at most once.      *)
THEOREM ReviewsTyped == ReviewSpec => []ReviewTypeOK
<1>1. ReviewInv => ReviewTypeOK
  BY DEF ReviewInv
<1> QED
  BY <1>1, ReviewInvariantHolds, PTL

(* approvals.service.ts, review: what the requester is told happened to the *)
(* card, for any number of reviewers, stops and overlapping edits.          *)
THEOREM OutcomeIsTrue == ReviewSpec => []OutcomeMatchesCard
<1>1. ReviewInv => OutcomeMatchesCard
  <2> SUFFICES ASSUME ReviewInv, NEW r \in Requests, r \notin contested,
                      request[r].status \in {"rejected", "stale", "withdrawn"}
               PROVE  applied[r] = 0
    BY DEF ReviewInv, ApprovedIsApplied, OutcomeMatchesCard
  <2>1. applied[r] # 1
    BY DEF ReviewInv, ReviewsAgree, Undisturbed
  <2> QED
    BY <2>1 DEF ReviewInv, ReviewTypeOK
<1> QED
  BY <1>1, ReviewInvariantHolds, PTL

(* approvals.service.ts, above submit: a change is written onto the text    *)
(* its author saw and the reviewer compared, or not at all.                 *)
THEOREM AppliedToProposal == ReviewSpec => AppliedWhereProposed
<1>1. ReviewInv /\ [ReviewNext]_reviewVars =>
        [\A r \in Requests : applied'[r] # applied[r] =>
           card.revision = request[r].base /\ card.content = request[r].seen]_reviewVars
  <2> SUFFICES ASSUME ReviewInv, ReviewNext, NEW r \in Requests, applied'[r] # applied[r]
               PROVE  card.revision = request[r].base /\ card.content = request[r].seen
    OBVIOUS
  <2>1. PICK c \in Calls : /\ WriteApproved(c) /\ MayCommit(c)
                           /\ applied' = [applied EXCEPT ![review[c].request] = 1]
    BY AppliedSteps DEF ReviewInv
  <2>2. r = review[c].request /\ review[c].step = "write"
    BY <2>1 DEF WriteApproved, ReviewInv, ReviewTypeOK
  <2>3. /\ request[r].revision = card.revision /\ request[r].base = card.revision
        /\ request[r].status # "none"
    BY <2>1, <2>2, NotYetApplied DEF ReviewInv, ReviewsRemember, Reviewing
  <2> QED
    BY <2>3 DEF ReviewInv, RequestsRemember
<1> QED
  BY <1>1, ReviewInvariantHolds, PTL DEF ReviewSpec, AppliedWhereProposed

(* cards.service.ts, above update: the last window to save does not wipe    *)
(* out the other's work unseen, whether it is an edit or an approval.       *)
THEOREM NothingIsLost == ReviewSpec => NoLostUpdate
<1>1. ReviewInv /\ [ReviewNext]_reviewVars =>
        [card'.content # card.content =>
           \E c \in Calls : save[c].step = "commit" /\ save[c].seen = card.content]_card
  <2> SUFFICES ASSUME ReviewInv, ReviewNext, card'.content # card.content
               PROVE  \E c \in Calls : save[c].step = "commit" /\ save[c].seen = card.content
    BY DEF reviewVars
  <2>1. ~RemoveCard
    BY DEF RemoveCard, ReviewInv, ReviewTypeOK, CardTypeOK, CardRow
  <2>2. PICK c \in Calls : CommitUpdate(c)
    BY <2>1 DEF ReviewNext, EditCard, OpenCard, CheckUpdate, StartSubmit, CommitSubmit, StartReview,
                WriteApproved, Finish, Stop, Withdraw
  <2>3. MayCommit(c) /\ save[c].step = "commit" /\ save[c].seen = card.content
    BY <2>2, CommitUpdateWrites DEF CommitUpdate, ReviewInv, ReviewTypeOK
  <2> QED
    BY <2>3
<1> QED
  BY <1>1, ReviewInvariantHolds, PTL DEF ReviewSpec, NoLostUpdate
=============================================================================
