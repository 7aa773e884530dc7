----------------------------- MODULE CardUpdate -----------------------------
(***************************************************************************)
(* A card and its one way of being written: CardsService.update of         *)
(* apps/api/src/cards/cards.service.ts with the policy check of            *)
(* branding/card-policy.ts.  Cards adds publishing to it, Approvals the    *)
(* change requests, whose approval goes through the same update.           *)
(*                                                                         *)
(* A client opens the card, changes some fields and sends them with the    *)
(* revision it saw.  The API reads the card, checks, and writes in a       *)
(* second transaction; between the two anybody else may write.             *)
(***************************************************************************)
EXTENDS Naturals

CONSTANTS
    Calls,        \* a window of a client, with the API call it makes
    Approvers,    \* those of them whose user holds cards:approve
    Texts,        \* what the text fields may say
    Blank,        \* a text publishBlockers refuses
    Avatars,      \* files the picture may be
    Locked,       \* fields the policy of the owner's unit locks
    RequireApproval,
    MaxRevision   \* bound: how far a card is edited

ASSUME CardAssumption ==
    /\ Approvers \subseteq Calls
    /\ Blank \in Texts
    /\ Locked \subseteq {"text", "avatar"}
    /\ RequireApproval \in BOOLEAN
    /\ MaxRevision \in Nat \ {0}

Fields == {"text", "avatar"}

Content == [text : Texts, avatar : Avatars]

Revisions == 1..MaxRevision

VARIABLES
    card,       \* the row of cards
    save        \* an update under way, by the call that makes it

CardRow ==
    [revision : Revisions,
     content : Content,
     status : {"draft", "published", "unpublished"},
     deleted : BOOLEAN]

Save ==
    [step : {"idle", "open", "commit"},
     revision : Revisions,  \* the one the client sends
     seen : Content,        \* what the client was looking at
     content : Content]     \* what it sends

NoSave ==
    LET any == CHOOSE content \in Content : TRUE
    IN  [step |-> "idle", revision |-> 1, seen |-> any, content |-> any]

(* create: the first revision has a name, and nothing a visitor could use. *)
CardInit ==
    \E avatar \in Avatars :
        LET first == [text |-> Blank, avatar |-> avatar]
        IN  /\ card = [revision |-> 1, content |-> first, status |-> "draft", deleted |-> FALSE]
            /\ save = [c \in Calls |-> NoSave]

CardTypeOK ==
    /\ card \in CardRow
    /\ save \in [Calls -> Save]

-----------------------------------------------------------------------------
(* The policy                                                               *)

(* lockedFieldsTouched looks for text under localizations; the input has it *)
(* under content.                                                           *)
InputPath(field) == IF field = "text" THEN "localizations" ELSE field

KeysOf(fields) == {IF f = "text" THEN "content" ELSE f : f \in fields}

LockedFieldsTouched(fields) == {f \in Locked : InputPath(f) \in KeysOf(fields)}

PolicyAllows(fields) == LockedFieldsTouched(fields) = {} /\ ~RequireApproval

-----------------------------------------------------------------------------
(* update                                                                   *)

OpenCard(c) ==
    /\ save[c].step = "idle"
    /\ ~card.deleted
    /\ save' = [save EXCEPT ![c].step = "open", ![c].revision = card.revision,
                            ![c].seen = card.content]
    /\ UNCHANGED card

CloseCard(c) == save' = [save EXCEPT ![c] = NoSave]

(* What a client may send: some fields, the others as the card has them.    *)
Edits(fields) ==
    {new \in Content : \A f \in Fields \ fields : new[f] = card.content[f]}

(* loadCard, assertPolicyAllows unless bypassed, and the first comparison   *)
(* of revisions: what fails any of them ends here.                          *)
CheckUpdate(c) ==
    /\ save[c].step = "open"
    /\ \E fields \in SUBSET Fields \ {{}} :
        \E new \in Edits(fields) :
            IF /\ ~card.deleted
               /\ c \in Approvers \/ PolicyAllows(fields)
               /\ card.revision = save[c].revision
            THEN save' = [save EXCEPT ![c].step = "commit", ![c].content = new]
            ELSE CloseCard(c)
    /\ UNCHANGED card

MayCommitChecked(c) == ~card.deleted

(* The condition of the updateMany: the card is still the one checked. *)
MayCommit(c) == card.revision = save[c].revision /\ ~card.deleted

WrittenUncounted(content) == [card EXCEPT !.content = content]

Written(content) == [card EXCEPT !.content = content, !.revision = @ + 1]

CommitUpdate(c) ==
    /\ save[c].step = "commit"
    /\ IF MayCommit(c)
       THEN /\ card.revision < MaxRevision
            /\ card' = Written(save[c].content)
       ELSE UNCHANGED card
    /\ CloseCard(c)

-----------------------------------------------------------------------------
(* Properties                                                               *)

(* cards.service.ts, above update: two windows on one card are an everyday  *)
(* matter, and the last to save must not wipe out the other's work unseen.  *)
(* Whatever a card says is replaced only by somebody who was looking at it. *)
NoLostUpdate ==
    [][card'.content # card.content =>
         \E c \in Calls : save[c].step = "commit" /\ save[c].seen = card.content]_card
=============================================================================
