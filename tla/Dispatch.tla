------------------------------ MODULE Dispatch ------------------------------
(***************************************************************************)
(* What the outbox promises of the events it is given, whatever the number *)
(* of workers, batches, failing calls and stops: an event is in one pair   *)
(* of hands at a time, is taken up at most so many times, has what it      *)
(* causes under way before it is said to be done, and is given up only     *)
(* when it has been taken up for the last time.  What is done or given up  *)
(* is so for good, and what is under way is not undone.  An event may stay *)
(* in hands that are no more.  Outbox.tla implements this.                 *)
(***************************************************************************)
EXTENDS Naturals

CONSTANTS
    Events,      \* what is announced
    MaxAttempts  \* how often an event is taken up

VARIABLES
    standing,  \* [Events -> {"none", "open", "taken", "done", "givenUp"}]
    taken,     \* how often each event was taken up
    underWay   \* the events whose effects are all on their way

dispatchVars == <<standing, taken, underWay>>

DispatchInit ==
    /\ standing = [e \in Events |-> "none"]
    /\ taken = [e \in Events |-> 0]
    /\ underWay = {}

Becomes(e, from, to) ==
    /\ standing[e] = from
    /\ standing' = [standing EXCEPT ![e] = to]
    /\ UNCHANGED <<taken, underWay>>

Announce(e) == Becomes(e, "none", "open")

TakeUp(some) ==
    /\ \A e \in some : standing[e] = "open" /\ taken[e] < MaxAttempts
    /\ standing' = [e \in Events |-> IF e \in some THEN "taken" ELSE standing[e]]
    /\ taken' = [e \in Events |-> IF e \in some THEN taken[e] + 1 ELSE taken[e]]
    /\ UNCHANGED underWay

(* One call may complete what several events cause, when they cause the     *)
(* same; but none that was never taken up.                                  *)
SetUnderWay(some) ==
    /\ \A e \in some : taken[e] > 0
    /\ underWay' = underWay \cup some
    /\ UNCHANGED <<standing, taken>>

Finish(e) == e \in underWay /\ Becomes(e, "taken", "done")

PutBack(e) == taken[e] < MaxAttempts /\ Becomes(e, "taken", "open")

GiveUp(e) == taken[e] = MaxAttempts /\ Becomes(e, "taken", "givenUp")

DispatchNext ==
    \/ \E e \in Events : Announce(e) \/ Finish(e) \/ PutBack(e) \/ GiveUp(e)
    \/ \E some \in SUBSET Events : TakeUp(some) \/ SetUnderWay(some)

DispatchSpec == DispatchInit /\ [][DispatchNext]_dispatchVars
=============================================================================
