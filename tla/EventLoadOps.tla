---------------------------- MODULE EventLoadOps ----------------------------
(***************************************************************************)
(* The variables captured by one call of HomeServiceImpl.getData, as a     *)
(* record, and what each of its callbacks does to them.                    *)
(*                                                                         *)
(* getData asks for the keys under users/<uid>/events, then enters a       *)
(* DispatchGroup once per key and asks for every event at once.  Each      *)
(* event that is found is appended to the service's eventArray, the whole  *)
(* array is copied to the local eventS, and the group is left.  When the   *)
(* group's count is back to zero a block on a background queue completes   *)
(* with eventS.  A failed event completes with an error and never leaves.  *)
(***************************************************************************)
EXTENDS Naturals, Sequences, FiniteSets

CONSTANTS Ids,    \* keys childByAutoId can make
          Texts   \* what an event says (date, title and description)

ASSUME IdsAreFinite == IsFiniteSet(Ids)

EventModel == [id : Ids, text : Texts]

Phases == {"idle",    \* viewDidLoad has not run
           "index",   \* fetchEventsFromUsers is asking for the keys
           "silent",  \* ... and returned without completing (no value)
           "failed",  \* ... and completed with an error
           "events",  \* fetchEventsFromEvents is asking, the group is waited on
           "notify",  \* the group is empty, its block is queued
           "done"}    \* getData has completed with eventS

Loads == [phase : Phases, wanted : SUBSET Ids, pending : SUBSET Ids, group : Nat,
          eventArray : Seq(EventModel), eventS : Seq(EventModel),
          failures : Nat, shown : Seq(EventModel)]

NewLoad == [phase |-> "idle", wanted |-> {}, pending |-> {}, group |-> 0,
            eventArray |-> << >>, eventS |-> << >>,
            failures |-> 0, shown |-> << >>]

IdsIn(list) == {list[i].id : i \in 1..Len(list)}

EventsIn(list) == {list[i] : i \in 1..Len(list)}
-----------------------------------------------------------------------------
AskIndex(l) == [l EXCEPT !.phase = "index"]

IndexFailed(l) == [l EXCEPT !.phase = "failed", !.failures = @ + 1]

\* `guard let value ... else { return }': nobody is ever told.
IndexIsNull(l) == [l EXCEPT !.phase = "silent"]

\* A slip: group.enter once before the loop instead of once per key.
IndexFoundEntersOnce(l, keys) ==
    [l EXCEPT !.phase = "events", !.wanted = keys, !.pending = keys, !.group = 1]

\* One group.enter and one request per key, then group.notify is registered.
IndexFound(l, keys) ==
    [l EXCEPT !.phase = "events", !.wanted = keys, !.pending = keys,
              !.group = Cardinality(keys)]

\* A slip: complete with the one event instead of with the array so far.
EventFoundCompletesWithOne(l, event) ==
    [l EXCEPT !.pending = @ \ {event.id},
              !.eventArray = Append(@, event), !.eventS = <<event>>,
              !.group = @ - 1,
              !.phase = IF l.group = 1 THEN "notify" ELSE @]

\* A slip: no leave after the event was kept.
EventFoundStaysIn(l, event) ==
    [l EXCEPT !.pending = @ \ {event.id},
              !.eventArray = Append(@, event), !.eventS = Append(@, event)]

\* eventS = eventData; group.leave(), which releases the block at zero.
EventFound(l, event) ==
    LET array == Append(l.eventArray, event)
    IN  [l EXCEPT !.pending = @ \ {event.id},
                  !.eventArray = array,
                  !.eventS = array,
                  !.group = @ - 1,
                  !.phase = IF l.group = 1 THEN "notify" ELSE @]

\* A slip: leave the group on the error path too.
EventFailedLeaves(l, id) ==
    [l EXCEPT !.pending = @ \ {id}, !.failures = @ + 1, !.group = @ - 1,
              !.phase = IF l.group = 1 THEN "notify" ELSE @]

\* completionHandler(.failure) and return: the group is not left.
EventFailed(l, id) ==
    [l EXCEPT !.pending = @ \ {id}, !.failures = @ + 1]

\* A value that is not an event: return, with neither completion nor leave.
EventMalformed(l, id) == [l EXCEPT !.pending = @ \ {id}]

\* The group's block: getData completes with what eventS holds now.
GroupNotify(l) == [l EXCEPT !.phase = "done", !.shown = l.eventS]
=============================================================================
