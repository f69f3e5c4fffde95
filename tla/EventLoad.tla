----------------------------- MODULE EventLoad ------------------------------
(***************************************************************************)
(* One Home screen loading its list, against every answer the database may *)
(* give and in every order: HomeServiceImpl.getData with the two fetches   *)
(* it calls, from viewDidLoad to setData.                                  *)
(***************************************************************************)
EXTENDS EventLoadOps

VARIABLE load

Init == load = NewLoad

GetData == /\ load.phase = "idle"
           /\ load' = AskIndex(load)

IndexAnswered ==
    /\ load.phase = "index"
    /\ \/ load' = IndexFailed(load)
       \/ load' = IndexIsNull(load)
       \/ \E keys \in (SUBSET Ids) \ {{}} : load' = IndexFound(load, keys)

EventAnswered(id) ==
    /\ id \in load.pending
    /\ \/ \E text \in Texts : load' = EventFound(load, [id |-> id, text |-> text])
       \/ load' = EventFailed(load, id)
       \/ load' = EventMalformed(load, id)

Notify == /\ load.phase = "notify"
          /\ load' = GroupNotify(load)

Next == \/ GetData
        \/ IndexAnswered
        \/ \E id \in Ids : EventAnswered(id)
        \/ Notify

vars == load

Spec == Init /\ [][Next]_vars

\* The connection answers what it was asked, and the queues run their blocks.
Fairness == /\ WF_vars(IndexAnswered)
            /\ \A id \in Ids : WF_vars(EventAnswered(id))
            /\ WF_vars(Notify)

FairSpec == Spec /\ Fairness
-----------------------------------------------------------------------------
TypeOK == load \in Loads

Good == IdsIn(load.eventArray)

\* Keys whose request came back without an event: they hold the group forever.
Lost == load.wanted \ (Good \cup load.pending)

(* The list Home is given has exactly one event for every key that the     *)
(* account's index listed: no partial list and no duplicate ever reaches   *)
(* setData, whatever the order of the answers (eventS is overwritten by    *)
(* every callback and read on another queue).                              *)
ListIsWhole ==
    load.phase = "done" =>
        /\ IdsIn(load.shown) = load.wanted
        /\ Len(load.shown) = Cardinality(load.wanted)

(* completionHandler is called with a failure or with a list, never with   *)
(* both: once one event has failed the group can no longer drain.          *)
FailureOrList == load.failures > 0 => load.phase \notin {"notify", "done"}

(* enter and leave balance: the count of the DispatchGroup is the number   *)
(* of keys still asked for plus the keys lost, so leave() never runs on an *)
(* empty group (which would trap) and the block cannot run early.          *)
GroupBalance ==
    load.phase \in {"events", "notify", "done"} =>
        load.group = Cardinality(load.pending) + Cardinality(Lost)

(* If every key that was listed is found, the list is shown: the block is  *)
(* released by the last leave and by no earlier one.                       *)
WholeIsShown == (load.phase = "events") ~> (load.phase = "done" \/ Lost # {})
-----------------------------------------------------------------------------
\* The strengthening of TypeOK under which the three invariants are inductive.
Quiescent == load.phase \in {"idle", "index", "silent", "failed"}

CountInv ==
    /\ Quiescent => /\ load.wanted = {} /\ load.pending = {}
                    /\ load.eventArray = << >> /\ load.group = 0
    /\ ~ Quiescent => load.wanted # {}
    /\ load.phase \in {"idle", "index", "silent"} => load.failures = 0
    /\ load.pending \subseteq load.wanted
    /\ Good \subseteq load.wanted \ load.pending
    /\ load.group = Cardinality(load.wanted \ Good)
    /\ load.phase = "events" => load.wanted \ Good # {}
    /\ load.phase \in {"notify", "done"} => load.wanted \ Good = {}

ArrayInv ==
    /\ load.eventS = load.eventArray
    /\ load.shown = IF load.phase = "done" THEN load.eventArray ELSE << >>
    /\ Len(load.eventArray) = Cardinality(Good)

FailureInv == load.failures > 0 /\ load.phase # "failed" => Lost # {}

IInv == TypeOK /\ CountInv /\ ArrayInv /\ FailureInv
-----------------------------------------------------------------------------
\* What a Home screen can tell of the load.
Progress == IF load.phase = "idle" THEN "idle"
            ELSE IF load.phase = "done" THEN "listed"
            ELSE IF load.failures > 0 THEN "failed"
            ELSE "asking"

Fetch == INSTANCE EventFetch WITH progress <- Progress,
                                  keys <- load.wanted,
                                  list <- EventsIn(load.shown)

(* getData keeps the promise of EventFetch.  It promises nothing about     *)
(* answering: an empty account, a malformed event or a failed event leave  *)
(* the caller without a list.                                              *)
FetchSpec == Fetch!Spec
=============================================================================
