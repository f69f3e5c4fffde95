--------------------------- MODULE EventLoadProofs --------------------------
(***************************************************************************)
(* Proofs about EventLoad, for every finite set of keys and every set of   *)
(* texts.                                                                  *)
(***************************************************************************)
EXTENDS EventLoad, FiniteSetTheorems, TLAPS

-----------------------------------------------------------------------------
\* Facts about lists of events.

(* Appending an event adds its key and nothing else to the keys of a list. *)
LEMMA IdsOfAppend ==
    ASSUME NEW list \in Seq(EventModel), NEW event \in EventModel
    PROVE  /\ Append(list, event) \in Seq(EventModel)
           /\ Len(Append(list, event)) = Len(list) + 1
           /\ IdsIn(Append(list, event)) = IdsIn(list) \cup {event.id}
<1>1. /\ Append(list, event) \in Seq(EventModel)
      /\ Len(Append(list, event)) = Len(list) + 1
  OBVIOUS
<1>2. \A i \in 1..Len(list) : Append(list, event)[i] = list[i]
  OBVIOUS
<1>3. Append(list, event)[Len(list) + 1] = event
  OBVIOUS
<1>4. IdsIn(Append(list, event)) \subseteq IdsIn(list) \cup {event.id}
  BY <1>1, <1>2, <1>3 DEF IdsIn
<1>5. IdsIn(list) \cup {event.id} \subseteq IdsIn(Append(list, event))
  BY <1>1, <1>2, <1>3 DEF IdsIn
<1>6. QED BY <1>1, <1>4, <1>5

(* A list of events names only keys, and finitely many of them.            *)
LEMMA IdsOfList ==
    ASSUME NEW list \in Seq(EventModel)
    PROVE  IdsIn(list) \subseteq Ids /\ IsFiniteSet(IdsIn(list))
<1>1. \A i \in 1..Len(list) : list[i] \in EventModel
  OBVIOUS
<1>2. \A e \in EventModel : e.id \in Ids
  BY DEF EventModel
<1>3. IdsIn(list) \subseteq Ids
  BY <1>1, <1>2 DEF IdsIn
<1>4. QED BY <1>3, IdsAreFinite, FS_Subset

LEMMA IdsOfEmpty == IdsIn(<< >>) = {} /\ Cardinality({}) = 0
  BY FS_EmptySet DEF IdsIn

(* A set that is empty by count has no member, and the converse.           *)
LEMMA CountOfIds ==
    ASSUME NEW S \in SUBSET Ids
    PROVE  /\ IsFiniteSet(S) /\ Cardinality(S) \in Nat
           /\ Cardinality(S) = 0 <=> S = {}
           /\ \A x \in S : /\ Cardinality(S \ {x}) = Cardinality(S) - 1
                           /\ IsFiniteSet(S \ {x})
<1>1. IsFiniteSet(S)
  BY IdsAreFinite, FS_Subset
<1>2. QED BY <1>1, FS_CardinalityType, FS_EmptySet, FS_RemoveElement
-----------------------------------------------------------------------------
\* The inductive invariant.

LEMMA InitIInv == Init => IInv
<1> SUFFICES ASSUME Init PROVE IInv
  OBVIOUS
<1>1. load.phase = "idle" /\ load.wanted = {} /\ load.pending = {}
      /\ load.group = 0 /\ load.eventArray = << >> /\ load.eventS = << >>
      /\ load.failures = 0 /\ load.shown = << >>
  BY DEF Init, NewLoad
<1>2. TypeOK
  BY DEF Init, TypeOK, Loads, NewLoad, Phases
<1>3. Good = {} /\ load.wanted \ Good = {}
  BY <1>1, IdsOfEmpty DEF Good
<1>4. Cardinality(load.wanted \ Good) = 0 /\ Cardinality(Good) = 0
  BY <1>3, IdsOfEmpty
<1>5. CountInv /\ ArrayInv /\ FailureInv
  BY <1>1, <1>3, <1>4 DEF CountInv, ArrayInv, FailureInv, Quiescent
<1>6. QED BY <1>2, <1>5 DEF IInv

LEMMA StepGetData == IInv /\ GetData => IInv'
<1> SUFFICES ASSUME IInv, GetData PROVE IInv'
  OBVIOUS
<1>1. load' = [load EXCEPT !.phase = "index"] /\ load \in Loads
  BY DEF GetData, AskIndex, IInv, TypeOK
<1>2. TypeOK'
  BY <1>1 DEF TypeOK, Loads, Phases
<1>3. QED
  BY <1>1, <1>2 DEF IInv, CountInv, ArrayInv, FailureInv, Good, Lost,
                    Quiescent, GetData, Loads, Phases

LEMMA StepIndexAnswered == IInv /\ IndexAnswered => IInv'
<1> SUFFICES ASSUME IInv, IndexAnswered PROVE IInv'
  OBVIOUS
<1>t. load \in Loads /\ load.phase = "index"
  BY DEF IInv, TypeOK, IndexAnswered
<1>1. CASE load' = IndexFailed(load)
  <2>1. TypeOK'
    <3>1. load.failures \in Nat /\ load.failures + 1 \in Nat
      BY <1>t DEF Loads
    <3>2. QED BY <1>t, <1>1, <3>1 DEF TypeOK, Loads, Phases, IndexFailed
  <2>2. QED
    BY <1>t, <1>1, <2>1 DEF IInv, CountInv, ArrayInv, FailureInv, Good, Lost,
                            Quiescent, IndexFailed, Loads
<1>2. CASE load' = IndexIsNull(load)
  <2>1. TypeOK'
    BY <1>t, <1>2 DEF TypeOK, Loads, Phases, IndexIsNull
  <2>2. QED
    BY <1>t, <1>2, <2>1 DEF IInv, CountInv, ArrayInv, FailureInv, Good, Lost,
                            Quiescent, IndexIsNull, Loads
<1>3. ASSUME NEW keys \in (SUBSET Ids) \ {{}}, load' = IndexFound(load, keys)
      PROVE  IInv'
  <2>1. /\ load'.phase = "events" /\ load'.wanted = keys
        /\ load'.pending = keys /\ load'.group = Cardinality(keys)
        /\ load'.eventArray = << >> /\ load'.eventS = << >>
        /\ load'.failures = 0 /\ load'.shown = << >>
    BY <1>t, <1>3 DEF IndexFound, Loads, IInv, CountInv, ArrayInv, Quiescent
  <2>2. Cardinality(keys) \in Nat
    BY CountOfIds
  <2>3. TypeOK'
    BY <1>t, <1>3, <2>2 DEF TypeOK, Loads, Phases, IndexFound
  <2>4. Good' = {}
    BY <2>1, IdsOfEmpty DEF Good
  <2>5. CountInv'
    BY <2>1, <2>4 DEF CountInv, Quiescent
  <2>6. ArrayInv' /\ FailureInv'
    BY <2>1, <2>4, IdsOfEmpty DEF ArrayInv, FailureInv
  <2>7. QED BY <2>3, <2>5, <2>6 DEF IInv
<1>4. QED BY <1>1, <1>2, <1>3 DEF IndexAnswered

(* Requests are only outstanding while the group is waited on.             *)
LEMMA PendingPhase ==
    ASSUME IInv, NEW id \in load.pending
    PROVE  load.phase = "events" /\ id \in load.wanted \ Good
           /\ load \in Loads /\ id \in Ids
  BY DEF IInv, CountInv, TypeOK, Loads, Phases, Quiescent

LEMMA StepEventFound ==
    ASSUME IInv, NEW id \in load.pending, NEW text \in Texts,
           load' = EventFound(load, [id |-> id, text |-> text])
    PROVE  IInv'
<1> DEFINE event == [id |-> id, text |-> text]
           array == Append(load.eventArray, event)
<1>t. load.phase = "events" /\ id \in load.wanted \ Good
      /\ load \in Loads /\ id \in Ids
  BY PendingPhase
<1>e. event \in EventModel /\ event.id = id
  BY <1>t DEF EventModel
<1>l. load.eventArray \in Seq(EventModel) /\ load.group \in Nat
      /\ load.wanted \in SUBSET Ids /\ load.pending \in SUBSET Ids
  BY <1>t DEF Loads
<1>1. /\ load'.pending = load.pending \ {id}
      /\ load'.eventArray = array /\ load'.eventS = array
      /\ load'.group = load.group - 1
      /\ load'.phase = IF load.group = 1 THEN "notify" ELSE "events"
      /\ load'.wanted = load.wanted /\ load'.failures = load.failures
      /\ load'.shown = load.shown
  BY <1>t, <1>e DEF EventFound, Loads
<1>2. /\ array \in Seq(EventModel) /\ Len(array) = Len(load.eventArray) + 1
      /\ Good' = Good \cup {id}
  BY <1>1, <1>e, <1>l, IdsOfAppend DEF Good
<1>3. load.wanted \ Good' = (load.wanted \ Good) \ {id}
  BY <1>2
<1>4. /\ load.group = Cardinality(load.wanted \ Good)
      /\ Cardinality(load.wanted \ Good') = load.group - 1
      /\ (load.group - 1 = 0) <=> (load.wanted \ Good' = {})
  <2>1. load.group = Cardinality(load.wanted \ Good)
    BY DEF IInv, CountInv
  <2>2. Cardinality(load.wanted \ Good') = load.group - 1
    <3>1. (load.wanted \ Good) \in SUBSET Ids /\ id \in load.wanted \ Good
      BY <1>l, <1>t
    <3>2. Cardinality((load.wanted \ Good) \ {id})
            = Cardinality(load.wanted \ Good) - 1
      BY <3>1, CountOfIds
    <3>3. QED BY <3>2, <2>1, <1>3
  <2>3. QED BY <2>1, <2>2, <1>l, CountOfIds
<1>5. Cardinality(load.wanted \ Good') \in Nat
  BY <1>l, CountOfIds
<1>6. TypeOK'
  <2>1. load'.group \in Nat
    BY <1>1, <1>4, <1>5
  <2>2. load'.phase \in Phases
    BY <1>1 DEF Phases
  <2>3. QED
    BY <1>t, <1>1, <1>2, <2>1, <2>2 DEF TypeOK, Loads, EventFound
<1>7. CountInv'
  <2>1. load'.pending \subseteq load'.wanted
    BY <1>1 DEF IInv, CountInv
  <2>2. Good' \subseteq load'.wanted \ load'.pending
    BY <1>1, <1>2, <1>t DEF IInv, CountInv
  <2>3. load'.group = Cardinality(load'.wanted \ Good')
    BY <1>1, <1>4
  <2>4. /\ load'.phase = "events" => load'.wanted \ Good' # {}
        /\ load'.phase \in {"notify", "done"} => load'.wanted \ Good' = {}
    BY <1>1, <1>4, <1>l
  <2>5. ~ Quiescent'
    BY <1>1 DEF Quiescent
  <2>6. load'.phase \notin {"idle", "index", "silent"} /\ load'.wanted # {}
    BY <1>1, <1>t
  <2>7. QED BY <2>1, <2>2, <2>3, <2>4, <2>5, <2>6 DEF CountInv
<1>8. ArrayInv'
  <2>1. Cardinality(Good') = Cardinality(Good) + 1
    <3>1. IsFiniteSet(Good)
      BY <1>l, IdsOfList DEF Good
    <3>2. QED BY <1>2, <1>t, <3>1, FS_AddElement
  <2>2. load'.shown = << >> /\ load'.phase # "done"
    BY <1>1, <1>t DEF IInv, ArrayInv
  <2>3. QED
    BY <1>1, <1>2, <2>1, <2>2 DEF IInv, ArrayInv
<1>9. FailureInv'
  BY <1>1, <1>2, <1>t DEF IInv, FailureInv, Lost
<1>10. QED BY <1>6, <1>7, <1>8, <1>9 DEF IInv

(* A failed or a malformed event leaves its key in wanted \ Good for good. *)
LEMMA StepEventLost ==
    ASSUME IInv, NEW id \in load.pending,
           \/ load' = EventFailed(load, id)
           \/ load' = EventMalformed(load, id)
    PROVE  IInv'
<1>t. load.phase = "events" /\ id \in load.wanted \ Good
      /\ load \in Loads /\ id \in Ids
  BY PendingPhase
<1>1. /\ load'.pending = load.pending \ {id} /\ load'.phase = load.phase
      /\ load'.wanted = load.wanted /\ load'.group = load.group
      /\ load'.eventArray = load.eventArray /\ load'.eventS = load.eventS
      /\ load'.shown = load.shown
  BY <1>t DEF EventFailed, EventMalformed, Loads
<1>2. TypeOK'
  <2>1. load.failures \in Nat /\ load.failures + 1 \in Nat
        /\ load.pending \ {id} \in SUBSET Ids
    BY <1>t DEF Loads
  <2>2. CASE load' = EventFailed(load, id)
    BY <1>t, <2>1, <2>2 DEF TypeOK, Loads, EventFailed
  <2>3. CASE load' = EventMalformed(load, id)
    BY <1>t, <2>1, <2>3 DEF TypeOK, Loads, EventMalformed
  <2>4. QED BY <2>2, <2>3
<1>3. Good' = Good /\ id \in Lost'
  BY <1>1, <1>t DEF Good, Lost
<1>4. CountInv'
  BY <1>1, <1>3, <1>t DEF IInv, CountInv, Quiescent
<1>5. ArrayInv' /\ FailureInv'
  BY <1>1, <1>3, <1>t DEF IInv, ArrayInv, FailureInv
<1>6. QED BY <1>2, <1>4, <1>5 DEF IInv

LEMMA StepNotify == IInv /\ Notify => IInv'
<1> SUFFICES ASSUME IInv, Notify PROVE IInv'
  OBVIOUS
<1>1. /\ load \in Loads /\ load.phase = "notify"
      /\ load' = [load EXCEPT !.phase = "done", !.shown = load.eventS]
  BY DEF IInv, TypeOK, Notify, GroupNotify
<1>2. TypeOK'
  BY <1>1 DEF TypeOK, Loads, Phases
<1>3. CountInv'
  BY <1>1 DEF IInv, CountInv, Good, Quiescent, Loads
<1>4. ArrayInv' /\ FailureInv'
  BY <1>1 DEF IInv, ArrayInv, FailureInv, Good, Lost, Loads
<1>5. QED BY <1>2, <1>3, <1>4 DEF IInv

LEMMA StepIInv == IInv /\ [Next]_vars => IInv'
<1> SUFFICES ASSUME IInv, [Next]_vars PROVE IInv'
  OBVIOUS
<1>1. CASE GetData
  BY <1>1, StepGetData
<1>2. CASE IndexAnswered
  BY <1>2, StepIndexAnswered
<1>3. ASSUME NEW id \in Ids, EventAnswered(id) PROVE IInv'
  BY <1>3, StepEventFound, StepEventLost DEF EventAnswered
<1>4. CASE Notify
  BY <1>4, StepNotify
<1>5. CASE UNCHANGED vars
  BY <1>5 DEF vars, IInv, TypeOK, CountInv, ArrayInv, FailureInv, Good, Lost,
              Quiescent
<1>6. QED BY <1>1, <1>2, <1>3, <1>4, <1>5 DEF Next
-----------------------------------------------------------------------------
\* What the invariant says of a run.

LEMMA Invariance == Spec => []IInv
  BY InitIInv, StepIInv, PTL DEF Spec

(* The record of a load keeps its type: in particular DispatchGroup.leave  *)
(* never takes the count of HomeService.swift:162 below zero.              *)
THEOREM TypeCorrect == Spec => []TypeOK
<1>1. IInv => TypeOK
  BY DEF IInv
<1>2. QED BY Invariance, <1>1, PTL

(* Whatever the order of the answers, the list passed to setData has       *)
(* exactly one event per key of the index (HomeService.swift:161, :165).   *)
THEOREM WholeListOnly == Spec => []ListIsWhole
<1>1. IInv => ListIsWhole
  <2> SUFFICES ASSUME IInv, load.phase = "done" PROVE ListIsWhole
    BY DEF ListIsWhole
  <2>1. load.shown = load.eventArray /\ Len(load.eventArray) = Cardinality(Good)
    BY DEF IInv, ArrayInv
  <2>2. Good = load.wanted
    BY DEF IInv, CountInv
  <2>3. QED BY <2>1, <2>2 DEF ListIsWhole, Good
<1>2. QED BY Invariance, <1>1, PTL

(* A getData that has completed with a failure never completes with a list *)
(* as well: the failed key holds the group (HomeService.swift:157-160).    *)
THEOREM NeverBothOutcomes == Spec => []FailureOrList
<1>1. IInv => FailureOrList
  BY DEF IInv, CountInv, FailureInv, FailureOrList, Lost
<1>2. QED BY Invariance, <1>1, PTL

(* Every enter that has not been left belongs to a key still asked for or  *)
(* to a lost one (HomeService.swift:155, :162).                            *)
THEOREM EnterLeaveBalance == Spec => []GroupBalance
<1>1. IInv => GroupBalance
  <2> SUFFICES ASSUME IInv PROVE load.group = Cardinality(load.pending) + Cardinality(Lost)
    BY DEF GroupBalance
  <2>1. load.wanted \ Good = load.pending \cup Lost /\ load.pending \cap Lost = {}
    BY DEF IInv, CountInv, Lost
  <2>2. load.pending \in SUBSET Ids /\ Lost \in SUBSET Ids
    BY DEF IInv, TypeOK, Loads, Lost
  <2>3. IsFiniteSet(load.pending) /\ IsFiniteSet(Lost)
    BY <2>2, CountOfIds
  <2>4. Cardinality(load.pending \cup Lost)
          = Cardinality(load.pending) + Cardinality(Lost)
    <3>1. Cardinality({}) = 0
      BY FS_EmptySet
    <3>2. Cardinality(load.pending) \in Nat /\ Cardinality(Lost) \in Nat
      BY <2>2, CountOfIds
    <3>3. Cardinality(load.pending \cup Lost)
            = Cardinality(load.pending) + Cardinality(Lost)
              - Cardinality(load.pending \cap Lost)
      BY <2>3, FS_Union
    <3>4. Cardinality(load.pending \cap Lost) = 0
      BY <2>1, <3>1
    <3>5. QED BY <3>2, <3>3, <3>4
  <2>5. QED BY <2>1, <2>4 DEF IInv, CountInv
<1>2. QED BY Invariance, <1>1, PTL
-----------------------------------------------------------------------------
\* getData implements EventFetch.

LEMMA FetchInit == Init => Fetch!Init
<1> SUFFICES ASSUME Init PROVE Fetch!Init
  OBVIOUS
<1>1. load.phase = "idle" /\ load.wanted = {} /\ load.shown = << >>
  BY DEF Init, NewLoad
<1>2. EventsIn(load.shown) = {}
  BY <1>1 DEF EventsIn
<1>3. QED BY <1>1, <1>2 DEF Fetch!Init, Progress

(* Only the group's block changes what Home shows; it delivers a list that *)
(* has one event per key, as EventFetch allows.                            *)
LEMMA NotifyDelivers == IInv /\ Notify => Fetch!Deliver
<1> SUFFICES ASSUME IInv, Notify PROVE Fetch!Deliver
  OBVIOUS
<1>1. /\ load \in Loads /\ load.phase = "notify" /\ load'.phase = "done"
      /\ load'.wanted = load.wanted /\ load'.shown = load.eventArray
  BY DEF IInv, TypeOK, ArrayInv, Notify, GroupNotify, Loads
<1>2. /\ load.wanted = Good /\ load.failures = 0
      /\ Len(load.eventArray) = Cardinality(Good)
      /\ load.eventArray \in Seq(EventModel)
  BY <1>1 DEF IInv, CountInv, ArrayInv, FailureInv, Lost, Loads
<1> DEFINE events == load.eventArray
           keyAt == [i \in 1..Len(events) |-> events[i].id]
<1>3. \A i \in 1..Len(events) : events[i] \in EventModel /\ events[i].id \in Good
  BY <1>2 DEF Good, IdsIn
<1>4. EventsIn(events) \subseteq [id : load.wanted, text : Texts]
  BY <1>2, <1>3 DEF EventsIn, EventModel
<1>5. \A id \in load.wanted : \E e \in EventsIn(events) : e.id = id
  BY <1>2 DEF EventsIn, Good, IdsIn
<1>6. \A e, f \in EventsIn(events) : e.id = f.id => e = f
  <2>1. keyAt \in Surjection(1..Len(events), Good)
    BY <1>2, <1>3 DEF Surjection, Good, IdsIn
  <2>2. IsFiniteSet(1..Len(events)) /\ Cardinality(1..Len(events)) = Len(events)
    <3>1. Len(events) \in Nat
      BY <1>2
    <3>2. QED BY <3>1, FS_Interval
  <2>3. keyAt \in Injection(1..Len(events), Good)
    BY <1>2, <2>1, <2>2, FS_Surjection
  <2>4. \A i, j \in 1..Len(events) : keyAt[i] = keyAt[j] => i = j
    BY <2>3 DEF Injection, IsInjective
  <2>5. QED BY <2>4 DEF EventsIn
<1>7. load.wanted # {} /\ Progress = "asking" /\ Progress' = "listed"
  BY <1>1, <1>2 DEF IInv, CountInv, Quiescent, Progress
<1>8. EventsIn(load'.shown) \in SUBSET [id : Ids, text : Texts]
  <2>1. load.wanted \subseteq Ids
    BY <1>1 DEF Loads
  <2>2. QED BY <1>1, <1>4, <2>1
<1>9. Fetch!OneEventPerKey(EventsIn(load'.shown), load.wanted)
  BY <1>1, <1>4, <1>5, <1>6 DEF Fetch!OneEventPerKey
<1>10. QED BY <1>1, <1>7, <1>8, <1>9 DEF Fetch!Deliver

(* Every other step asks, learns the keys, fails or is invisible to Home.  *)
LEMMA FetchStep == IInv /\ [Next]_vars => [Fetch!Next]_(Fetch!vars)
<1> SUFFICES ASSUME IInv, [Next]_vars PROVE [Fetch!Next]_(Fetch!vars)
  OBVIOUS
<1> USE DEF Fetch!vars
<1>t. load \in Loads
  BY DEF IInv, TypeOK
<1>1. CASE GetData
  <2>1. Fetch!Ask
    BY <1>1, <1>t DEF GetData, AskIndex, Fetch!Ask, Progress, Loads, IInv, CountInv
  <2>2. QED BY <2>1 DEF Fetch!Next
<1>2. CASE IndexAnswered
  <2>t. /\ load.phase = "index" /\ load.failures = 0 /\ load.wanted = {}
        /\ Progress = "asking"
    BY <1>2 DEF IndexAnswered, IInv, CountInv, Quiescent, Progress
  <2>1. CASE load' = IndexFailed(load)
    <3>1. Fetch!Fail
      BY <1>t, <2>t, <2>1 DEF IndexFailed, Fetch!Fail, Progress, Loads
    <3>2. QED BY <3>1 DEF Fetch!Next
  <2>2. CASE load' = IndexIsNull(load)
    BY <1>t, <2>t, <2>2 DEF IndexIsNull, Progress, Loads
  <2>3. ASSUME NEW ids \in (SUBSET Ids) \ {{}}, load' = IndexFound(load, ids)
        PROVE  Fetch!Next
    <3>1. load'.wanted = ids /\ load'.shown = load.shown /\ Progress' = "asking"
      BY <1>t, <2>t, <2>3 DEF IndexFound, Progress, Loads
    <3>2. Fetch!Learn
      BY <2>t, <3>1 DEF Fetch!Learn
    <3>3. QED BY <3>2 DEF Fetch!Next
  <2>4. QED BY <1>2, <2>1, <2>2, <2>3 DEF IndexAnswered
<1>3. ASSUME NEW id \in Ids, EventAnswered(id)
      PROVE  [Fetch!Next]_(Fetch!vars)
  <2>t. load.phase = "events" /\ load.failures \in Nat
    BY <1>3, <1>t, PendingPhase DEF EventAnswered, Loads
  <2>1. ASSUME NEW text \in Texts,
               load' = EventFound(load, [id |-> id, text |-> text])
        PROVE  UNCHANGED Fetch!vars
    <3>1. /\ load'.phase \in {"events", "notify"} /\ load'.wanted = load.wanted
          /\ load'.shown = load.shown /\ load'.failures = load.failures
      BY <1>t, <2>t, <2>1 DEF EventFound, Loads
    <3>2. QED BY <2>t, <3>1 DEF Progress
  <2>2. CASE load' = EventFailed(load, id)
    <3>1. /\ load'.phase = "events" /\ load'.wanted = load.wanted
          /\ load'.shown = load.shown /\ load'.failures = load.failures + 1
      BY <1>t, <2>t, <2>2 DEF EventFailed, Loads
    <3>2. Fetch!Fail \/ UNCHANGED Fetch!vars
      BY <2>t, <3>1 DEF Fetch!Fail, Progress
    <3>3. QED BY <3>2 DEF Fetch!Next
  <2>3. CASE load' = EventMalformed(load, id)
    BY <1>t, <2>t, <2>3 DEF EventMalformed, Progress, Loads
  <2>4. QED BY <1>3, <2>1, <2>2, <2>3 DEF EventAnswered
<1>4. CASE Notify
  BY <1>4, NotifyDelivers DEF Fetch!Next
<1>5. CASE UNCHANGED vars
  BY <1>5 DEF vars, Progress
<1>6. QED BY <1>1, <1>2, <1>3, <1>4, <1>5 DEF Next

(* HomeServiceImpl.getData keeps what HomePresenterImpl.getData relies on: *)
(* at most one outcome, and a list only if it is the account's whole list. *)
THEOREM ImplementsFetch == Spec => FetchSpec
<1>1. Init => Fetch!Init
  BY FetchInit
<1>2. IInv /\ [Next]_vars => [Fetch!Next]_(Fetch!vars)
  BY FetchStep
<1>3. QED BY <1>1, <1>2, Invariance, PTL DEF Spec, FetchSpec, Fetch!Spec
=============================================================================
