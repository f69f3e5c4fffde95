--------------------------- MODULE FirebaseClient ---------------------------
(***************************************************************************)
(* The realtime database and the connection of each device to it, as far   *)
(* as the app can tell (FirebaseDatabase 9.6).  The database holds two     *)
(* trees: users/<uid>/events (the keys an account lists) and events/<id>.  *)
(*                                                                         *)
(* A device's requests go out in the order they were made and are answered *)
(* in that order; every answer is a callback posted on the main queue.  A  *)
(* lost connection makes the SDK send its unanswered writes again (a write *)
(* may thus be applied twice), but it forgets the reads it had sent: their *)
(* callbacks never run.  Outstanding writes live in memory only, because   *)
(* the app does not turn persistence on.                                   *)
(***************************************************************************)
EXTENDS EventLoadOps, SequencesExt

CONSTANTS Devices, Users,
          None,       \* no account, no key, no value
          MaxDrops,   \* bound: lost connections in a behaviour
          MaxFaults   \* bound: kills and refused requests in a behaviour

ASSUME NoneIsNothing == None \notin Ids \cup Texts \cup Users
ASSUME BoundsAreNat == MaxDrops \in Nat /\ MaxFaults \in Nat

VARIABLES index,      \* index[u]: the keys under users/<u>/events
          events,     \* events[id]: what events/<id> says, or None
          online,     \* online[d]: the device is connected
          outbox,     \* outbox[d]: requests without an answer yet, in order
          answers,    \* answers[d]: answers on their way to the first of them
          mainQ,      \* mainQ[d]: blocks waiting on the main queue
          drops, faults,
          forgotten,  \* history: <<d, no>>, screens a read of which was forgotten
          revived,    \* history: keys rewritten when events/<id> was gone
          torn        \* history: keys whose two-step write was cut in half

dbVars == <<index, events>>
netVars == <<online, outbox, answers>>
histVars == <<drops, faults, forgotten, revived, torn>>

Writes == {"saveIndex", "saveEvent", "updateEvent", "deleteEvent", "deleteIndex"}
Reads == {"readIndex", "readEvent"}

Requests == [kind : Writes \cup Reads, user : Users \cup {None},
             id : Ids \cup {None}, text : Texts \cup {None},
             src : Nat,        \* the screen that asked
             redo : BOOLEAN]   \* sent again after a lost connection

Request(kind, user, id, text, src) ==
    [kind |-> kind, user |-> user, id |-> id, text |-> text, src |-> src,
     redo |-> FALSE]

Answers == [do : {"answer"}, op : Requests, ok : BOOLEAN,
            keys : SUBSET Ids, text : Texts \cup {None}]

Answer(op, ok, keys, text) ==
    [do |-> "answer", op |-> op, ok |-> ok, keys |-> keys, text |-> text]

\* The server's answer to a request it grants.
Granted(op) == Answer(op, TRUE,
                      IF op.kind = "readIndex" THEN index[op.user] ELSE {},
                      IF op.kind = "readEvent" THEN events[op.id] ELSE None)

Refused(op) == Answer(op, FALSE, {}, None)

ClientInit ==
    /\ online = [d \in Devices |-> TRUE]
    /\ outbox = [d \in Devices |-> << >>]
    /\ answers = [d \in Devices |-> << >>]
    /\ mainQ = [d \in Devices |-> << >>]
    /\ drops = 0 /\ faults = 0
    /\ forgotten = {} /\ revived = {} /\ torn = {}
-----------------------------------------------------------------------------
\* The server.

IndexAfter(op) ==
    CASE op.kind = "saveIndex"   -> [index EXCEPT ![op.user] = @ \cup {op.id}]
      [] op.kind = "deleteIndex" -> [index EXCEPT ![op.user] = @ \ {op.id}]
      [] OTHER -> index

EventsAfter(op) ==
    CASE op.kind \in {"saveEvent", "updateEvent"} -> [events EXCEPT ![op.id] = op.text]
      [] op.kind = "deleteEvent" -> [events EXCEPT ![op.id] = None]
      [] OTHER -> events

\* A write over a deleted event: an update, or a save that is applied again.
Revives(op) == /\ op.kind = "updateEvent" \/ (op.kind = "saveEvent" /\ op.redo)
               /\ events[op.id] = None

Unprocessed(d) == online[d] /\ Len(answers[d]) < Len(outbox[d])

NextRequest(d) == outbox[d][Len(answers[d]) + 1]

ServerGrants(d) ==
    /\ Unprocessed(d)
    /\ LET op == NextRequest(d)
       IN  /\ index' = IndexAfter(op)
           /\ events' = EventsAfter(op)
           /\ answers' = [answers EXCEPT ![d] = Append(@, Granted(op))]
           /\ revived' = revived \cup (IF Revives(op) THEN {op.id} ELSE {})
    /\ UNCHANGED <<online, outbox, mainQ, drops, faults, forgotten, torn>>

\* Refusing a second step, or a first step that was applied before its answer
\* was lost, leaves the other tree as it is.
Cuts(op) == \/ op.kind \in {"saveEvent", "deleteIndex"}
            \/ op.kind \in {"saveIndex", "deleteEvent"} /\ op.redo

\* The security rules, or any other error answer; they are not in the repository.
ServerRefuses(d) ==
    /\ Unprocessed(d) /\ faults < MaxFaults
    /\ LET op == NextRequest(d)
       IN  /\ answers' = [answers EXCEPT ![d] = Append(@, Refused(op))]
           /\ torn' = torn \cup (IF Cuts(op) THEN {op.id} ELSE {})
    /\ faults' = faults + 1
    /\ UNCHANGED <<dbVars, online, outbox, mainQ, drops, forgotten, revived>>
-----------------------------------------------------------------------------
\* The SDK on the device.

\* The answer arrives and its callback is posted on the main queue.
Receive(d) ==
    /\ answers[d] # << >>
    /\ outbox' = [outbox EXCEPT ![d] = Tail(@)]
    /\ answers' = [answers EXCEPT ![d] = Tail(@)]
    /\ mainQ' = [mainQ EXCEPT ![d] = Append(@, Head(answers[d]))]
    /\ UNCHANGED <<dbVars, online, histVars>>

IsRead(op) == op.kind \in Reads

\* The requests of some kinds, in their order.
Only(requests, kinds) ==
    LET kept[i \in 0..Len(requests)] ==
          IF i = 0 THEN << >>
          ELSE IF requests[i].kind \in kinds THEN Append(kept[i - 1], requests[i])
          ELSE kept[i - 1]
    IN  kept[Len(requests)]

\* Answers under way are lost, and so are the callbacks of the reads sent.
Disconnect(d) ==
    /\ online[d] /\ drops < MaxDrops
    /\ online' = [online EXCEPT ![d] = FALSE]
    /\ answers' = [answers EXCEPT ![d] = << >>]
    /\ LET writes == Only(outbox[d], Writes)
       IN  outbox' = [outbox EXCEPT
                        ![d] = [i \in DOMAIN writes |-> [writes[i] EXCEPT !.redo = TRUE]]]
    /\ forgotten' = forgotten \cup
           {<<d, op.src>> : op \in {o \in ToSet(outbox[d]) : IsRead(o)}}
    /\ drops' = drops + 1
    /\ UNCHANGED <<dbVars, mainQ, faults, revived, torn>>

\* A slip: only the writes are restored.
ReconnectWithoutReads(d) ==
    /\ ~ online[d]
    /\ online' = [online EXCEPT ![d] = TRUE]
    /\ outbox' = [outbox EXCEPT ![d] = Only(@, Writes)]
    /\ UNCHANGED <<dbVars, answers, mainQ, histVars>>

\* restoreState: the writes in order, then the reads that were never sent.
Reconnect(d) ==
    /\ ~ online[d]
    /\ online' = [online EXCEPT ![d] = TRUE]
    /\ outbox' = [outbox EXCEPT ![d] = Only(@, Writes) \o Only(@, Reads)]
    /\ UNCHANGED <<dbVars, answers, mainQ, histVars>>

\* A read made without a connection fails after three seconds.
GetTimesOut(d) ==
    /\ ~ online[d]
    /\ \E i \in DOMAIN outbox[d] :
          /\ IsRead(outbox[d][i])
          /\ \A j \in 1..(i - 1) : ~ IsRead(outbox[d][j])
          /\ outbox' = [outbox EXCEPT ![d] = RemoveAt(@, i)]
          /\ mainQ' = [mainQ EXCEPT ![d] = Append(@, Refused(outbox[d][i]))]
    /\ UNCHANGED <<dbVars, online, answers, histVars>>

\* Where this device's writes to events/<id> are that are not acknowledged.
PendingWrites(d, id) ==
    {i \in DOMAIN outbox[d] :
       /\ outbox[d][i].kind \in {"saveEvent", "updateEvent", "deleteEvent"}
       /\ outbox[d][i].id = id}

\* A read under a pending write of the same path is answered from that write.
LocalAnswer(d, op) ==
    Answer(op, TRUE, {}, outbox[d][Max(PendingWrites(d, op.id))].text)

ClientNext == \E d \in Devices : \/ ServerGrants(d) \/ ServerRefuses(d)
                                 \/ Receive(d) \/ Disconnect(d)
                                 \/ Reconnect(d) \/ GetTimesOut(d)

\* The process is gone: nothing it had in memory is ever sent or answered.
ForgetDevice(d) ==
    /\ outbox' = [outbox EXCEPT ![d] = << >>]
    /\ answers' = [answers EXCEPT ![d] = << >>]
    /\ mainQ' = [mainQ EXCEPT ![d] = << >>]
-----------------------------------------------------------------------------
ClientTypeOK ==
    /\ index \in [Users -> SUBSET Ids]
    /\ events \in [Ids -> Texts \cup {None}]
    /\ online \in [Devices -> BOOLEAN]
    /\ outbox \in [Devices -> Seq(Requests)]
    /\ answers \in [Devices -> Seq(Answers)]
    /\ drops \in 0..MaxDrops /\ faults \in 0..MaxFaults
    /\ forgotten \subseteq Devices \X Nat
    /\ revived \subseteq Ids /\ torn \subseteq Ids
=============================================================================
