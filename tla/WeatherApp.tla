----------------------------- MODULE WeatherApp -----------------------------
(***************************************************************************)
(* The app on one or more devices over one database: the navigation stack  *)
(* of screens, the session, and the events a user lists, adds, edits and   *)
(* deletes.  Taps run on the main thread and only queue work: every screen *)
(* is pushed, and every answer handled, by a later block of the main       *)
(* queue, with whatever session and stack it finds by then.                *)
(***************************************************************************)
EXTENDS FirebaseClient

CONSTANTS FirstUser,   \* FirstUser[d]: the account d is signed in to at first
          Saved,       \* Saved[u]: keys an earlier session saved for u
          MaxScreens,  \* MaxScreens[d], bound: screens a process on d builds
          MaxWrites    \* bound: saves, updates and deletes in a behaviour

ASSUME ScreensSuffice == MaxScreens \in [Devices -> Nat \ {0}]
ASSUME FirstUserType == FirstUser \in [Devices -> Users \cup {None}]
ASSUME SavedType == /\ Saved \in [Users -> SUBSET Ids]
                    /\ \A u, v \in Users : u # v => Saved[u] \cap Saved[v] = {}

VARIABLES status,   \* status[d]: "down", "up", or the force unwrap that trapped
          user,     \* user[d]: Auth.auth().currentUser (kept in the keychain)
          stack,    \* stack[d]: the navigation controller's view controllers
          built,    \* built[d]: how many screens this process has built
          alert,    \* alert[d]: the Home asking `Are you sure for logout', or 0
          signIns,  \* signIns[d]: sign-in calls without an answer yet
          usedIds,  \* keys childByAutoId has made so far
          writes    \* writes users have asked for so far

sessionVars == <<status, user, signIns>>
screenVars == <<stack, built, alert>>
budgetVars == <<usedIds, writes>>
appVars == <<sessionVars, screenVars, budgetVars>>
vars == <<dbVars, netVars, mainQ, histVars, appVars>>

Traps == {"trap in deleteEvent", "trap in saveEvent", "trap in fetchEventsFromUsers"}

NoEvent == [id |-> None, text |-> None]

Screens == [no : Nat, kind : {"home", "event", "edit", "auth"},
            user : Users \cup {None},   \* uid an Event screen or a load captured
            event : EventModel \cup {NoEvent},    \* what an Edit screen edits
            load : Loads,
            rows : SUBSET EventModel]             \* eventData, in any order

Screen(no, kind, u, event) ==
    [no |-> no, kind |-> kind, user |-> u, event |-> event,
     load |-> NewLoad, rows |-> {}]

Push(from, screen) == [do |-> "push", from |-> from, screen |-> screen]

Tasks == Answers \cup [do : {"push"}, from : Nat, screen : Screens]
                 \cup [do : {"signedIn", "alert"}, from : Nat]

Top(d) == Last(stack[d])

\* The user sees a screen of this kind, and no alert over it.
OnTop(d, kind) == /\ status[d] = "up" /\ alert[d] = 0
                  /\ Top(d).kind = kind

\* The position of a screen in the navigation stack, 0 once it is popped.
Position(d, no) ==
    IF \E i \in DOMAIN stack[d] : stack[d][i].no = no
    THEN CHOOSE i \in DOMAIN stack[d] : stack[d][i].no = no
    ELSE 0

NewNo(d) == built[d] + 1
Build(d) == built' = [built EXCEPT ![d] = NewNo(d)]

\* Requests without an answer, or whose answer this process is still to handle.
Outstanding(d) ==
    ToSet(outbox[d])
    \cup {task.op : task \in {t \in ToSet(mainQ[d]) : t.do = "answer"}}

Shows(op) == op.kind \in {"saveIndex", "saveEvent", "updateEvent"}

\* Screens that saves, updates, sign-ins and alerts under way may still build.
Owed(d) ==
    Cardinality({i \in DOMAIN outbox[d] : Shows(outbox[d][i])})
    + Cardinality({i \in DOMAIN mainQ[d] :
                     \/ mainQ[d][i].do = "answer" /\ Shows(mainQ[d][i].op)
                     \/ mainQ[d][i].do \in {"signedIn", "alert"}})
    + Cardinality(signIns[d])
    + (IF alert[d] = 0 THEN 0 ELSE 1)

\* Taps keep to the bound, so that no block of the main queue ever waits for it.
CanBuild(d) == built[d] + Owed(d) < MaxScreens[d]

Post(d, task) == mainQ' = [mainQ EXCEPT ![d] = Append(@, task)]
Send(d, op) == outbox' = [outbox EXCEPT ![d] = Append(@, op)]

Init ==
    /\ index = Saved
    /\ \E text \in Texts : events = [id \in Ids |-> IF \E u \in Users : id \in Saved[u]
                                                   THEN text ELSE None]
    /\ ClientInit
    /\ status = [d \in Devices |-> "down"]
    /\ user = FirstUser
    /\ stack = [d \in Devices |-> << >>]
    /\ built = [d \in Devices |-> 0]
    /\ alert = [d \in Devices |-> 0]
    /\ signIns = [d \in Devices |-> {}]
    /\ usedIds = UNION {Saved[u] : u \in Users}
    /\ writes = 0
-----------------------------------------------------------------------------
\* Starting and stopping.

(* Home.viewDidLoad asks for the list of the account signed in by then.    *)
Loading(screen, u) ==
    [screen EXCEPT !.user = u, !.load = AskIndex(NewLoad)]

ReadIndex(u, no) == Request("readIndex", u, None, None, no)

(* AppDelegate.initRoot: Home for the account in the keychain, else Auth.  *)
Launch(d) ==
    /\ status[d] # "up"
    /\ status' = [status EXCEPT ![d] = "up"]
    /\ built' = [built EXCEPT ![d] = 1]
    /\ IF user[d] # None
       THEN /\ stack' = [stack EXCEPT
                    ![d] = <<Loading(Screen(1, "home", None, NoEvent), user[d])>>]
            /\ Send(d, ReadIndex(user[d], 1))
       ELSE /\ stack' = [stack EXCEPT ![d] = <<Screen(1, "auth", None, NoEvent)>>]
            /\ UNCHANGED outbox
    /\ UNCHANGED <<dbVars, online, answers, mainQ, histVars, user, signIns, alert, budgetVars>>

\* Keys of the saves and deletes that a device has half done.
HalfDone(d) ==
    {op.id : op \in {o \in Outstanding(d) :
                       o.kind \in {"saveIndex", "saveEvent", "deleteEvent", "deleteIndex"}}}

Stop(d, why) ==
    /\ status' = [status EXCEPT ![d] = why]
    /\ stack' = [stack EXCEPT ![d] = << >>]
    /\ built' = [built EXCEPT ![d] = 0]
    /\ alert' = [alert EXCEPT ![d] = 0]
    /\ signIns' = [signIns EXCEPT ![d] = {}]
    /\ torn' = torn \cup HalfDone(d)
    /\ forgotten' = {f \in forgotten : f[1] # d}
    /\ ForgetDevice(d)
    /\ UNCHANGED <<dbVars, online, drops, revived, user, budgetVars>>

\* The user or the system ends the process.
Kill(d) ==
    /\ status[d] = "up" /\ faults < MaxFaults
    /\ faults' = faults + 1
    /\ Stop(d, "down")

\* A force unwrap of nil ends the process.
Trap(d, where) == Stop(d, where) /\ UNCHANGED faults
-----------------------------------------------------------------------------
\* Taps.  A new screen is built at once and pushed by a later block.

Navigate(d, from, kind, event) ==
    /\ Build(d)
    /\ Post(d, Push(from, Screen(NewNo(d), kind, user[d], event)))
    /\ UNCHANGED <<dbVars, netVars, histVars, stack, budgetVars>>

\* EventServiceImpl captures the signed-in uid as it is built.
DidTapAddEvent(d) ==
    /\ OnTop(d, "home") /\ CanBuild(d)
    /\ Navigate(d, Top(d).no, "event", NoEvent)
    /\ UNCHANGED <<sessionVars, alert>>

DidTapEdit(d) ==
    /\ OnTop(d, "home") /\ CanBuild(d)
    /\ \E event \in Top(d).rows : Navigate(d, Top(d).no, "edit", event)
    /\ UNCHANGED <<sessionVars, alert>>

DidTapLogOut(d) ==
    /\ OnTop(d, "home") /\ CanBuild(d)
    /\ Post(d, [do |-> "alert", from |-> Top(d).no])
    /\ UNCHANGED <<dbVars, netVars, histVars, sessionVars, screenVars, budgetVars>>

\* OK: signOut, which also succeeds with nobody signed in, and on to Auth.
DidConfirmLogOut(d) ==
    /\ alert[d] # 0
    /\ alert' = [alert EXCEPT ![d] = 0]
    /\ user' = [user EXCEPT ![d] = None]
    /\ Navigate(d, alert[d], "auth", NoEvent)
    /\ UNCHANGED <<status, signIns>>

\* Cancel; a signOut that fails in the keychain changes nothing either.
DidCancelLogOut(d) ==
    /\ alert[d] # 0
    /\ alert' = [alert EXCEPT ![d] = 0]
    /\ UNCHANGED <<dbVars, netVars, mainQ, histVars, sessionVars, stack, built,
                   budgetVars>>

CanWrite == writes < MaxWrites

\* A slip: drop the list entry and leave the event where it is.
DidTapDeleteEntryOnly(d) ==
    /\ OnTop(d, "home") /\ CanWrite
    /\ \E event \in Top(d).rows :
          /\ stack' = [stack EXCEPT ![d][Len(stack[d])].rows = @ \ {event}]
          /\ Send(d, Request("deleteIndex", user[d], event.id, None, Top(d).no))
    /\ writes' = writes + 1
    /\ UNCHANGED <<dbVars, online, answers, mainQ, histVars, sessionVars,
                   built, alert, usedIds>>

\* A slip: the row stays until the table is reloaded.
DidTapDeleteKeepsRow(d) ==
    /\ OnTop(d, "home") /\ CanWrite
    /\ \E event \in Top(d).rows :
          /\ Send(d, Request("deleteEvent", user[d], event.id, None, Top(d).no))
          /\ torn' = torn \cup (IF user[d] # Top(d).user THEN {event.id} ELSE {})
    /\ writes' = writes + 1
    /\ UNCHANGED <<dbVars, online, answers, mainQ, drops, faults, forgotten,
                   revived, sessionVars, screenVars, usedIds>>

\* The row goes first; the uid is read now, and unwrapped in the callback.
DidTapDelete(d) ==
    /\ OnTop(d, "home") /\ CanWrite
    /\ \E event \in Top(d).rows :
          /\ stack' = [stack EXCEPT ![d][Len(stack[d])].rows = @ \ {event}]
          /\ Send(d, Request("deleteEvent", user[d], event.id, None, Top(d).no))
          /\ torn' = torn \cup (IF user[d] # Top(d).user THEN {event.id} ELSE {})
    /\ writes' = writes + 1
    /\ UNCHANGED <<dbVars, online, answers, mainQ, drops, faults, forgotten,
                   revived, sessionVars, built, alert, usedIds>>

\* Nothing disables the button: each tap makes a key and saves an event.
DidTapSaveEvent(d) ==
    /\ OnTop(d, "event") /\ CanWrite /\ CanBuild(d)
    /\ IF Top(d).user = None
       THEN Trap(d, "trap in saveEvent")
       ELSE \E text \in Texts : \E id \in Ids \ usedIds :
              /\ id = CHOOSE free \in Ids \ usedIds : TRUE
              /\ Send(d, Request("saveIndex", Top(d).user, id, text, Top(d).no))
              /\ usedIds' = usedIds \cup {id}
              /\ writes' = writes + 1
              /\ UNCHANGED <<dbVars, online, answers, mainQ, histVars,
                             sessionVars, screenVars>>

DidTapUpdate(d) ==
    /\ OnTop(d, "edit") /\ CanWrite /\ CanBuild(d)
    /\ \E text \in Texts :
          Send(d, Request("updateEvent", None, Top(d).event.id, text, Top(d).no))
    /\ writes' = writes + 1
    /\ UNCHANGED <<dbVars, online, answers, mainQ, histVars, sessionVars,
                   screenVars, usedIds>>

\* Home hides the navigation bar, so only the others offer a way back.
DidTapBack(d) ==
    /\ \E kind \in {"event", "edit", "auth"} : OnTop(d, kind)
    /\ Len(stack[d]) > 1
    /\ stack' = [stack EXCEPT ![d] = Front(@)]
    /\ UNCHANGED <<dbVars, netVars, mainQ, histVars, sessionVars, built, alert, budgetVars>>

\* didTapLogIn and didTapSignIn: both end in a signed-in account or an error.
DidTapLogIn(d) ==
    /\ OnTop(d, "auth") /\ CanBuild(d)
    /\ \E u \in Users : signIns' = [signIns EXCEPT ![d] = @ \cup {[user |-> u, from |-> Top(d).no]}]
    /\ UNCHANGED <<dbVars, netVars, mainQ, histVars, status, user, screenVars, budgetVars>>

\* The auth service answers: the account changes before the callback runs.
SignInAnswered(d) ==
    /\ \E call \in signIns[d] :
          /\ signIns' = [signIns EXCEPT ![d] = @ \ {call}]
          /\ \/ /\ user' = [user EXCEPT ![d] = call.user]
                /\ Post(d, [do |-> "signedIn", from |-> call.from])
             \/ UNCHANGED <<user, mainQ>>
    /\ UNCHANGED <<dbVars, netVars, histVars, status, screenVars, budgetVars>>
-----------------------------------------------------------------------------
\* Blocks of the main queue.

\* A slip: a modal alert that keeps the main queue from running.
HandlingUnlessAlert(d, do) ==
    /\ status[d] = "up" /\ alert[d] = 0
    /\ mainQ[d] # << >> /\ Head(mainQ[d]).do = do

Handling(d, do) == status[d] = "up" /\ mainQ[d] # << >> /\ Head(mainQ[d]).do = do

Handled(d) == mainQ' = [mainQ EXCEPT ![d] = Tail(@)]

\* navigateToHome of a router whose screen was given the number no.
NavigateToHome(d, no) ==
    /\ Build(d)
    /\ mainQ' = [mainQ EXCEPT
          ![d] = Append(Tail(@), Push(no, Screen(NewNo(d), "home", None, NoEvent)))]

\* source.navigationController?.push...: a popped source pushes nothing.
RunPush(d) ==
    /\ Handling(d, "push")
    /\ LET task == Head(mainQ[d])
       IN  CASE Position(d, task.from) = 0 ->
                  /\ Handled(d)
                  /\ UNCHANGED <<dbVars, netVars, histVars, appVars>>
             [] Position(d, task.from) # 0 /\ task.screen.kind # "home" ->
                  /\ stack' = [stack EXCEPT ![d] = Append(@, task.screen)]
                  /\ Handled(d)
                  /\ UNCHANGED <<dbVars, netVars, histVars, sessionVars, built, alert, budgetVars>>
             [] OTHER ->
                  IF user[d] = None
                  THEN Trap(d, "trap in fetchEventsFromUsers")
                  ELSE /\ stack' = [stack EXCEPT
                                      ![d] = Append(@, Loading(task.screen, user[d]))]
                       /\ Send(d, ReadIndex(user[d], task.screen.no))
                       /\ Handled(d)
                       /\ UNCHANGED <<dbVars, online, answers, histVars,
                                      sessionVars, built, alert, budgetVars>>

\* The alert can only be presented while its Home is what is shown.
OnAlert(d) ==
    /\ Handling(d, "alert")
    /\ LET no == Head(mainQ[d]).from
       IN  alert' = [alert EXCEPT ![d] = IF @ = 0 /\ Top(d).no = no THEN no ELSE @]
    /\ Handled(d)
    /\ UNCHANGED <<dbVars, netVars, histVars, sessionVars, stack, built, budgetVars>>

OnSignedIn(d) ==
    /\ Handling(d, "signedIn")
    /\ NavigateToHome(d, Head(mainQ[d]).from)
    /\ UNCHANGED <<dbVars, netVars, histVars, sessionVars, stack, alert, budgetVars>>

Answered(d, kind) == Handling(d, "answer") /\ Head(mainQ[d]).op.kind = kind

\* The second write of a save or a delete, made in the callback of the first.
Continue(d, kind) ==
    Send(d, [Head(mainQ[d]).op EXCEPT !.kind = kind, !.redo = FALSE])

\* A slip: [weak self], so that nothing follows once the screen is popped.
OnSaveIndexIfShown(d) ==
    /\ Answered(d, "saveIndex")
    /\ IF Head(mainQ[d]).ok /\ Position(d, Head(mainQ[d]).op.src) # 0
       THEN Continue(d, "saveEvent") ELSE UNCHANGED outbox
    /\ Handled(d)
    /\ UNCHANGED <<dbVars, online, answers, histVars, appVars>>

\* The index entry is there: now write the event itself.
OnSaveIndex(d) ==
    /\ Answered(d, "saveIndex")
    /\ IF Head(mainQ[d]).ok THEN Continue(d, "saveEvent") ELSE UNCHANGED outbox
    /\ Handled(d)
    /\ UNCHANGED <<dbVars, online, answers, histVars, appVars>>

\* A save or an update that succeeded shows a new Home over its screen.
OnSaved(d) ==
    /\ Answered(d, "saveEvent") \/ Answered(d, "updateEvent")
    /\ IF Head(mainQ[d]).ok
       THEN NavigateToHome(d, Head(mainQ[d]).op.src)
       ELSE Handled(d) /\ UNCHANGED built
    /\ UNCHANGED <<dbVars, netVars, histVars, sessionVars, stack, alert, budgetVars>>

\* The event is gone: now drop the entry of whoever tapped Delete.
OnDeleteEvent(d) ==
    /\ Answered(d, "deleteEvent")
    /\ LET task == Head(mainQ[d])
       IN  IF task.ok /\ task.op.user = None
           THEN Trap(d, "trap in deleteEvent")
           ELSE /\ IF task.ok THEN Continue(d, "deleteIndex") ELSE UNCHANGED outbox
                /\ Handled(d)
                /\ UNCHANGED <<dbVars, online, answers, histVars, appVars>>

OnDeleteIndex(d) ==
    /\ Answered(d, "deleteIndex")
    /\ Handled(d)
    /\ UNCHANGED <<dbVars, netVars, histVars, appVars>>

SetLoad(d, no, load) ==
    stack' = [stack EXCEPT ![d][Position(d, no)].load = load]

\* One read per key; those under a pending write are answered at once.
OnReadIndex(d) ==
    /\ Answered(d, "readIndex")
    /\ LET task == Head(mainQ[d])
           no == task.op.src
           load == stack[d][Position(d, no)].load
           ReadEvent(id) == Request("readEvent", None, id, None, no)
           local == {id \in task.keys : PendingWrites(d, id) # {}}
           remote == SetToSeq(task.keys \ local)
           known == SetToSeq(local)
       IN  /\ CASE ~ task.ok -> SetLoad(d, no, IndexFailed(load))
                [] task.ok /\ task.keys = {} -> SetLoad(d, no, IndexIsNull(load))
                [] OTHER -> SetLoad(d, no, IndexFound(load, task.keys))
           /\ outbox' = [outbox EXCEPT
                 ![d] = @ \o [i \in DOMAIN remote |-> ReadEvent(remote[i])]]
           /\ mainQ' = [mainQ EXCEPT
                 ![d] = Tail(@) \o [i \in DOMAIN known |->
                                      LocalAnswer(d, ReadEvent(known[i]))]]
    /\ UNCHANGED <<dbVars, online, answers, histVars, sessionVars, built, alert, budgetVars>>

\* Events are only ever written whole by the app, so none is malformed.
OnReadEvent(d) ==
    /\ Answered(d, "readEvent")
    /\ LET task == Head(mainQ[d])
           id == task.op.id
           load == stack[d][Position(d, task.op.src)].load
       IN  IF task.ok /\ task.text # None
           THEN SetLoad(d, task.op.src, EventFound(load, [id |-> id, text |-> task.text]))
           ELSE SetLoad(d, task.op.src, EventFailed(load, id))
    /\ Handled(d)
    /\ UNCHANGED <<dbVars, netVars, histVars, sessionVars, built, alert, budgetVars>>

\* The background block of the group: getData completes and setData runs.
Notify(d) ==
    /\ \E i \in DOMAIN stack[d] :
          /\ stack[d][i].load.phase = "notify"
          /\ stack' = [stack EXCEPT ![d][i].load = GroupNotify(@),
                                    ![d][i].rows = EventsIn(stack[d][i].load.eventS)]
    /\ UNCHANGED <<dbVars, netVars, mainQ, histVars, sessionVars, built, alert, budgetVars>>
-----------------------------------------------------------------------------
Tap(d) == \/ DidTapAddEvent(d) \/ DidTapEdit(d) \/ DidTapLogOut(d)
          \/ DidConfirmLogOut(d) \/ DidCancelLogOut(d) \/ DidTapDelete(d) \/ DidTapSaveEvent(d) \/ DidTapUpdate(d)
          \/ DidTapBack(d) \/ DidTapLogIn(d)

RunMain(d) == \/ RunPush(d) \/ OnAlert(d) \/ OnSignedIn(d) \/ OnSaveIndex(d) \/ OnSaved(d)
              \/ OnDeleteEvent(d) \/ OnDeleteIndex(d) \/ OnReadIndex(d)
              \/ OnReadEvent(d)

App(d) == Launch(d) \/ Kill(d) \/ Tap(d) \/ SignInAnswered(d) \/ RunMain(d) \/ Notify(d)

Next == \/ \E d \in Devices : App(d)
        \/ ClientNext /\ UNCHANGED appVars

Spec == Init /\ [][Next]_vars

(* The network comes back and carries what is sent, and the queues run.    *)
(* Nothing is assumed of users, of the auth service or of faults.          *)
Fairness == \A d \in Devices :
    /\ WF_vars(RunMain(d))
    /\ WF_vars(Notify(d))
    /\ WF_vars(ServerGrants(d) /\ UNCHANGED appVars)
    /\ WF_vars(Receive(d) /\ UNCHANGED appVars)
    /\ WF_vars(Reconnect(d) /\ UNCHANGED appVars)

FairSpec == Spec /\ Fairness
-----------------------------------------------------------------------------
TypeOK ==
    /\ ClientTypeOK
    /\ mainQ \in [Devices -> Seq(Tasks)]
    /\ status \in [Devices -> {"down", "up"} \cup Traps]
    /\ user \in [Devices -> Users \cup {None}]
    /\ stack \in [Devices -> Seq(Screens)]
    /\ \A d \in Devices : /\ built[d] \in 0..MaxScreens[d] /\ alert[d] \in 0..MaxScreens[d]
                          /\ signIns[d] \subseteq [user : Users, from : Nat]
    /\ usedIds \subseteq Ids
    /\ writes \in 0..MaxWrites

Dangling(u, id) == id \in index[u] /\ events[id] = None

Listed(id) == \E u \in Users : id \in index[u]

(* A listed key without its event makes every later load of that account   *)
(* fail.  Saves and deletes write the two trees one after the other; the   *)
(* gap between them closes unless the second write is refused, its process *)
(* is killed or traps, or the row belonged to another account.             *)
DanglingExplained ==
    \A u \in Users, id \in Ids :
        Dangling(u, id) => id \in torn \/ \E d \in Devices : id \in HalfDone(d)

(* An event nobody lists can never be seen or deleted again.  Save lists   *)
(* the key before it writes the event and Delete removes the event before  *)
(* it drops the key, so only a write that lands on an event which somebody *)
(* has deleted meanwhile leaves one: an update, which never looks whether  *)
(* the event is there, or a save sent again after a lost connection.       *)
OrphansWereRevived ==
    \A id \in Ids : events[id] # None /\ ~ Listed(id) => id \in revived

ReadsFor(d, no) ==
    {op.id : op \in {o \in Outstanding(d) : IsRead(o) /\ o.src = no}}

(* A Home without a list and without a failure is waiting for answers that *)
(* are still to come, one for each key it waits for; the exception is a    *)
(* read the SDK forgot with a lost connection.                             *)
HomeAwaitsAnswers ==
    \A d \in Devices : \A i \in DOMAIN stack[d] :
        LET s == stack[d][i]
        IN  <<d, s.no>> \notin forgotten =>
              /\ s.load.phase = "index" <=> None \in ReadsFor(d, s.no)
              /\ s.load.phase # "index" => s.load.pending = ReadsFor(d, s.no)

(* While only one device has run the app, and without faults, the Home on  *)
(* show never lists an event that is gone, unless a save or an update of   *)
(* it is still to be written.  The row goes with the tap, and a list       *)
(* loaded later cannot bring it back: the removal reaches the server       *)
(* before the reads made after it, over lost connections too, and while it *)
(* is pending those reads are answered from it.                            *)
RowsAreStored ==
    \A d \in Devices :
        /\ stack[d] # << >> /\ faults = 0
        /\ \A other \in Devices \ {d} : status[other] = "down"
        =>
            \A row \in Top(d).rows :
                \/ events[row.id] # None
                \/ \E i \in PendingWrites(d, row.id) : outbox[d][i].text # None

(* What was begun is finished: with no fault, an account's list is whole   *)
(* again after every save and delete, however often the connection drops.  *)
GapsClose ==
    \A u \in Users, id \in Ids :
        Dangling(u, id) ~> (~ Dangling(u, id) \/ id \in torn)

\* A Home asks for the keys, for some event, or for the block of its group.
StillAsks(load) == load.phase \in {"index", "notify"} \/ load.pending # {}

HomeAsks(d, no) == Position(d, no) # 0 /\ StillAsks(stack[d][Position(d, no)].load)

(* A Home that asks for events gets an answer for each of them, and the    *)
(* block of a group that is empty runs, unless its process stops: the one  *)
(* exception are Homes of which the SDK forgot a read, as it does when the *)
(* connection drops after the read was sent.  These may wait for ever.     *)
HomeSettles ==
    \A d \in Devices : \A no \in 1..MaxScreens[d] :
        HomeAsks(d, no) ~> (~ HomeAsks(d, no) \/ <<d, no>> \in forgotten)

(* Each force unwrap of a uid finds one: the loads, saves and deletes of a  *)
(* session are made while somebody is signed in                            *)
(* (HomeService.swift:130, 173, EventService.swift:29).                    *)
NoTrap == \A d \in Devices : status[d] \notin Traps
=============================================================================
