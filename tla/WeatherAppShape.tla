---------------------------- MODULE WeatherAppShape ----------------------------
(***************************************************************************)
(* The steps of the app keep its state well-formed, number its screens     *)
(* apart and keep every event to its owner: the first parts of the         *)
(* inductive invariant of WeatherApp, what every later proof cites, and    *)
(* why every gap in an account's list is explained.                        *)
(*                                                                         *)
(* Types says more than WeatherApp!TypeOK where a proof needs it (a        *)
(* request has the parameters of its kind, a pushed screen is new) and     *)
(* leaves out the bounds on screens and writes, which are the model's and  *)
(* not the app's. Answering says how the queues of a device fit together:  *)
(* answers arrive in the order of the requests, none while the connection  *)
(* is down, and a process that is not running has nothing in memory.       *)
(***************************************************************************)
EXTENDS WeatherApp, FiniteSetTheorems, SequenceTheorems, WellFoundedInduction, TLAPS

(* A set of naturals that is not empty has a least element: what a claim   *)
(* fails for first, which is how the recursion of Only is followed below.  *)
LEMMA LeastElement ==
    ASSUME NEW T, T \subseteq Nat, T # {}
    PROVE  \E n \in T : \A m \in T : n <= m
<1>1. PICK n \in T : \A m \in T : ~ (<<m, n>> \in OpToRel(<, Nat))
  BY NatLessThanWellFounded, WFMin
<1>2. \A m \in T : ~ (m < n)
  BY <1>1 DEF OpToRel
<1>3. QED BY <1>2

\* Only's recursion, one step further.
Body(s, kinds, f, n) ==
    [i \in 0..n |-> IF i = 0 THEN << >>
                    ELSE IF s[i].kind \in kinds THEN Append(f[i - 1], s[i])
                    ELSE f[i - 1]]

(* One step of Only's recursion is a function, whatever the step before.   *)
LEMMA BodyIsDefined ==
    ASSUME NEW s, NEW kinds, NEW n \in Nat
    PROVE  \E f : f = Body(s, kinds, f, n)
<1> DEFINE Bad == {m \in Nat : ~ \E f : f = Body(s, kinds, f, m)}
<1>1. SUFFICES ASSUME Bad # {} PROVE FALSE
  OBVIOUS
<1>2. PICK m \in Bad : \A k \in Bad : m <= k
  <2>1. Bad \subseteq Nat
    OBVIOUS
  <2> HIDE DEF Bad
  <2>2. QED BY <1>1, <2>1, LeastElement
<1>3. CASE m = 0
  <2> DEFINE g == [i \in 0..0 |-> << >>]
  <2>1. g = Body(s, kinds, g, 0)
    BY DEF Body
  <2>2. QED BY <1>2, <1>3, <2>1
<1>4. CASE m # 0
  <2>1. m \in Nat /\ m - 1 \in Nat
    BY <1>2, <1>4
  <2>2. m - 1 \notin Bad
    <3> HIDE DEF Bad
    <3>1. QED BY <1>2, <2>1
  <2>3. PICK f : f = Body(s, kinds, f, m - 1)
    BY <2>1, <2>2
  <2> DEFINE new == IF s[m].kind \in kinds THEN Append(f[m - 1], s[m]) ELSE f[m - 1]
             g == [i \in 0..m |-> IF i = m THEN new ELSE f[i]]
  <2>4. \A i \in 0..m : g[i] = Body(s, kinds, g, m)[i]
    <3>1. TAKE i \in 0..m
    <3>2. CASE i = m
      BY <3>2, <1>4, <2>1 DEF Body
    <3>3. CASE i # m
      <4>1. i \in 0..(m - 1)
        BY <3>3, <2>1
      <4>2. f[i] = Body(s, kinds, f, m - 1)[i]
        BY <2>3
      <4>3. i # 0 => i - 1 \in 0..m /\ i - 1 # m
        BY <4>1, <2>1
      <4>4. i # 0 => g[i - 1] = f[i - 1]
        BY <4>3
      <4>5. QED BY <3>3, <4>1, <4>2, <4>4 DEF Body
    <3>4. QED BY <3>2, <3>3
  <2>5. g = Body(s, kinds, g, m)
    BY <2>4 DEF Body
  <2>6. QED BY <1>2, <2>5
<1>5. QED BY <1>3, <1>4

(* kept: the first n requests' chosen ones are t, and at says where.       *)
Chosen(s, kinds, n, t, at) ==
    /\ at \in [DOMAIN t -> 1..n]
    /\ \A i \in DOMAIN t : t[i] = s[at[i]] /\ t[i].kind \in kinds
    /\ \A i, j \in DOMAIN t : i < j => at[i] < at[j]
    /\ \A k \in 1..n : s[k].kind \in kinds => \E i \in DOMAIN t : at[i] = k

(* Only keeps exactly the requests of the given kinds, in their order, as  *)
(* restoreState does with the queue of the connection.                     *)
LEMMA OnlyChooses ==
    ASSUME NEW S, NEW s \in Seq(S), NEW kinds
    PROVE  /\ Only(s, kinds) \in Seq(S)
           /\ \E at : Chosen(s, kinds, Len(s), Only(s, kinds), at)
<1> DEFINE kept == CHOOSE f : f = Body(s, kinds, f, Len(s))
           Good(n) == kept[n] \in Seq(S) /\ \E at : Chosen(s, kinds, n, kept[n], at)
<1>1. Len(s) \in Nat /\ kept = Body(s, kinds, kept, Len(s))
  BY BodyIsDefined
<1>2. Only(s, kinds) = kept[Len(s)]
  BY DEF Only, Body
<1> HIDE DEF kept
<1>3. \A i \in 0..Len(s) :
         kept[i] = IF i = 0 THEN << >>
                   ELSE IF s[i].kind \in kinds THEN Append(kept[i - 1], s[i])
                   ELSE kept[i - 1]
  BY <1>1 DEF Body
<1> DEFINE Bad == {n \in 0..Len(s) : ~ Good(n)}
<1>4. ASSUME Bad # {} PROVE FALSE
  <2>1. PICK n \in Bad : \A m \in Bad : n <= m
    <3>1. Bad \subseteq Nat
      BY <1>1
    <3> HIDE DEF Bad
    <3>2. QED BY <1>4, <3>1, LeastElement
  <2>2. CASE n = 0
    <3>1. kept[0] = << >>
      BY <1>1, <1>3
    <3>2. Chosen(s, kinds, 0, << >>, [i \in {} |-> 0])
      BY DEF Chosen
    <3>3. Good(0)
      BY <3>1, <3>2
    <3>4. QED BY <2>1, <2>2, <3>3
  <2>3. CASE n # 0
    <3> DEFINE m == n - 1
               t == kept[m]
    <3>1. n \in 1..Len(s) /\ n \in 0..Len(s) /\ m \in 0..Len(s) /\ n = m + 1 /\ m \in Nat
      BY <1>1, <2>1, <2>3
    <3>2. Good(m)
      <4>1. m \notin Bad
        <5> HIDE DEF Bad
        <5>1. QED BY <2>1, <3>1
      <4>2. QED BY <3>1, <4>1
    <3>3. PICK at : Chosen(s, kinds, m, t, at)
      BY <3>2
    <3>4. s[n] \in S
      BY <3>1
    <3>5. CASE s[n].kind \in kinds
      <4> DEFINE at2 == [i \in 1..(Len(t) + 1) |-> IF i = Len(t) + 1 THEN n ELSE at[i]]
                 t2 == Append(t, s[n])
      <4>1. kept[n] = t2
        BY <1>3, <2>3, <3>1, <3>5
      <4> HIDE DEF t, m
      <4>2. t \in Seq(S)
        BY <3>2 DEF t
      <4>3. /\ t2 \in Seq(S) /\ DOMAIN t2 = 1..(Len(t) + 1) /\ Len(t) \in Nat
            /\ DOMAIN t = 1..Len(t)
            /\ \A i \in 1..(Len(t) + 1) : t2[i] = IF i = Len(t) + 1 THEN s[n] ELSE t[i]
        BY <4>2, <3>4
      <4> HIDE DEF t2
      <4>4. at2 \in [DOMAIN t2 -> 1..n]
        BY <3>1, <3>3, <4>3 DEF Chosen
      <4>5. \A i \in DOMAIN t2 : t2[i] = s[at2[i]] /\ t2[i].kind \in kinds
        BY <3>3, <3>5, <4>3 DEF Chosen
      <4>6. \A i, j \in DOMAIN t2 : i < j => at2[i] < at2[j]
        BY <3>1, <3>3, <4>3 DEF Chosen
      <4>7. \A k \in 1..n : s[k].kind \in kinds => \E i \in DOMAIN t2 : at2[i] = k
        BY <3>1, <3>3, <4>3 DEF Chosen
      <4>8. Chosen(s, kinds, n, t2, at2)
        BY <4>4, <4>5, <4>6, <4>7 DEF Chosen
      <4> HIDE DEF at2
      <4>9. Good(n)
        BY <4>1, <4>3, <4>8
      <4>10. QED BY <2>1, <4>9
    <3>6. CASE s[n].kind \notin kinds
      <4>1. kept[n] = t
        BY <1>3, <2>3, <3>1, <3>6
      <4> HIDE DEF t, m
      <4>2. Chosen(s, kinds, n, t, at)
        BY <3>1, <3>3, <3>6 DEF Chosen
      <4>3. QED BY <2>1, <3>2, <4>1, <4>2 DEF t
    <3>7. QED BY <3>5, <3>6
  <2>4. QED BY <2>2, <2>3
<1>5. Good(Len(s))
  BY <1>1, <1>4
<1>6. QED BY <1>2, <1>5
-----------------------------------------------------------------------------
\* Requests with the parameters their kind is made with.
GoodRequests ==
    {op \in Requests :
       /\ IF op.kind = "readIndex" THEN op.id = None /\ op.user \in Users
                                   ELSE op.id \in Ids
       /\ op.kind \in {"saveIndex", "deleteIndex"} => op.user \in Users
       /\ op.kind \in {"saveIndex", "saveEvent", "updateEvent"} => op.text \in Texts}

GoodAnswers == {a \in Answers : a.op \in GoodRequests}

\* Loads, with the values the load's counters have in any state.
AnyLoads == [phase : Phases, wanted : SUBSET Ids, pending : SUBSET Ids, group : Int,
             eventArray : Seq(EventModel), eventS : Seq(EventModel),
             failures : Nat, shown : Seq(EventModel)]

AnyScreens == [no : Nat \ {0}, kind : {"home", "event", "edit", "auth"},
               user : Users \cup {None}, event : EventModel \cup {NoEvent},
               load : AnyLoads, rows : SUBSET EventModel]

GoodScreens == {s \in AnyScreens : s.kind = "edit" => s.event \in EventModel}

\* Screens as the assemblies build them, before they are pushed.
NewScreens == {s \in GoodScreens : s.load = NewLoad /\ s.rows = {}}

GoodTasks == GoodAnswers \cup [do : {"push"}, from : Nat, screen : NewScreens]
                         \cup [do : {"signedIn", "alert"}, from : Nat]

Types ==
    /\ index \in [Users -> SUBSET Ids] /\ events \in [Ids -> Texts \cup {None}]
    /\ online \in [Devices -> BOOLEAN]
    /\ outbox \in [Devices -> Seq(GoodRequests)]
    /\ answers \in [Devices -> Seq(GoodAnswers)]
    /\ mainQ \in [Devices -> Seq(GoodTasks)]
    /\ status \in [Devices -> {"down", "up"} \cup Traps]
    /\ user \in [Devices -> Users \cup {None}]
    /\ stack \in [Devices -> Seq(GoodScreens)]
    /\ built \in [Devices -> Nat] /\ alert \in [Devices -> Nat]
    /\ signIns \in [Devices -> SUBSET [user : Users, from : Nat]]
    /\ usedIds \subseteq Ids /\ revived \subseteq Ids /\ torn \subseteq Ids
    /\ forgotten \subseteq Devices \X Nat

(* The answers under way are to the first requests; a device without a     *)
(* connection has none; a process that is gone left nothing behind.        *)
Answering ==
    \A d \in Devices :
        /\ Len(answers[d]) <= Len(outbox[d])
        /\ \A i \in 1..Len(answers[d]) : answers[d][i].op = outbox[d][i]
        /\ ~ online[d] => answers[d] = << >>
        /\ status[d] = "up" => stack[d] # << >>
        /\ status[d] # "up" => /\ outbox[d] = << >> /\ answers[d] = << >>
                               /\ mainQ[d] = << >> /\ stack[d] = << >>
                               /\ signIns[d] = {} /\ alert[d] = 0

Shape == Types /\ Answering

(* The load of a Home that has not asked for anything.                     *)
LEMMA NewLoadIsLoad == NewLoad \in AnyLoads
BY DEF NewLoad, AnyLoads, Phases

(* Every callback of HomeServiceImpl.getData leaves a well-formed load.    *)
LEMMA LoadsStayLoads ==
    ASSUME NEW l \in AnyLoads
    PROVE  /\ AskIndex(l) \in AnyLoads /\ IndexFailed(l) \in AnyLoads
           /\ IndexIsNull(l) \in AnyLoads /\ GroupNotify(l) \in AnyLoads
           /\ \A keys \in SUBSET Ids : IndexFound(l, keys) \in AnyLoads
           /\ \A event \in EventModel : EventFound(l, event) \in AnyLoads
           /\ \A id \in Ids : EventFailed(l, id) \in AnyLoads
<1>1. AskIndex(l) \in AnyLoads
  BY DEF AskIndex, AnyLoads, Phases
<1>2. IndexFailed(l) \in AnyLoads
  <2>1. l.failures + 1 \in Nat
    BY DEF AnyLoads
  <2>2. QED BY <2>1 DEF IndexFailed, AnyLoads, Phases
<1>3. IndexIsNull(l) \in AnyLoads
  BY DEF IndexIsNull, AnyLoads, Phases
<1>4. GroupNotify(l) \in AnyLoads
  BY DEF GroupNotify, AnyLoads, Phases
<1>5. ASSUME NEW keys \in SUBSET Ids PROVE IndexFound(l, keys) \in AnyLoads
  <2>1. Cardinality(keys) \in Nat
    BY IdsAreFinite, FS_Subset, FS_CardinalityType
  <2>2. Cardinality(keys) \in Int
    BY <2>1
  <2>3. QED BY <2>2 DEF IndexFound, AnyLoads, Phases
<1>6. ASSUME NEW event \in EventModel PROVE EventFound(l, event) \in AnyLoads
  <2>1. Append(l.eventArray, event) \in Seq(EventModel)
    BY DEF AnyLoads
  <2>2. l.pending \ {event.id} \in SUBSET Ids
    BY DEF AnyLoads
  <2>3. l.group - 1 \in Int
    BY DEF AnyLoads
  <2>4. QED BY <2>1, <2>2, <2>3 DEF EventFound, AnyLoads, Phases
<1>7. ASSUME NEW id \in Ids PROVE EventFailed(l, id) \in AnyLoads
  <2>1. l.failures + 1 \in Nat /\ l.pending \ {id} \in SUBSET Ids
    BY DEF AnyLoads
  <2>2. QED BY <2>1 DEF EventFailed, AnyLoads
<1>8. QED BY <1>1, <1>2, <1>3, <1>4, <1>5, <1>6, <1>7

(* A screen as its assembly builds it; only an Edit screen has an event.   *)
LEMMA ScreenIsNew ==
    ASSUME NEW no \in Nat \ {0}, NEW kind \in {"home", "event", "edit", "auth"},
           NEW u \in Users \cup {None}, NEW event \in EventModel \cup {NoEvent},
           kind = "edit" => event \in EventModel
    PROVE  Screen(no, kind, u, event) \in NewScreens
<1> DEFINE s == Screen(no, kind, u, event)
<1>1. /\ s \in AnyScreens /\ s.kind = kind /\ s.event = event
      /\ s.load = NewLoad /\ s.rows = {}
  BY NewLoadIsLoad DEF Screen, AnyScreens
<1>2. SUFFICES s \in NewScreens
  OBVIOUS
<1> HIDE DEF s
<1>3. QED BY <1>1 DEF NewScreens, GoodScreens

(* A screen stays one when its load starts or goes on, or its rows change. *)
LEMMA LoadingIsScreen ==
    ASSUME NEW s \in GoodScreens, NEW u \in Users
    PROVE  /\ Loading(s, u) \in GoodScreens
           /\ \A l \in AnyLoads : [s EXCEPT !.load = l] \in GoodScreens
           /\ \A r \in SUBSET EventModel : [s EXCEPT !.rows = r] \in GoodScreens
<1>1. AskIndex(NewLoad) \in AnyLoads
  BY NewLoadIsLoad, LoadsStayLoads
<1>2. s \in AnyScreens
  BY DEF GoodScreens
<1>3. ASSUME NEW l \in AnyLoads PROVE [s EXCEPT !.load = l] \in GoodScreens
  BY <1>2 DEF GoodScreens, AnyScreens
<1>4. ASSUME NEW r \in SUBSET EventModel PROVE [s EXCEPT !.rows = r] \in GoodScreens
  BY <1>2 DEF GoodScreens, AnyScreens
<1>5. Loading(s, u) \in GoodScreens
  BY <1>1, <1>2 DEF Loading, GoodScreens, AnyScreens
<1>6. QED BY <1>3, <1>4, <1>5

(* The parameters each kind of request is made with.                       *)
LEMMA RequestIsGood ==
    ASSUME NEW kind \in Writes \cup Reads, NEW u \in Users \cup {None},
           NEW id \in Ids \cup {None}, NEW text \in Texts \cup {None}, NEW src \in Nat,
           IF kind = "readIndex" THEN id = None /\ u \in Users ELSE id \in Ids,
           kind \in {"saveIndex", "deleteIndex"} => u \in Users,
           kind \in {"saveIndex", "saveEvent", "updateEvent"} => text \in Texts
    PROVE  Request(kind, u, id, text, src) \in GoodRequests
<1> DEFINE op == Request(kind, u, id, text, src)
<1>1. op \in Requests
  BY DEF Request, Requests
<1>2. op.kind = kind /\ op.user = u /\ op.id = id /\ op.text = text
  BY DEF Request
<1>3. SUFFICES op \in GoodRequests
  OBVIOUS
<1> HIDE DEF op
<1>4. QED BY <1>1, <1>2 DEF GoodRequests

(* What the callback of a request is handed.                               *)
LEMMA AnswerIsGood ==
    ASSUME NEW op \in GoodRequests, NEW ok \in BOOLEAN,
           NEW keys \in SUBSET Ids, NEW text \in Texts \cup {None}
    PROVE  Answer(op, ok, keys, text) \in GoodAnswers
BY DEF Answer, GoodAnswers, Answers, GoodRequests

(* The blocks of the main queue, by what they do.                          *)
LEMMA TaskKinds ==
    ASSUME NEW task \in GoodTasks
    PROVE  /\ task.do = "answer" => task \in GoodAnswers
           /\ task.do = "push" => task \in [do : {"push"}, from : Nat, screen : NewScreens]
           /\ task.do # "answer" => task.from \in Nat
           /\ task.do \in {"answer", "push", "signedIn", "alert"}
           /\ task \in GoodAnswers => task.do = "answer"
BY DEF GoodTasks, GoodAnswers, Answers
-----------------------------------------------------------------------------
(* Nothing is running, queued or answered at first.                        *)
LEMMA ShapeInit == Init => Shape
<1> SUFFICES ASSUME Init PROVE Shape
  OBVIOUS
<1>1. /\ index \in [Users -> SUBSET Ids] /\ usedIds \subseteq Ids
  BY SavedType DEF Init
<1>2. events \in [Ids -> Texts \cup {None}]
  BY DEF Init
<1>3. /\ << >> \in Seq(GoodRequests) /\ << >> \in Seq(GoodAnswers)
      /\ << >> \in Seq(GoodTasks) /\ << >> \in Seq(GoodScreens)
  OBVIOUS
<1>4. Types
  BY <1>1, <1>2, <1>3, FirstUserType DEF Init, ClientInit, Types
<1>5. Answering
  BY DEF Init, ClientInit, Answering
<1>6. QED BY <1>4, <1>5 DEF Shape

(* The screen a user taps on.                                              *)
LEMMA TopIsScreen ==
    ASSUME Shape, NEW d \in Devices, NEW kind, OnTop(d, kind)
    PROVE  /\ status[d] = "up" /\ stack[d] \in Seq(GoodScreens) /\ stack[d] # << >>
           /\ Len(stack[d]) \in Nat /\ Len(stack[d]) \in DOMAIN stack[d]
           /\ Top(d) = stack[d][Len(stack[d])] /\ Top(d) \in GoodScreens
           /\ Top(d).no \in Nat \ {0} /\ Top(d).kind = kind
<1>1. status[d] = "up" /\ Top(d).kind = kind
  BY DEF OnTop
<1>2. stack[d] \in Seq(GoodScreens) /\ stack[d] # << >>
  BY <1>1 DEF Shape, Types, Answering
<1>3. Len(stack[d]) \in Nat /\ Len(stack[d]) \in DOMAIN stack[d]
  BY <1>2
<1>4. Top(d) = stack[d][Len(stack[d])] /\ Top(d) \in GoodScreens
  BY <1>2, <1>3 DEF Top, Last
<1>5. Top(d).no \in Nat \ {0}
  BY <1>4 DEF GoodScreens, AnyScreens
<1>6. QED BY <1>1, <1>2, <1>3, <1>4, <1>5

(* A tap that leads to a new screen: only the screens and the queue of d.  *)
LEMMA NavigateKeepsShape ==
    ASSUME Shape, NEW d \in Devices, NEW from \in Nat, NEW event \in EventModel \cup {NoEvent},
           NEW kind \in {"home", "event", "edit", "auth"}, kind = "edit" => event \in EventModel,
           Navigate(d, from, kind, event), status[d] = "up",
           UNCHANGED <<status, signIns>>,
           user' \in [Devices -> Users \cup {None}], alert' \in [Devices -> Nat],
           \A e \in Devices : alert'[e] = 0 \/ alert'[e] = alert[e]
    PROVE  Shape'
<1>1. Push(from, Screen(NewNo(d), kind, user[d], event)) \in GoodTasks
  <2>1. NewNo(d) \in Nat \ {0} /\ user[d] \in Users \cup {None}
    BY DEF NewNo, Shape, Types
  <2>2. Screen(NewNo(d), kind, user[d], event) \in NewScreens
    BY <2>1, ScreenIsNew
  <2>3. QED BY <2>2 DEF Push, GoodTasks
<1>2. mainQ' \in [Devices -> Seq(GoodTasks)]
  BY <1>1 DEF Navigate, Post, Shape, Types
<1>3. built' \in [Devices -> Nat]
  BY DEF Navigate, Build, NewNo, Shape, Types
<1>4. Types'
  BY <1>2, <1>3 DEF Navigate, dbVars, netVars, histVars, budgetVars, Shape, Types
<1>5. Answering'
  BY DEF Navigate, Post, netVars, Shape, Types, Answering
<1>6. QED BY <1>4, <1>5 DEF Shape

(* didTapAddEvent queues an Event screen.                                  *)
LEMMA DidTapAddEventKeepsShape ==
    ASSUME Shape, NEW d \in Devices, DidTapAddEvent(d)
    PROVE  Shape'
<1>1. OnTop(d, "home") /\ Navigate(d, Top(d).no, "event", NoEvent) /\ UNCHANGED <<sessionVars, alert>>
  BY DEF DidTapAddEvent
<1>2. Top(d).no \in Nat /\ status[d] = "up"
  BY <1>1, TopIsScreen
<1>3. QED BY <1>1, <1>2, NavigateKeepsShape DEF sessionVars, Shape, Types

(* The Edit action of a row queues an Edit screen with the row's event.    *)
LEMMA DidTapEditKeepsShape ==
    ASSUME Shape, NEW d \in Devices, DidTapEdit(d)
    PROVE  Shape'
<1>1. OnTop(d, "home") /\ UNCHANGED <<sessionVars, alert>>
  BY DEF DidTapEdit
<1>2. PICK event \in Top(d).rows : Navigate(d, Top(d).no, "edit", event)
  BY DEF DidTapEdit
<1>3. Top(d).no \in Nat /\ status[d] = "up" /\ Top(d).rows \subseteq EventModel
  BY <1>1, TopIsScreen DEF GoodScreens, AnyScreens
<1>4. event \in EventModel
  BY <1>3
<1>5. QED BY <1>1, <1>2, <1>3, <1>4, NavigateKeepsShape DEF sessionVars, Shape, Types

(* didTapLogOut queues the alert.                                          *)
LEMMA DidTapLogOutKeepsShape ==
    ASSUME Shape, NEW d \in Devices, DidTapLogOut(d)
    PROVE  Shape'
<1>1. status[d] = "up" /\ Top(d).no \in Nat
  BY TopIsScreen DEF DidTapLogOut
<1>2. mainQ' \in [Devices -> Seq(GoodTasks)]
  BY <1>1 DEF DidTapLogOut, Post, GoodTasks, Shape, Types
<1>3. Types'
  BY <1>2 DEF DidTapLogOut, dbVars, netVars, histVars, sessionVars, screenVars, budgetVars, Shape, Types
<1>4. Answering'
  BY <1>1 DEF DidTapLogOut, Post, netVars, sessionVars, screenVars, Shape, Types, Answering
<1>5. QED BY <1>3, <1>4 DEF Shape

(* OK in the alert signs out and queues the Auth screen.                   *)
LEMMA DidConfirmLogOutKeepsShape ==
    ASSUME Shape, NEW d \in Devices, DidConfirmLogOut(d)
    PROVE  Shape'
<1>1. status[d] = "up" /\ alert[d] \in Nat
  BY DEF DidConfirmLogOut, Shape, Types, Answering
<1>2. Navigate(d, alert[d], "auth", NoEvent)
  BY DEF DidConfirmLogOut
<1>3. user' \in [Devices -> Users \cup {None}] /\ alert' \in [Devices -> Nat]
  BY DEF DidConfirmLogOut, Shape, Types
<1>4. \A e \in Devices : alert'[e] = 0 \/ alert'[e] = alert[e]
  BY DEF DidConfirmLogOut, Shape, Types
<1>5. QED BY <1>1, <1>2, <1>3, <1>4, NavigateKeepsShape DEF DidConfirmLogOut

(* Cancel only dismisses the alert.                                        *)
LEMMA DidCancelLogOutKeepsShape ==
    ASSUME Shape, NEW d \in Devices, DidCancelLogOut(d)
    PROVE  Shape'
<1>1. Types'
  BY DEF DidCancelLogOut, dbVars, netVars, histVars, sessionVars, screenVars, budgetVars, Shape, Types
<1>2. Answering'
  BY DEF DidCancelLogOut, netVars, sessionVars, screenVars, Shape, Types, Answering
<1>3. QED BY <1>1, <1>2 DEF Shape

(* A request more, at the end.                                             *)
LEMMA SendKeepsAnswering ==
    ASSUME Shape, NEW d \in Devices, NEW op \in GoodRequests, Send(d, op), status[d] = "up",
           UNCHANGED <<online, answers>>
    PROVE  /\ outbox' \in [Devices -> Seq(GoodRequests)]
           /\ \A e \in Devices :
                 /\ Len(answers'[e]) <= Len(outbox'[e])
                 /\ \A i \in 1..Len(answers'[e]) : answers'[e][i].op = outbox'[e][i]
                 /\ ~ online'[e] => answers'[e] = << >>
                 /\ status[e] # "up" => outbox'[e] = << >> /\ answers'[e] = << >>
<1>1. outbox' \in [Devices -> Seq(GoodRequests)]
  BY DEF Send, Shape, Types
<1>2. ASSUME NEW e \in Devices
      PROVE  /\ Len(answers'[e]) <= Len(outbox'[e])
             /\ \A i \in 1..Len(answers'[e]) : answers'[e][i].op = outbox'[e][i]
             /\ ~ online'[e] => answers'[e] = << >>
             /\ status[e] # "up" => outbox'[e] = << >> /\ answers'[e] = << >>
  <2>1. /\ answers[e] \in Seq(GoodAnswers) /\ outbox[e] \in Seq(GoodRequests)
        /\ Len(answers[e]) \in Nat /\ Len(outbox[e]) \in Nat
    BY DEF Shape, Types
  <2>2. CASE e = d
    BY <2>1, <2>2 DEF Send, Shape, Types, Answering
  <2>3. CASE e # d
    BY <2>1, <2>3 DEF Send, Shape, Types, Answering
  <2>4. QED BY <2>2, <2>3
<1>3. QED BY <1>1, <1>2

(* The Delete action takes the row and sends the removal of its event.     *)
LEMMA DidTapDeleteKeepsShape ==
    ASSUME Shape, NEW d \in Devices, DidTapDelete(d)
    PROVE  Shape'
<1>1. OnTop(d, "home")
  BY DEF DidTapDelete
<1>2. PICK event \in Top(d).rows :
         /\ stack' = [stack EXCEPT ![d][Len(stack[d])].rows = @ \ {event}]
         /\ Send(d, Request("deleteEvent", user[d], event.id, None, Top(d).no))
         /\ torn' = torn \cup (IF user[d] # Top(d).user THEN {event.id} ELSE {})
  BY DEF DidTapDelete
<1>3. /\ status[d] = "up" /\ Top(d) \in GoodScreens /\ Top(d) = stack[d][Len(stack[d])]
      /\ Len(stack[d]) \in DOMAIN stack[d] /\ Top(d).no \in Nat
  BY <1>1, TopIsScreen
<1>4. event \in EventModel /\ event.id \in Ids /\ Top(d).rows \ {event} \in SUBSET EventModel
  BY <1>3 DEF GoodScreens, AnyScreens, EventModel
<1>5. user[d] \in Users \cup {None}
  BY DEF Shape, Types
<1>6. Request("deleteEvent", user[d], event.id, None, Top(d).no) \in GoodRequests
  BY <1>3, <1>4, <1>5, RequestIsGood DEF Writes
<1>7. [Top(d) EXCEPT !.rows = @ \ {event}] \in GoodScreens
  <2> DEFINE left == Top(d).rows \ {event}
  <2>1. left \in SUBSET EventModel
    BY <1>4
  <2> HIDE DEF left
  <2>2. [Top(d) EXCEPT !.rows = left] \in GoodScreens
    BY <1>3, <2>1 DEF GoodScreens, AnyScreens
  <2>3. QED BY <2>2 DEF left
<1>8. /\ stack' \in [Devices -> Seq(GoodScreens)]
      /\ \A e \in Devices : stack'[e] = << >> <=> stack[e] = << >>
  <2> DEFINE s == [stack[d] EXCEPT ![Len(stack[d])] = [Top(d) EXCEPT !.rows = @ \ {event}]]
  <2>1. stack' = [stack EXCEPT ![d] = s]
    BY <1>2, <1>3
  <2>2. s \in Seq(GoodScreens) /\ Len(s) = Len(stack[d]) /\ stack[d] # << >>
    BY <1>3, <1>7 DEF Shape, Types, Answering
  <2>3. s # << >>
    BY <2>2, <1>3
  <2> HIDE DEF s
  <2>4. QED BY <2>1, <2>2, <2>3 DEF Shape, Types
<1>9. torn' \subseteq Ids
  BY <1>2, <1>4 DEF Shape, Types
<1>10. Types'
  BY <1>2, <1>3, <1>6, <1>8, <1>9, SendKeepsAnswering
     DEF DidTapDelete, dbVars, sessionVars, Shape, Types
<1>11. Answering'
  BY <1>2, <1>3, <1>6, <1>8, SendKeepsAnswering
     DEF DidTapDelete, dbVars, sessionVars, Shape, Answering
<1>12. QED BY <1>10, <1>11 DEF Shape

(* didTapSave of the Edit screen sends its event's new text.               *)
LEMMA DidTapUpdateKeepsShape ==
    ASSUME Shape, NEW d \in Devices, DidTapUpdate(d)
    PROVE  Shape'
<1>1. OnTop(d, "edit")
  BY DEF DidTapUpdate
<1>2. PICK text \in Texts :
         Send(d, Request("updateEvent", None, Top(d).event.id, text, Top(d).no))
  BY DEF DidTapUpdate
<1>3. status[d] = "up" /\ Top(d) \in GoodScreens /\ Top(d).kind = "edit" /\ Top(d).no \in Nat
  BY <1>1, TopIsScreen
<1>4. Top(d).event.id \in Ids
  BY <1>3 DEF GoodScreens, EventModel
<1>5. Request("updateEvent", None, Top(d).event.id, text, Top(d).no) \in GoodRequests
  BY <1>3, <1>4, RequestIsGood DEF Writes
<1>6. Types'
  BY <1>2, <1>3, <1>5, SendKeepsAnswering
     DEF DidTapUpdate, dbVars, histVars, sessionVars, screenVars, Shape, Types
<1>7. Answering'
  BY <1>2, <1>3, <1>5, SendKeepsAnswering
     DEF DidTapUpdate, sessionVars, screenVars, Shape, Answering
<1>8. QED BY <1>6, <1>7 DEF Shape

(* Back pops the screen on top, and never the last one.                    *)
LEMMA DidTapBackKeepsShape ==
    ASSUME Shape, NEW d \in Devices, DidTapBack(d)
    PROVE  Shape'
<1>1. stack[d] \in Seq(GoodScreens) /\ Len(stack[d]) > 1 /\ status[d] = "up"
  BY DEF DidTapBack, OnTop, Shape, Types
<1>2. Front(stack[d]) \in Seq(GoodScreens) /\ Front(stack[d]) # << >>
  <2>1. \A i \in 1 .. Len(stack[d]) - 1 : stack[d][i] \in GoodScreens
    BY <1>1
  <2> DEFINE n == Len(stack[d]) - 1
  <2>2. n \in Int /\ 1 \in Int /\ n >= 1
    BY <1>1
  <2> HIDE DEF n
  <2> DEFINE t == SubSeq(stack[d], 1, n)
  <2>3. t \in Seq(GoodScreens) /\ Len(t) = n
    BY <2>1, <2>2, SubSeqProperties DEF n
  <2> HIDE DEF t
  <2>4. t # << >>
    BY <2>2, <2>3, EmptySeq
  <2>5. QED BY <2>3, <2>4 DEF Front, n, t
<1>3. Types'
  BY <1>2 DEF DidTapBack, dbVars, netVars, histVars, sessionVars, budgetVars, Shape, Types
<1>4. Answering'
  BY <1>1, <1>2 DEF DidTapBack, netVars, sessionVars, Shape, Types, Answering
<1>5. QED BY <1>3, <1>4 DEF Shape

(* didTapLogIn and didTapSignIn start a call of the auth service.          *)
LEMMA DidTapLogInKeepsShape ==
    ASSUME Shape, NEW d \in Devices, DidTapLogIn(d)
    PROVE  Shape'
<1>1. status[d] = "up" /\ Top(d).no \in Nat
  BY TopIsScreen DEF DidTapLogIn
<1>2. signIns' \in [Devices -> SUBSET [user : Users, from : Nat]]
  BY <1>1 DEF DidTapLogIn, Shape, Types
<1>3. Types'
  BY <1>2 DEF DidTapLogIn, dbVars, netVars, histVars, screenVars, budgetVars, Shape, Types
<1>4. Answering'
  BY <1>1 DEF DidTapLogIn, netVars, screenVars, Shape, Types, Answering
<1>5. QED BY <1>3, <1>4 DEF Shape

(* The auth service answers: with an account and a block, or an error.     *)
LEMMA SignInAnsweredKeepsShape ==
    ASSUME Shape, NEW d \in Devices, SignInAnswered(d)
    PROVE  Shape'
<1>1. PICK call \in signIns[d] :
          /\ signIns' = [signIns EXCEPT ![d] = @ \ {call}]
          /\ \/ /\ user' = [user EXCEPT ![d] = call.user]
                /\ Post(d, [do |-> "signedIn", from |-> call.from])
             \/ UNCHANGED <<user, mainQ>>
  BY DEF SignInAnswered
<1>2. status[d] = "up" /\ call.user \in Users /\ call.from \in Nat
  BY DEF Shape, Types, Answering
<1>3. mainQ' \in [Devices -> Seq(GoodTasks)] /\ user' \in [Devices -> Users \cup {None}]
  <2>1. [do |-> "signedIn", from |-> call.from] \in GoodTasks
    BY <1>2 DEF GoodTasks
  <2>2. CASE UNCHANGED <<user, mainQ>>
    BY <2>2 DEF Shape, Types
  <2>3. CASE /\ user' = [user EXCEPT ![d] = call.user]
             /\ Post(d, [do |-> "signedIn", from |-> call.from])
    <3>1. user' \in [Devices -> Users \cup {None}]
      BY <1>2, <2>3 DEF Shape, Types
    <3>2. mainQ' \in [Devices -> Seq(GoodTasks)]
      BY <2>1, <2>3 DEF Post, Shape, Types
    <3>3. QED BY <3>1, <3>2
  <2>4. QED BY <1>1, <2>2, <2>3
<1>4. signIns' \in [Devices -> SUBSET [user : Users, from : Nat]]
  BY <1>1 DEF Shape, Types
<1>5. Types'
  BY <1>3, <1>4 DEF SignInAnswered, dbVars, netVars, histVars, screenVars, budgetVars, Shape, Types
<1>6. Answering'
  BY <1>1, <1>2 DEF SignInAnswered, Post, netVars, screenVars, Shape, Types, Answering
<1>7. QED BY <1>5, <1>6 DEF Shape

(* initRoot shows one screen, a Home that loads or an Auth.                *)
LEMMA LaunchKeepsShape ==
    ASSUME Shape, NEW d \in Devices, Launch(d)
    PROVE  Shape'
<1>1. /\ outbox[d] = << >> /\ answers[d] = << >> /\ user[d] \in Users \cup {None}
      /\ outbox[d] \in Seq(GoodRequests)
  BY DEF Launch, Shape, Types, Answering
<1>2. CASE user[d] # None
  <2> DEFINE screen == Loading(Screen(1, "home", None, NoEvent), user[d])
             op == ReadIndex(user[d], 1)
  <2>1. stack' = [stack EXCEPT ![d] = <<screen>>] /\ outbox' = [outbox EXCEPT ![d] = Append(@, op)]
    BY <1>2 DEF Launch, Send
  <2>2. user[d] \in Users
    BY <1>1, <1>2
  <2>3. screen \in GoodScreens
    <3>1. Screen(1, "home", None, NoEvent) \in GoodScreens
      BY ScreenIsNew DEF NewScreens
    <3>2. QED BY <2>2, <3>1, LoadingIsScreen
  <2>4. op \in GoodRequests
    BY <2>2, RequestIsGood DEF ReadIndex, Reads
  <2> HIDE DEF screen, op
  <2>5. Types'
    BY <2>1, <2>3, <2>4 DEF Launch, dbVars, histVars, budgetVars, Shape, Types
  <2>6. Answering'
    <3>1. /\ online' = online /\ answers' = answers /\ mainQ' = mainQ
          /\ signIns' = signIns /\ alert' = alert /\ status' = [status EXCEPT ![d] = "up"]
      BY DEF Launch
    <3>2. stack'[d] # << >> /\ status'[d] = "up" /\ answers'[d] = << >>
      BY <1>1, <2>1, <2>3, <3>1 DEF Shape, Types
    <3>3. \A e \in Devices \ {d} : /\ stack'[e] = stack[e] /\ outbox'[e] = outbox[e]
                                    /\ status'[e] = status[e]
      BY <2>1, <3>1 DEF Shape, Types
    <3>4. Len(outbox'[d]) \in Nat /\ Len(answers'[d]) = 0
      BY <1>1, <2>1, <2>4, <3>2 DEF Shape, Types
    <3>5. QED BY <3>1, <3>2, <3>3, <3>4 DEF Shape, Answering
  <2>7. QED BY <2>5, <2>6 DEF Shape
<1>3. CASE user[d] = None
  <2> DEFINE screen == Screen(1, "auth", None, NoEvent)
  <2>1. stack' = [stack EXCEPT ![d] = <<screen>>] /\ UNCHANGED outbox
    BY <1>3 DEF Launch
  <2>2. screen \in GoodScreens
    BY ScreenIsNew DEF NewScreens
  <2> HIDE DEF screen
  <2>3. Types'
    BY <2>1, <2>2 DEF Launch, dbVars, histVars, budgetVars, Shape, Types
  <2>4. Answering'
    BY <2>1, <2>2 DEF Launch, Shape, Types, Answering
  <2>5. QED BY <2>3, <2>4 DEF Shape
<1>4. QED BY <1>2, <1>3

(* What a process has half done are keys.                                  *)
LEMMA OutstandingIsGood ==
    ASSUME Shape, NEW d \in Devices
    PROVE  Outstanding(d) \subseteq GoodRequests
<1>1. ToSet(outbox[d]) \subseteq GoodRequests
  BY DEF ToSet, Shape, Types
<1>2. ASSUME NEW t \in ToSet(mainQ[d]), t.do = "answer" PROVE t.op \in GoodRequests
  <2>1. t \in GoodTasks
    BY DEF ToSet, Shape, Types
  <2>2. QED BY <1>2, <2>1, TaskKinds DEF GoodAnswers
<1>3. QED BY <1>1, <1>2 DEF Outstanding

(* The end of a process takes everything that was in memory.               *)
LEMMA StopKeepsShape ==
    ASSUME Shape, NEW d \in Devices, NEW why \in {"down"} \cup Traps, Stop(d, why)
    PROVE  Shape'
<1>1. HalfDone(d) \subseteq Ids
  BY OutstandingIsGood DEF HalfDone, GoodRequests
<1>2. Types'
  <2>1. torn' \subseteq Ids /\ forgotten' \subseteq Devices \X Nat
    BY <1>1 DEF Stop, Shape, Types
  <2>2. QED BY <2>1 DEF Stop, ForgetDevice, dbVars, budgetVars, Shape, Types
<1>3. Answering'
  <2>1. /\ status'[d] # "up" /\ outbox'[d] = << >> /\ answers'[d] = << >>
        /\ mainQ'[d] = << >> /\ stack'[d] = << >> /\ signIns'[d] = {} /\ alert'[d] = 0
    BY DEF Stop, ForgetDevice, Traps, Shape, Types
  <2>2. \A e \in Devices \ {d} :
           /\ status'[e] = status[e] /\ outbox'[e] = outbox[e] /\ answers'[e] = answers[e]
           /\ mainQ'[e] = mainQ[e] /\ stack'[e] = stack[e] /\ signIns'[e] = signIns[e]
           /\ alert'[e] = alert[e]
    BY DEF Stop, ForgetDevice, Shape, Types
  <2>3. online' = online
    BY DEF Stop
  <2>4. QED BY <2>1, <2>2, <2>3 DEF Shape, Answering
<1>4. QED BY <1>2, <1>3 DEF Shape

(* didTapSaveEvent sends the index entry of a new key, or traps on a       *)
(* missing account.                                                        *)
LEMMA DidTapSaveEventKeepsShape ==
    ASSUME Shape, NEW d \in Devices, DidTapSaveEvent(d)
    PROVE  Shape'
<1>1. OnTop(d, "event")
  BY DEF DidTapSaveEvent
<1>2. status[d] = "up" /\ Top(d) \in GoodScreens /\ Top(d).no \in Nat /\ Top(d).user \in Users \cup {None}
  BY <1>1, TopIsScreen DEF GoodScreens, AnyScreens
<1>3. CASE Top(d).user = None
  BY <1>3, StopKeepsShape DEF DidTapSaveEvent, Trap, Traps
<1>4. CASE Top(d).user # None
  <2>1. PICK text \in Texts, id \in Ids \ usedIds :
           /\ Send(d, Request("saveIndex", Top(d).user, id, text, Top(d).no))
           /\ usedIds' = usedIds \cup {id}
           /\ UNCHANGED <<dbVars, online, answers, mainQ, histVars, sessionVars, screenVars>>
    BY <1>4 DEF DidTapSaveEvent
  <2>2. Request("saveIndex", Top(d).user, id, text, Top(d).no) \in GoodRequests
    BY <1>2, <1>4, RequestIsGood DEF Writes
  <2>3. Types'
    BY <1>2, <2>1, <2>2, SendKeepsAnswering
       DEF dbVars, histVars, sessionVars, screenVars, Shape, Types
  <2>4. Answering'
    BY <1>2, <2>1, <2>2, SendKeepsAnswering DEF sessionVars, screenVars, Shape, Answering
  <2>5. QED BY <2>3, <2>4 DEF Shape
<1>5. QED BY <1>3, <1>4

(* The block at the head of the main queue, and what stays behind it.      *)
LEMMA HeadIsTask ==
    ASSUME Shape, NEW d \in Devices, NEW do, Handling(d, do)
    PROVE  /\ status[d] = "up" /\ mainQ[d] \in Seq(GoodTasks) /\ mainQ[d] # << >>
           /\ Len(mainQ[d]) \in Nat \ {0} /\ Head(mainQ[d]) = mainQ[d][1]
           /\ Head(mainQ[d]) \in GoodTasks /\ Head(mainQ[d]).do = do
           /\ Tail(mainQ[d]) \in Seq(GoodTasks) /\ Len(Tail(mainQ[d])) = Len(mainQ[d]) - 1
           /\ \A i \in 1 .. Len(mainQ[d]) - 1 : Tail(mainQ[d])[i] = mainQ[d][i + 1]
           /\ stack[d] \in Seq(GoodScreens) /\ stack[d] # << >> /\ Len(stack[d]) \in Nat \ {0}
<1>1. /\ status[d] = "up" /\ mainQ[d] \in Seq(GoodTasks) /\ mainQ[d] # << >>
      /\ Head(mainQ[d]).do = do
  BY DEF Handling, Shape, Types
<1>2. /\ Head(mainQ[d]) \in GoodTasks /\ Head(mainQ[d]) = mainQ[d][1]
      /\ Tail(mainQ[d]) \in Seq(GoodTasks) /\ Len(Tail(mainQ[d])) = Len(mainQ[d]) - 1
      /\ \A i \in 1 .. Len(Tail(mainQ[d])) : Tail(mainQ[d])[i] = mainQ[d][i + 1]
  BY <1>1, HeadTailProperties
<1>3. stack[d] \in Seq(GoodScreens) /\ stack[d] # << >>
  BY <1>1 DEF Shape, Types, Answering
<1>4. Len(mainQ[d]) \in Nat \ {0} /\ Len(stack[d]) \in Nat \ {0}
  BY <1>1, <1>3, EmptySeq
<1>5. QED BY <1>1, <1>2, <1>3, <1>4

(* The answer that the block at the head of the main queue handles.        *)
LEMMA HeadIsAnswer ==
    ASSUME Shape, NEW d \in Devices, NEW kind, Answered(d, kind)
    PROVE  /\ Handling(d, "answer") /\ Head(mainQ[d]) \in GoodAnswers
           /\ Head(mainQ[d]).op \in GoodRequests /\ Head(mainQ[d]).op.kind = kind
           /\ Head(mainQ[d]).keys \in SUBSET Ids /\ Head(mainQ[d]).ok \in BOOLEAN
           /\ Head(mainQ[d]).text \in Texts \cup {None}
<1>1. Handling(d, "answer") /\ Head(mainQ[d]).op.kind = kind
  BY DEF Answered
<1>2. Head(mainQ[d]) \in GoodAnswers
  BY <1>1, HeadIsTask, TaskKinds
<1>3. QED BY <1>1, <1>2 DEF GoodAnswers, Answers

(* A block that only takes itself off the queue, and may queue another.    *)
LEMMA QueueKeepsShape ==
    ASSUME Shape, NEW d \in Devices, status[d] = "up", NEW tasks \in Seq(GoodTasks),
           mainQ' = [mainQ EXCEPT ![d] = tasks],
           UNCHANGED <<dbVars, netVars, histVars, sessionVars, stack, usedIds>>,
           built' \in [Devices -> Nat], alert' \in [Devices -> Nat],
           \A e \in Devices \ {d} : alert'[e] = alert[e]
    PROVE  Shape'
<1>1. mainQ' \in [Devices -> Seq(GoodTasks)]
  BY DEF Shape, Types
<1>2. Types'
  BY <1>1 DEF dbVars, netVars, histVars, sessionVars, Shape, Types
<1>3. Answering'
  BY DEF netVars, sessionVars, Shape, Types, Answering
<1>4. QED BY <1>2, <1>3 DEF Shape

(* The block of didTapLogOut presents the alert, or cannot.                *)
LEMMA OnAlertKeepsShape ==
    ASSUME Shape, NEW d \in Devices, OnAlert(d)
    PROVE  Shape'
<1>1. /\ Handling(d, "alert") /\ mainQ' = [mainQ EXCEPT ![d] = Tail(@)]
      /\ UNCHANGED <<dbVars, netVars, histVars, sessionVars, stack, built, budgetVars>>
      /\ alert' = [alert EXCEPT ![d] = IF @ = 0 /\ Top(d).no = Head(mainQ[d]).from
                                       THEN Head(mainQ[d]).from ELSE @]
  BY DEF OnAlert, Handled
<1>2. status[d] = "up" /\ Tail(mainQ[d]) \in Seq(GoodTasks) /\ Head(mainQ[d]).from \in Nat
  BY <1>1, HeadIsTask, TaskKinds
<1>3. /\ alert' \in [Devices -> Nat] /\ built' \in [Devices -> Nat]
      /\ \A e \in Devices \ {d} : alert'[e] = alert[e]
  BY <1>1, <1>2 DEF Shape, Types
<1>4. QED BY <1>1, <1>2, <1>3, QueueKeepsShape DEF budgetVars

(* navigateToHome takes the block that ran and queues a push of a Home.    *)
LEMMA NavigateToHomeKeepsShape ==
    ASSUME Shape, NEW d \in Devices, NEW do, Handling(d, do), NEW no \in Nat, NavigateToHome(d, no),
           UNCHANGED <<dbVars, netVars, histVars, sessionVars, stack, alert, budgetVars>>
    PROVE  Shape'
<1>1. Push(no, Screen(NewNo(d), "home", None, NoEvent)) \in GoodTasks
  <2>1. Screen(NewNo(d), "home", None, NoEvent) \in NewScreens
    <3>1. NewNo(d) \in Nat \ {0}
      BY DEF NewNo, Shape, Types
    <3>2. QED BY <3>1, ScreenIsNew
  <2>2. QED BY <2>1 DEF Push, GoodTasks
<1>2. status[d] = "up" /\ Tail(mainQ[d]) \in Seq(GoodTasks)
  BY HeadIsTask
<1>3. Append(Tail(mainQ[d]), Push(no, Screen(NewNo(d), "home", None, NoEvent))) \in Seq(GoodTasks)
  BY <1>1, <1>2
<1>4. built' \in [Devices -> Nat] /\ alert' \in [Devices -> Nat]
  BY DEF NavigateToHome, Build, NewNo, Shape, Types
<1>5. QED BY <1>2, <1>3, <1>4, QueueKeepsShape DEF NavigateToHome, budgetVars

(* The callback of a sign-in that succeeded goes to a new Home.            *)
LEMMA OnSignedInKeepsShape ==
    ASSUME Shape, NEW d \in Devices, OnSignedIn(d)
    PROVE  Shape'
<1>1. Handling(d, "signedIn") /\ Head(mainQ[d]).from \in Nat
  BY HeadIsTask, TaskKinds DEF OnSignedIn
<1>2. QED BY <1>1, NavigateToHomeKeepsShape DEF OnSignedIn

(* The callback of a save or an update goes to a new Home if it succeeded. *)
LEMMA OnSavedKeepsShape ==
    ASSUME Shape, NEW d \in Devices, OnSaved(d)
    PROVE  Shape'
<1>1. PICK kind : Answered(d, kind)
  BY DEF OnSaved
<1>2. Handling(d, "answer") /\ Head(mainQ[d]).op.src \in Nat
  BY <1>1, HeadIsAnswer DEF GoodRequests, Requests
<1>3. CASE Head(mainQ[d]).ok
  BY <1>2, <1>3, NavigateToHomeKeepsShape DEF OnSaved
<1>4. CASE ~ Head(mainQ[d]).ok
  <2>1. /\ mainQ' = [mainQ EXCEPT ![d] = Tail(@)]
        /\ UNCHANGED <<dbVars, netVars, histVars, sessionVars, stack, alert, built, usedIds>>
    BY <1>4 DEF OnSaved, Handled, budgetVars
  <2>2. built' \in [Devices -> Nat] /\ alert' \in [Devices -> Nat]
    BY <2>1 DEF Shape, Types
  <2>3. QED BY <1>2, <2>1, <2>2, HeadIsTask, QueueKeepsShape
<1>5. QED BY <1>3, <1>4

(* The callback of the second step of a delete changes nothing.            *)
LEMMA OnDeleteIndexKeepsShape ==
    ASSUME Shape, NEW d \in Devices, OnDeleteIndex(d)
    PROVE  Shape'
<1>1. /\ Handling(d, "answer") /\ mainQ' = [mainQ EXCEPT ![d] = Tail(@)]
      /\ UNCHANGED <<dbVars, netVars, histVars, sessionVars, stack, alert, built, usedIds>>
  BY DEF OnDeleteIndex, Handled, Answered, appVars, screenVars, budgetVars
<1>2. built' \in [Devices -> Nat] /\ alert' \in [Devices -> Nat]
  BY <1>1 DEF Shape, Types
<1>3. QED BY <1>1, <1>2, HeadIsTask, QueueKeepsShape

(* A callback that goes on with a second request, or does not.             *)
LEMMA ContinueKeepsShape ==
    ASSUME Shape, NEW d \in Devices, NEW kind, Answered(d, kind),
           NEW next \in {"saveEvent", "deleteIndex"}, Continue(d, next) \/ UNCHANGED outbox,
           next = "saveEvent" => kind = "saveIndex",
           next = "deleteIndex" => kind = "deleteEvent" /\ Head(mainQ[d]).op.user \in Users,
           Handled(d), UNCHANGED <<dbVars, online, answers, histVars, appVars>>
    PROVE  Shape'
<1>1. status[d] = "up" /\ Tail(mainQ[d]) \in Seq(GoodTasks) /\ Head(mainQ[d]).op \in GoodRequests
      /\ Head(mainQ[d]).op.kind = kind
  BY HeadIsAnswer, HeadIsTask
<1> DEFINE op == Head(mainQ[d]).op
           second == [op EXCEPT !.kind = next, !.redo = FALSE]
<1>2. second \in GoodRequests
  <2>1. op \in GoodRequests /\ op.kind = kind
    BY <1>1
  <2> HIDE DEF op
  <2>2. QED BY <2>1 DEF op, GoodRequests, Requests, Writes
<1>3. /\ outbox' \in [Devices -> Seq(GoodRequests)]
      /\ \A e \in Devices :
            /\ Len(answers'[e]) <= Len(outbox'[e])
            /\ \A i \in 1..Len(answers'[e]) : answers'[e][i].op = outbox'[e][i]
            /\ ~ online'[e] => answers'[e] = << >>
            /\ status[e] # "up" => outbox'[e] = << >> /\ answers'[e] = << >>
  <2>1. CASE UNCHANGED outbox
    BY <2>1 DEF Shape, Types, Answering
  <2>2. CASE Continue(d, next)
    <3>1. Send(d, second)
      BY <2>2 DEF Continue
    <3>2. QED BY <1>1, <1>2, <3>1, SendKeepsAnswering
  <2>3. QED BY <2>1, <2>2
<1>4. mainQ' = [mainQ EXCEPT ![d] = Tail(@)] /\ mainQ' \in [Devices -> Seq(GoodTasks)]
  BY <1>1 DEF Handled, Shape, Types
<1>5. Types'
  BY <1>3, <1>4 DEF dbVars, histVars, appVars, sessionVars, screenVars, budgetVars, Shape, Types
<1>6. Answering'
  BY <1>1, <1>3, <1>4 DEF appVars, sessionVars, screenVars, Shape, Types, Answering
<1>7. QED BY <1>5, <1>6 DEF Shape

(* The callback of the first step of a save sends the second.              *)
LEMMA OnSaveIndexKeepsShape ==
    ASSUME Shape, NEW d \in Devices, OnSaveIndex(d)
    PROVE  Shape'
<1>1. /\ Answered(d, "saveIndex") /\ Handled(d)
      /\ Continue(d, "saveEvent") \/ UNCHANGED outbox
      /\ UNCHANGED <<dbVars, online, answers, histVars, appVars>>
  BY DEF OnSaveIndex
<1>2. QED BY <1>1, ContinueKeepsShape

(* The callback of the first step of a delete sends the second, or traps   *)
(* on a missing account.                                                   *)
LEMMA OnDeleteEventKeepsShape ==
    ASSUME Shape, NEW d \in Devices, OnDeleteEvent(d)
    PROVE  Shape'
<1>1. Answered(d, "deleteEvent")
  BY DEF OnDeleteEvent
<1>2. CASE Head(mainQ[d]).ok /\ Head(mainQ[d]).op.user = None
  <2>1. Stop(d, "trap in deleteEvent")
    BY <1>2 DEF OnDeleteEvent, Trap
  <2>2. QED BY <2>1, StopKeepsShape DEF Traps
<1>3. CASE Head(mainQ[d]).ok /\ Head(mainQ[d]).op.user # None
  <2>1. Head(mainQ[d]).op.user \in Users
    BY <1>1, <1>3, HeadIsAnswer DEF GoodRequests, Requests
  <2>2. /\ Continue(d, "deleteIndex") /\ Handled(d)
        /\ UNCHANGED <<dbVars, online, answers, histVars, appVars>>
    BY <1>3 DEF OnDeleteEvent
  <2>3. QED BY <1>1, <2>1, <2>2, ContinueKeepsShape
<1>4. CASE ~ Head(mainQ[d]).ok
  <2>1. /\ UNCHANGED outbox /\ Handled(d)
        /\ UNCHANGED <<dbVars, online, answers, histVars, appVars>>
    BY <1>4 DEF OnDeleteEvent
  <2>2. /\ mainQ' = [mainQ EXCEPT ![d] = Tail(@)]
        /\ UNCHANGED <<dbVars, netVars, histVars, sessionVars, stack, alert, built, usedIds>>
    BY <2>1 DEF Handled, netVars, appVars, screenVars, budgetVars
  <2>3. built' \in [Devices -> Nat] /\ alert' \in [Devices -> Nat]
    BY <2>2 DEF Shape, Types
  <2>4. QED BY <1>1, <2>2, <2>3, HeadIsAnswer, HeadIsTask, QueueKeepsShape
<1>5. QED BY <1>2, <1>3, <1>4

(* Where a screen is in the stack: there, or nowhere.                      *)
LEMMA PositionIs ==
    ASSUME Shape, NEW d \in Devices, NEW no
    PROVE  /\ Position(d, no) = 0 <=> \A i \in DOMAIN stack[d] : stack[d][i].no # no
           /\ Position(d, no) # 0 => /\ Position(d, no) \in DOMAIN stack[d]
                                     /\ stack[d][Position(d, no)].no = no
           /\ 0 \notin DOMAIN stack[d]
<1>1. DOMAIN stack[d] = 1 .. Len(stack[d]) /\ Len(stack[d]) \in Nat
  BY DEF Shape, Types
<1>2. CASE \E i \in DOMAIN stack[d] : stack[d][i].no = no
  <2>1. Position(d, no) = CHOOSE i \in DOMAIN stack[d] : stack[d][i].no = no
    BY <1>2 DEF Position
  <2>2. Position(d, no) \in DOMAIN stack[d] /\ stack[d][Position(d, no)].no = no
    BY <1>2, <2>1
  <2>3. QED BY <1>1, <1>2, <2>2
<1>3. CASE ~ \E i \in DOMAIN stack[d] : stack[d][i].no = no
  BY <1>1, <1>3 DEF Position
<1>4. QED BY <1>2, <1>3

(* The load of one screen is set, if the screen is still there.            *)
LEMMA SetLoadSets ==
    ASSUME Shape, NEW d \in Devices, NEW no, NEW l, SetLoad(d, no, l),
           Position(d, no) # 0 => l \in AnyLoads
    PROVE  /\ stack' \in [Devices -> Seq(GoodScreens)]
           /\ \A e \in Devices \ {d} : stack'[e] = stack[e]
           /\ Len(stack'[d]) = Len(stack[d]) /\ DOMAIN stack'[d] = DOMAIN stack[d]
           /\ \A i \in DOMAIN stack[d] :
                 stack'[d][i] = IF i = Position(d, no) THEN [stack[d][i] EXCEPT !.load = l]
                                ELSE stack[d][i]
           /\ \A e \in Devices : stack'[e] = << >> <=> stack[e] = << >>
<1>1. stack[d] \in Seq(GoodScreens) /\ stack \in [Devices -> Seq(GoodScreens)]
  BY DEF Shape, Types
<1> DEFINE p == Position(d, no)
           s == [stack[d] EXCEPT ![p] = [stack[d][p] EXCEPT !.load = l]]
<1>2. stack' = [stack EXCEPT ![d] = s]
  BY DEF SetLoad
<1>3. p # 0 => p \in DOMAIN stack[d] /\ [stack[d][p] EXCEPT !.load = l] \in GoodScreens
  <2>1. SUFFICES ASSUME p # 0
                 PROVE  p \in DOMAIN stack[d] /\ [stack[d][p] EXCEPT !.load = l] \in GoodScreens
    OBVIOUS
  <2>2. p \in DOMAIN stack[d]
    BY <2>1, PositionIs
  <2>3. stack[d][p] \in GoodScreens /\ l \in AnyLoads
    BY <1>1, <2>1, <2>2
  <2>4. QED BY <2>2, <2>3 DEF GoodScreens, AnyScreens
<1>4. p = 0 => p \notin DOMAIN stack[d]
  BY PositionIs
<1> HIDE DEF p
<1>5. /\ s \in Seq(GoodScreens) /\ Len(s) = Len(stack[d]) /\ DOMAIN s = DOMAIN stack[d]
      /\ \A i \in DOMAIN stack[d] :
            s[i] = IF i = p THEN [stack[d][i] EXCEPT !.load = l] ELSE stack[d][i]
  <2>1. CASE p = 0
    <3>1. s = stack[d]
      BY <1>1, <1>4, <2>1
    <3>2. QED BY <1>1, <1>4, <2>1, <3>1
  <2>2. CASE p # 0
    BY <1>1, <1>3, <2>2, ExceptSeq
  <2>3. QED BY <2>1, <2>2
<1> HIDE DEF s
<1>6. s = << >> <=> stack[d] = << >>
  BY <1>1, <1>5, EmptySeq
<1>7. stack'[d] = s /\ \A e \in Devices \ {d} : stack'[e] = stack[e]
  BY <1>1, <1>2
<1>8. stack' \in [Devices -> Seq(GoodScreens)]
  BY <1>1, <1>2, <1>5
<1>9. QED BY <1>5, <1>6, <1>7, <1>8 DEF p

(* The block of a router pushes its screen unless the source is gone; a    *)
(* pushed Home asks for its list, or traps on a missing account.           *)
LEMMA RunPushKeepsShape ==
    ASSUME Shape, NEW d \in Devices, RunPush(d)
    PROVE  Shape'
<1> DEFINE task == Head(mainQ[d])
<1>1. Handling(d, "push")
  BY DEF RunPush
<1>2. /\ status[d] = "up" /\ task \in [do : {"push"}, from : Nat, screen : NewScreens]
      /\ Tail(mainQ[d]) \in Seq(GoodTasks) /\ task.screen \in NewScreens
      /\ stack[d] \in Seq(GoodScreens)
  BY <1>1, HeadIsTask, TaskKinds
<1> HIDE DEF task
<1>3. mainQ' = [mainQ EXCEPT ![d] = Tail(@)] => mainQ' \in [Devices -> Seq(GoodTasks)]
  BY <1>2 DEF Shape, Types
<1>4. CASE Position(d, task.from) = 0
  <2>1. /\ mainQ' = [mainQ EXCEPT ![d] = Tail(@)]
        /\ UNCHANGED <<dbVars, netVars, histVars, sessionVars, stack, alert, built, usedIds>>
    BY <1>4 DEF RunPush, Handled, task, appVars, screenVars, budgetVars
  <2>2. built' \in [Devices -> Nat] /\ alert' \in [Devices -> Nat]
    BY <2>1 DEF Shape, Types
  <2>3. QED BY <1>2, <2>1, <2>2, QueueKeepsShape
<1>5. CASE Position(d, task.from) # 0 /\ task.screen.kind # "home"
  <2>1. /\ stack' = [stack EXCEPT ![d] = Append(@, task.screen)]
        /\ mainQ' = [mainQ EXCEPT ![d] = Tail(@)]
        /\ UNCHANGED <<dbVars, netVars, histVars, sessionVars, built, alert, budgetVars>>
    BY <1>5 DEF RunPush, Handled, task
  <2>2. stack' \in [Devices -> Seq(GoodScreens)]
    BY <1>2, <2>1 DEF NewScreens, Shape, Types
  <2>3. Types'
    BY <1>3, <2>1, <2>2 DEF dbVars, netVars, histVars, sessionVars, budgetVars, Shape, Types
  <2>4. stack'[d] # << >>
    <3>1. task.screen \in GoodScreens
      BY <1>2 DEF NewScreens
    <3>2. stack'[d] = Append(stack[d], task.screen)
      BY <2>1 DEF Shape, Types
    <3>3. QED BY <1>2, <3>1, <3>2, AppendProperties
  <2>5. Answering'
    BY <1>2, <2>1, <2>4 DEF netVars, sessionVars, Shape, Types, Answering
  <2>6. QED BY <2>3, <2>5 DEF Shape
<1>6. CASE Position(d, task.from) # 0 /\ task.screen.kind = "home" /\ user[d] = None
  <2>1. Stop(d, "trap in fetchEventsFromUsers")
    BY <1>6 DEF RunPush, Trap, task
  <2>2. QED BY <2>1, StopKeepsShape DEF Traps
<1>7. CASE Position(d, task.from) # 0 /\ task.screen.kind = "home" /\ user[d] # None
  <2> DEFINE op == ReadIndex(user[d], task.screen.no)
  <2>1. /\ stack' = [stack EXCEPT ![d] = Append(@, Loading(task.screen, user[d]))]
        /\ Send(d, op) /\ mainQ' = [mainQ EXCEPT ![d] = Tail(@)]
        /\ UNCHANGED <<dbVars, online, answers, histVars, sessionVars, built, alert, budgetVars>>
    BY <1>7 DEF RunPush, Handled, task
  <2>2. user[d] \in Users /\ task.screen \in GoodScreens /\ task.screen.no \in Nat
    BY <1>2, <1>7 DEF NewScreens, GoodScreens, AnyScreens, Shape, Types
  <2>3. op \in GoodRequests
    BY <2>2, RequestIsGood DEF ReadIndex, Reads
  <2>4. Loading(task.screen, user[d]) \in GoodScreens
    BY <2>2, LoadingIsScreen
  <2> HIDE DEF op
  <2>5. stack' \in [Devices -> Seq(GoodScreens)]
    BY <1>2, <2>1, <2>4 DEF Shape, Types
  <2>6. stack'[d] # << >> /\ \A e \in Devices \ {d} : stack'[e] = stack[e]
    BY <1>2, <2>1, <2>4 DEF Shape, Types
  <2>7. Types'
    BY <1>2, <1>3, <2>1, <2>3, <2>5, SendKeepsAnswering
       DEF dbVars, histVars, sessionVars, budgetVars, Shape, Types
  <2>8. Answering'
    BY <1>2, <2>1, <2>3, <2>6, SendKeepsAnswering DEF sessionVars, Shape, Types, Answering
  <2>9. QED BY <2>7, <2>8 DEF Shape
<1>8. QED BY <1>4, <1>5, <1>6, <1>7

(* The callback of one event's read tells the load, and nothing if its     *)
(* screen is gone.                                                         *)
LEMMA OnReadEventKeepsShape ==
    ASSUME Shape, NEW d \in Devices, OnReadEvent(d)
    PROVE  Shape'
<1> DEFINE task == Head(mainQ[d])
           id == task.op.id
           load == stack[d][Position(d, task.op.src)].load
<1>1. Answered(d, "readEvent") /\ Handled(d)
      /\ UNCHANGED <<dbVars, netVars, histVars, sessionVars, built, alert, budgetVars>>
  BY DEF OnReadEvent
<1>2. /\ Handling(d, "answer") /\ id \in Ids /\ task.text \in Texts \cup {None}
      /\ Tail(mainQ[d]) \in Seq(GoodTasks) /\ status[d] = "up"
  BY <1>1, HeadIsAnswer, HeadIsTask DEF GoodRequests
<1>3. PICK l : SetLoad(d, task.op.src, l) /\ (Position(d, task.op.src) # 0 => l \in AnyLoads)
  <2>1. Position(d, task.op.src) # 0 => load \in AnyLoads
    <3>1. SUFFICES ASSUME Position(d, task.op.src) # 0 PROVE load \in AnyLoads
      OBVIOUS
    <3>2. Position(d, task.op.src) \in DOMAIN stack[d] /\ stack[d] \in Seq(GoodScreens)
      BY <3>1, PositionIs DEF Shape, Types
    <3>3. QED BY <3>2 DEF GoodScreens, AnyScreens
  <2>2. CASE task.ok /\ task.text # None
    <3> DEFINE event == [id |-> id, text |-> task.text]
    <3>1. event \in EventModel
      BY <1>2, <2>2 DEF EventModel
    <3>2. SetLoad(d, task.op.src, EventFound(load, event))
      BY <2>2 DEF OnReadEvent
    <3> HIDE DEF event, load
    <3>3. QED BY <2>1, <3>1, <3>2, LoadsStayLoads
  <2>3. CASE ~ (task.ok /\ task.text # None)
    <3>1. SetLoad(d, task.op.src, EventFailed(load, id))
      BY <2>3 DEF OnReadEvent
    <3> HIDE DEF load, id
    <3>2. QED BY <1>2, <2>1, <3>1, LoadsStayLoads
  <2>4. QED BY <2>2, <2>3
<1>4. /\ stack' \in [Devices -> Seq(GoodScreens)]
      /\ \A e \in Devices : stack'[e] = << >> <=> stack[e] = << >>
  BY <1>3, SetLoadSets
<1>5. mainQ' = [mainQ EXCEPT ![d] = Tail(@)] /\ mainQ' \in [Devices -> Seq(GoodTasks)]
  BY <1>1, <1>2 DEF Handled, Shape, Types
<1>6. Types'
  BY <1>1, <1>4, <1>5 DEF dbVars, netVars, histVars, sessionVars, budgetVars, Shape, Types
<1>7. Answering'
  BY <1>1, <1>2, <1>4, <1>5 DEF netVars, sessionVars, Shape, Types, Answering
<1>8. QED BY <1>6, <1>7 DEF Shape

(* The block of the dispatch group ends a load and shows its events.       *)
LEMMA NotifyKeepsShape ==
    ASSUME Shape, NEW d \in Devices, Notify(d)
    PROVE  Shape'
<1>1. PICK i \in DOMAIN stack[d] :
         stack' = [stack EXCEPT ![d][i].load = GroupNotify(@),
                                ![d][i].rows = EventsIn(stack[d][i].load.eventS)]
  BY DEF Notify
<1>2. stack[d] \in Seq(GoodScreens) /\ i \in 1 .. Len(stack[d]) /\ stack[d][i] \in GoodScreens
  BY DEF Shape, Types
<1> DEFINE l == GroupNotify(stack[d][i].load)
           r == EventsIn(stack[d][i].load.eventS)
           s == [stack[d] EXCEPT ![i] = [stack[d][i] EXCEPT !.load = l, !.rows = r]]
<1>3. stack[d][i].load \in AnyLoads /\ stack[d][i].load.eventS \in Seq(EventModel)
  BY <1>2 DEF GoodScreens, AnyScreens, AnyLoads
<1>4. l \in AnyLoads /\ r \in SUBSET EventModel
  BY <1>3, LoadsStayLoads DEF EventsIn
<1>5. stack' = [stack EXCEPT ![d] = s]
  BY <1>1
<1> HIDE DEF l, r
<1>6. [stack[d][i] EXCEPT !.load = l, !.rows = r] \in GoodScreens
  BY <1>2, <1>4 DEF GoodScreens, AnyScreens
<1>7. s \in Seq(GoodScreens) /\ Len(s) = Len(stack[d])
  BY <1>2, <1>6, ExceptSeq
<1> HIDE DEF s
<1>8. s # << >> /\ stack[d] # << >>
  BY <1>2, <1>7, EmptySeq
<1>9. stack' \in [Devices -> Seq(GoodScreens)]
      /\ \A e \in Devices : stack'[e] = << >> <=> stack[e] = << >>
  BY <1>5, <1>7, <1>8 DEF Shape, Types
<1>10. UNCHANGED <<dbVars, netVars, mainQ, histVars, sessionVars, built, alert, budgetVars>>
  BY DEF Notify
<1>11. Types'
  BY <1>9, <1>10 DEF dbVars, netVars, histVars, sessionVars, budgetVars, Shape, Types
<1>12. Answering'
  BY <1>9, <1>10 DEF netVars, sessionVars, Shape, Types, Answering
<1>13. QED BY <1>11, <1>12 DEF Shape

(* A function on an initial segment of the positive naturals is a          *)
(* sequence.                                                               *)
LEMMA FunctionIsSeq ==
    ASSUME NEW S, NEW n \in Nat, NEW f \in [1..n -> S]
    PROVE  f \in Seq(S) /\ Len(f) = n
OBVIOUS

(* SetToSeq lists a set of keys, each of them once.                        *)
LEMMA KeysInSequence ==
    ASSUME NEW keys \in SUBSET Ids
    PROVE  /\ SetToSeq(keys) \in Seq(keys) /\ DOMAIN SetToSeq(keys) = 1 .. Len(SetToSeq(keys))
           /\ \A i, j \in DOMAIN SetToSeq(keys) : SetToSeq(keys)[i] = SetToSeq(keys)[j] => i = j
           /\ \A id \in keys : \E i \in DOMAIN SetToSeq(keys) : SetToSeq(keys)[i] = id
<1>1. IsFiniteSet(keys)
  BY IdsAreFinite, FS_Subset
<1> DEFINE n == Cardinality(keys)
           s == SetToSeq(keys)
<1>2. n \in Nat
  BY <1>1, FS_CardinalityType
<1>3. \E f \in [1..n -> keys] : IsInjective(f)
  <2>1. ExistsBijection(1..n, keys)
    BY <1>1, FS_CardinalityType
  <2>2. PICK f : f \in Bijection(1..n, keys)
    BY <2>1 DEF ExistsBijection
  <2>3. QED BY <2>2 DEF Bijection, Injection
<1>4. s \in [1..n -> keys] /\ IsInjective(s)
  BY <1>3 DEF SetToSeq
<1> HIDE DEF s
<1>5. s \in Surjection(1..n, keys)
  <2>1. s \in Injection(1..n, keys)
    BY <1>4 DEF Injection
  <2>2. Cardinality(1..n) = n
    BY <1>2, FS_Interval
  <2>3. QED BY <1>1, <2>1, <2>2, FS_Injection
<1>6. s \in Seq(keys) /\ DOMAIN s = 1 .. Len(s)
  BY <1>2, <1>4
<1>7. QED BY <1>4, <1>5, <1>6 DEF s, Surjection, IsInjective

(* The write a local answer is read from is the last one under way.        *)
LEMMA LastPendingWrite ==
    ASSUME Shape, NEW d \in Devices, NEW id, PendingWrites(d, id) # {}
    PROVE  /\ Max(PendingWrites(d, id)) \in PendingWrites(d, id)
           /\ \A i \in PendingWrites(d, id) : i <= Max(PendingWrites(d, id))
<1> DEFINE P == PendingWrites(d, id)
           n == Len(outbox[d])
           T == {k \in Nat : n - k \in P}
<1>1. n \in Nat /\ P \subseteq 1..n
  BY DEF PendingWrites, Shape, Types
<1>2. PICK i \in P : TRUE
  OBVIOUS
<1> HIDE DEF P, n
<1>3. n - i \in T
  BY <1>1, <1>2
<1>4. PICK k \in T : \A m \in T : k <= m
  <2>1. T \subseteq Nat /\ T # {}
    BY <1>3
  <2> HIDE DEF T
  <2>2. QED BY <2>1, LeastElement
<1>5. n - k \in P /\ \A j \in P : j <= n - k
  <2>1. n - k \in P /\ k \in Nat
    OBVIOUS
  <2>2. ASSUME NEW j \in P PROVE j <= n - k
    <3>1. n - j \in T
      BY <1>1
    <3>2. k <= n - j
      BY <1>4, <3>1
    <3>3. QED BY <1>1, <2>1, <3>2
  <2>3. QED BY <2>1, <2>2
<1>6. Max(P) \in P /\ \A j \in P : j <= Max(P)
  <2>1. \E x \in P : \A y \in P : x >= y
    BY <1>1, <1>5
  <2>2. Max(P) \in P /\ \A y \in P : Max(P) >= y
    BY <2>1 DEF Max
  <2>3. QED BY <1>1, <2>2
<1>7. QED BY <1>6 DEF P

(* The answer a pending write gives has the text of that write.            *)
LEMMA LocalAnswerIsGood ==
    ASSUME Shape, NEW d \in Devices, NEW op \in GoodRequests, PendingWrites(d, op.id) # {}
    PROVE  LocalAnswer(d, op) \in GoodAnswers
<1> DEFINE i == Max(PendingWrites(d, op.id))
<1>1. i \in DOMAIN outbox[d]
  <2>1. PendingWrites(d, op.id) \subseteq DOMAIN outbox[d]
    BY DEF PendingWrites
  <2>2. i \in PendingWrites(d, op.id)
    BY LastPendingWrite
  <2>3. QED BY <2>1, <2>2
<1>2. outbox[d][i].text \in Texts \cup {None}
  <2>1. outbox[d][i] \in GoodRequests
    <3> HIDE DEF i
    <3>1. QED BY <1>1 DEF Shape, Types
  <2> HIDE DEF i
  <2>2. QED BY <2>1 DEF GoodRequests, Requests
<1> HIDE DEF i
<1>3. QED BY <1>2, AnswerIsGood DEF LocalAnswer, i

(* The callback of the list's read, with its parts named: one read for     *)
(* each key of the answer, sent, or answered from a pending write.         *)
LEMMA OnReadIndexShape ==
    ASSUME Shape, NEW d \in Devices, OnReadIndex(d)
    PROVE  LET task == Head(mainQ[d])
               no == task.op.src
               ReadEvent(id) == Request("readEvent", None, id, None, no)
               local == {id \in task.keys : PendingWrites(d, id) # {}}
               remote == SetToSeq(task.keys \ local)
               known == SetToSeq(local)
               sent == [i \in DOMAIN remote |-> ReadEvent(remote[i])]
               found == [i \in DOMAIN known |-> LocalAnswer(d, ReadEvent(known[i]))]
           IN  /\ Answered(d, "readIndex") /\ Handling(d, "answer")
               /\ sent \in Seq(GoodRequests) /\ found \in Seq(GoodAnswers)
               /\ outbox' = [outbox EXCEPT ![d] = @ \o sent]
               /\ mainQ' = [mainQ EXCEPT ![d] = Tail(@) \o found]
               /\ UNCHANGED <<dbVars, online, answers, histVars, sessionVars, built, alert, budgetVars>>
<1> DEFINE task == Head(mainQ[d])
           no == task.op.src
           ReadEvent(id) == Request("readEvent", None, id, None, no)
           local == {id \in task.keys : PendingWrites(d, id) # {}}
           remote == SetToSeq(task.keys \ local)
           known == SetToSeq(local)
           sent == [i \in DOMAIN remote |-> ReadEvent(remote[i])]
           found == [i \in DOMAIN known |-> LocalAnswer(d, ReadEvent(known[i]))]
<1>1. /\ Answered(d, "readIndex") /\ outbox' = [outbox EXCEPT ![d] = @ \o sent]
      /\ mainQ' = [mainQ EXCEPT ![d] = Tail(@) \o found]
      /\ UNCHANGED <<dbVars, online, answers, histVars, sessionVars, built, alert, budgetVars>>
  BY DEF OnReadIndex
<1>2. Handling(d, "answer") /\ task.keys \in SUBSET Ids /\ no \in Nat
  BY <1>1, HeadIsAnswer DEF GoodRequests, Requests
<1> HIDE DEF no
<1>3. \A id \in Ids : ReadEvent(id) \in GoodRequests /\ ReadEvent(id).id = id
  <2>1. ASSUME NEW id \in Ids PROVE ReadEvent(id) \in GoodRequests
    BY <1>2, RequestIsGood DEF Reads
  <2>2. QED BY <2>1 DEF Request
<1> HIDE DEF ReadEvent, task
<1>4. local \in SUBSET Ids /\ task.keys \ local \in SUBSET Ids
  BY <1>2
<1>5. sent \in Seq(GoodRequests)
  <2>1. remote \in Seq(task.keys \ local) /\ DOMAIN remote = 1 .. Len(remote)
    BY <1>4, KeysInSequence
  <2>2. Len(remote) \in Nat /\ \A i \in 1 .. Len(remote) : ReadEvent(remote[i]) \in GoodRequests
    <3> HIDE DEF remote
    <3>1. Len(remote) \in Nat /\ \A i \in 1 .. Len(remote) : remote[i] \in Ids
      BY <1>4, <2>1
    <3>2. QED BY <1>3, <3>1
  <2>3. sent \in [1 .. Len(remote) -> GoodRequests]
    <3> HIDE DEF remote
    <3>1. QED BY <2>1, <2>2
  <2> HIDE DEF sent, remote
  <2>4. QED BY <2>2, <2>3, FunctionIsSeq
<1>6. found \in Seq(GoodAnswers)
  <2>1. known \in Seq(local) /\ DOMAIN known = 1 .. Len(known)
    BY <1>4, KeysInSequence
  <2>2. ASSUME NEW id \in local PROVE LocalAnswer(d, ReadEvent(id)) \in GoodAnswers
    BY <1>3, <1>4, LocalAnswerIsGood
  <2>3. Len(known) \in Nat
        /\ \A i \in 1 .. Len(known) : LocalAnswer(d, ReadEvent(known[i])) \in GoodAnswers
    <3> HIDE DEF known, local
    <3>1. Len(known) \in Nat /\ \A i \in 1 .. Len(known) : known[i] \in local
      BY <2>1
    <3>2. QED BY <2>2, <3>1
  <2>4. found \in [1 .. Len(known) -> GoodAnswers]
    <3> HIDE DEF known
    <3>1. QED BY <2>1, <2>3
  <2> HIDE DEF found, known
  <2>5. QED BY <2>3, <2>4, FunctionIsSeq
<1>7. QED BY <1>1, <1>2, <1>5, <1>6 DEF task, no, ReadEvent

(* It leaves well-formed requests, answers and loads.                      *)
LEMMA OnReadIndexKeepsShape ==
    ASSUME Shape, NEW d \in Devices, OnReadIndex(d)
    PROVE  Shape'
<1> DEFINE task == Head(mainQ[d])
           no == task.op.src
           load == stack[d][Position(d, no)].load
<1>1. PICK sent \in Seq(GoodRequests), found \in Seq(GoodTasks) :
         /\ outbox' = [outbox EXCEPT ![d] = @ \o sent]
         /\ mainQ' = [mainQ EXCEPT ![d] = Tail(@) \o found]
  <2>1. Seq(GoodAnswers) \subseteq Seq(GoodTasks)
    BY SeqMonotonic DEF GoodTasks
  <2>2. QED BY <2>1, OnReadIndexShape
<1>2. /\ Answered(d, "readIndex") /\ Handling(d, "answer")
      /\ UNCHANGED <<dbVars, online, answers, histVars, sessionVars, built, alert, budgetVars>>
  BY OnReadIndexShape
<1>3. /\ status[d] = "up" /\ Tail(mainQ[d]) \in Seq(GoodTasks) /\ task.keys \in SUBSET Ids
      /\ outbox[d] \in Seq(GoodRequests) /\ answers[d] \in Seq(GoodAnswers)
  BY <1>2, HeadIsAnswer, HeadIsTask DEF Shape, Types
<1>4. PICK l : SetLoad(d, no, l) /\ (Position(d, no) # 0 => l \in AnyLoads)
  <2>1. Position(d, no) # 0 => load \in AnyLoads
    <3>1. SUFFICES ASSUME Position(d, no) # 0 PROVE load \in AnyLoads
      OBVIOUS
    <3>2. Position(d, no) \in DOMAIN stack[d] /\ stack[d] \in Seq(GoodScreens)
      BY <3>1, PositionIs DEF Shape, Types
    <3>3. QED BY <3>2 DEF GoodScreens, AnyScreens
  <2>2. \/ SetLoad(d, no, IndexFailed(load)) \/ SetLoad(d, no, IndexIsNull(load))
        \/ SetLoad(d, no, IndexFound(load, task.keys))
    BY DEF OnReadIndex
  <2> HIDE DEF load, no
  <2>3. QED BY <1>3, <2>1, <2>2, LoadsStayLoads
<1>5. /\ stack' \in [Devices -> Seq(GoodScreens)]
      /\ \A e \in Devices : stack'[e] = << >> <=> stack[e] = << >>
  BY <1>4, SetLoadSets
<1>6. /\ mainQ' \in [Devices -> Seq(GoodTasks)] /\ outbox' \in [Devices -> Seq(GoodRequests)]
  BY <1>1, <1>3 DEF Shape, Types
<1>7. Types'
  BY <1>2, <1>5, <1>6 DEF dbVars, histVars, sessionVars, budgetVars, Shape, Types
<1>8. /\ Len(answers'[d]) <= Len(outbox'[d])
      /\ \A i \in 1..Len(answers'[d]) : answers'[d][i].op = outbox'[d][i]
  <2>1. answers' = answers /\ outbox'[d] = outbox[d] \o sent
    BY <1>1, <1>2 DEF Shape, Types
  <2>2. Len(answers[d]) \in Nat /\ Len(outbox[d]) \in Nat /\ Len(sent) \in Nat
    BY <1>3
  <2>3. /\ Len(outbox'[d]) = Len(outbox[d]) + Len(sent)
        /\ \A i \in 1 .. Len(outbox[d]) : outbox'[d][i] = outbox[d][i]
    BY <1>3, <2>1, <2>2, ConcatProperties
  <2>4. QED BY <2>1, <2>2, <2>3 DEF Shape, Answering
<1>9. \A e \in Devices \ {d} : mainQ'[e] = mainQ[e] /\ outbox'[e] = outbox[e]
  BY <1>1 DEF Shape, Types
<1>10. Answering'
  <2>1. UNCHANGED <<online, answers, status, signIns, alert>>
    BY <1>2 DEF sessionVars
  <2>2. /\ ~ online'[d] => answers'[d] = << >>
        /\ status'[d] = "up" /\ stack'[d] # << >>
    BY <1>3, <1>5, <2>1 DEF Shape, Answering
  <2>3. stack' \in [Devices -> Seq(GoodScreens)]
        /\ \A e \in Devices \ {d} : stack'[e] = << >> <=> stack[e] = << >>
    BY <1>5
  <2>4. ASSUME NEW e \in Devices, e # d
        PROVE  /\ Len(answers'[e]) <= Len(outbox'[e])
               /\ \A i \in 1..Len(answers'[e]) : answers'[e][i].op = outbox'[e][i]
               /\ ~ online'[e] => answers'[e] = << >>
               /\ status'[e] = "up" => stack'[e] # << >>
               /\ status'[e] # "up" => /\ outbox'[e] = << >> /\ answers'[e] = << >>
                                      /\ mainQ'[e] = << >> /\ stack'[e] = << >>
                                      /\ signIns'[e] = {} /\ alert'[e] = 0
    <3>1. mainQ'[e] = mainQ[e] /\ outbox'[e] = outbox[e] /\ (stack'[e] = << >> <=> stack[e] = << >>)
      BY <1>9, <2>3, <2>4
    <3>2. QED BY <2>1, <3>1 DEF Shape, Answering
  <2>5. QED BY <1>8, <2>2, <2>4 DEF Answering
<1>11. QED BY <1>7, <1>10 DEF Shape

(* The request the server handles next is the first without an answer.     *)
LEMMA UnprocessedIs ==
    ASSUME Shape, NEW d \in Devices, Unprocessed(d)
    PROVE  /\ status[d] = "up" /\ online[d] = TRUE
           /\ outbox[d] \in Seq(GoodRequests) /\ answers[d] \in Seq(GoodAnswers)
           /\ Len(answers[d]) \in Nat /\ Len(outbox[d]) \in Nat
           /\ Len(answers[d]) + 1 \in 1 .. Len(outbox[d])
           /\ NextRequest(d) = outbox[d][Len(answers[d]) + 1]
           /\ NextRequest(d) \in GoodRequests
<1>1. /\ outbox[d] \in Seq(GoodRequests) /\ answers[d] \in Seq(GoodAnswers)
      /\ Len(answers[d]) \in Nat /\ Len(outbox[d]) \in Nat /\ online[d] = TRUE
  BY DEF Unprocessed, Shape, Types
<1>2. Len(answers[d]) + 1 \in 1 .. Len(outbox[d])
  BY <1>1 DEF Unprocessed
<1>3. NextRequest(d) = outbox[d][Len(answers[d]) + 1] /\ NextRequest(d) \in GoodRequests
  BY <1>1, <1>2 DEF NextRequest
<1>4. outbox[d] # << >>
  BY <1>1, <1>2, EmptySeq
<1>5. status[d] = "up"
  BY <1>4 DEF Shape, Answering
<1>6. QED BY <1>1, <1>2, <1>3, <1>5

(* The next answer joins the answers under way.                            *)
LEMMA ReplyKeepsShape ==
    ASSUME Shape, NEW d \in Devices, Unprocessed(d), NEW a \in GoodAnswers,
           a.op = NextRequest(d), answers' = [answers EXCEPT ![d] = Append(@, a)],
           index' \in [Users -> SUBSET Ids], events' \in [Ids -> Texts \cup {None}],
           revived' \subseteq Ids, torn' \subseteq Ids,
           UNCHANGED <<online, outbox, mainQ, forgotten, sessionVars, screenVars, usedIds>>
    PROVE  Shape'
<1>1. answers' \in [Devices -> Seq(GoodAnswers)]
  BY DEF Shape, Types
<1>2. Types'
  BY <1>1 DEF sessionVars, screenVars, Shape, Types
<1>3. /\ Len(answers'[d]) <= Len(outbox'[d])
      /\ \A i \in 1..Len(answers'[d]) : answers'[d][i].op = outbox'[d][i]
  <2>1. answers'[d] = Append(answers[d], a) /\ outbox' = outbox
    BY DEF Shape, Types
  <2>2. /\ Len(answers'[d]) = Len(answers[d]) + 1
        /\ \A i \in 1..Len(answers[d]) : answers'[d][i] = answers[d][i]
        /\ answers'[d][Len(answers[d]) + 1] = a
    BY <2>1, UnprocessedIs, AppendProperties
  <2>3. \A i \in 1..Len(answers[d]) : answers[d][i].op = outbox[d][i]
    BY DEF Shape, Answering
  <2>4. a.op = outbox[d][Len(answers[d]) + 1] /\ Len(answers[d]) + 1 <= Len(outbox[d])
        /\ Len(answers[d]) \in Nat
    <3>1. /\ Len(answers[d]) \in Nat /\ Len(answers[d]) + 1 \in 1 .. Len(outbox[d])
          /\ NextRequest(d) = outbox[d][Len(answers[d]) + 1] /\ Len(outbox[d]) \in Nat
      BY UnprocessedIs
    <3>2. QED BY <3>1
  <2>5. QED BY <2>1, <2>2, <2>3, <2>4
<1>4. \A e \in Devices \ {d} : answers'[e] = answers[e]
  BY DEF Shape, Types
<1>5. status[d] = "up" /\ online[d] = TRUE
  BY UnprocessedIs
<1>6. Answering'
  BY <1>3, <1>4, <1>5 DEF sessionVars, screenVars, Shape, Answering
<1>7. QED BY <1>2, <1>6 DEF Shape

(* A granted request changes the database and is answered in order.        *)
LEMMA ServerGrantsKeepsShape ==
    ASSUME Shape, NEW d \in Devices, ServerGrants(d), UNCHANGED appVars
    PROVE  Shape'
<1> DEFINE op == NextRequest(d)
<1>1. /\ Unprocessed(d) /\ index' = IndexAfter(op) /\ events' = EventsAfter(op)
      /\ answers' = [answers EXCEPT ![d] = Append(@, Granted(op))]
      /\ revived' = revived \cup (IF Revives(op) THEN {op.id} ELSE {})
      /\ UNCHANGED <<online, outbox, mainQ, forgotten, torn, sessionVars, screenVars, usedIds>>
  BY DEF ServerGrants, appVars, budgetVars
<1>2. op \in GoodRequests
  BY <1>1, UnprocessedIs
<1> HIDE DEF op
<1>3. Granted(op) \in GoodAnswers /\ Granted(op).op = op
  <2> DEFINE keys == IF op.kind = "readIndex" THEN index[op.user] ELSE {}
             text == IF op.kind = "readEvent" THEN events[op.id] ELSE None
  <2>1. keys \in SUBSET Ids /\ text \in Texts \cup {None}
    BY <1>2 DEF GoodRequests, Shape, Types
  <2>2. Granted(op) = Answer(op, TRUE, keys, text)
    BY DEF Granted
  <2>3. Answer(op, TRUE, keys, text).op = op
    BY DEF Answer
  <2> HIDE DEF keys, text
  <2>4. Answer(op, TRUE, keys, text) \in GoodAnswers
    BY <1>2, <2>1, AnswerIsGood
  <2>5. QED BY <2>2, <2>3, <2>4
<1>4. index' \in [Users -> SUBSET Ids]
  BY <1>1, <1>2 DEF IndexAfter, GoodRequests, Shape, Types
<1>5. events' \in [Ids -> Texts \cup {None}]
  BY <1>1, <1>2 DEF EventsAfter, GoodRequests, Requests, Shape, Types
<1>6. revived' \subseteq Ids
  BY <1>1, <1>2 DEF Revives, GoodRequests, Shape, Types
<1>7. torn' \subseteq Ids
  BY <1>1 DEF Shape, Types
<1>8. QED BY <1>1, <1>3, <1>4, <1>5, <1>6, <1>7, ReplyKeepsShape DEF op

(* A refused request is answered in order and changes nothing.             *)
LEMMA ServerRefusesKeepsShape ==
    ASSUME Shape, NEW d \in Devices, ServerRefuses(d), UNCHANGED appVars
    PROVE  Shape'
<1> DEFINE op == NextRequest(d)
<1>1. /\ Unprocessed(d) /\ UNCHANGED <<index, events, revived>>
      /\ answers' = [answers EXCEPT ![d] = Append(@, Refused(op))]
      /\ torn' = torn \cup (IF Cuts(op) THEN {op.id} ELSE {})
      /\ UNCHANGED <<online, outbox, mainQ, forgotten, sessionVars, screenVars, usedIds>>
  BY DEF ServerRefuses, dbVars, appVars, budgetVars
<1>2. op \in GoodRequests
  BY <1>1, UnprocessedIs
<1> HIDE DEF op
<1>3. Refused(op) \in GoodAnswers /\ Refused(op).op = op
  BY <1>2, AnswerIsGood DEF Refused, Answer
<1>4. torn' \subseteq Ids
  BY <1>1, <1>2 DEF Cuts, GoodRequests, Shape, Types
<1>5. QED BY <1>1, <1>3, <1>4, ReplyKeepsShape DEF op, Shape, Types

(* The first answer meets the first request and becomes a block.           *)
LEMMA ReceiveKeepsShape ==
    ASSUME Shape, NEW d \in Devices, Receive(d), UNCHANGED appVars
    PROVE  Shape'
<1>1. /\ answers[d] # << >> /\ outbox' = [outbox EXCEPT ![d] = Tail(@)]
      /\ answers' = [answers EXCEPT ![d] = Tail(@)]
      /\ mainQ' = [mainQ EXCEPT ![d] = Append(@, Head(answers[d]))]
      /\ UNCHANGED <<dbVars, online, histVars>>
  BY DEF Receive
<1>2. /\ answers[d] \in Seq(GoodAnswers) /\ outbox[d] \in Seq(GoodRequests)
      /\ mainQ[d] \in Seq(GoodTasks) /\ Len(answers[d]) \in Nat \ {0}
  BY <1>1, EmptySeq DEF Shape, Types
<1>3. Len(outbox[d]) \in Nat \ {0} /\ outbox[d] # << >>
  BY <1>2, EmptySeq DEF Shape, Answering
<1>4. /\ Head(answers[d]) \in GoodTasks /\ Tail(answers[d]) \in Seq(GoodAnswers)
      /\ Len(Tail(answers[d])) = Len(answers[d]) - 1
      /\ \A i \in 1 .. Len(answers[d]) - 1 : Tail(answers[d])[i] = answers[d][i + 1]
  BY <1>1, <1>2, HeadTailProperties DEF GoodTasks
<1>5. /\ Tail(outbox[d]) \in Seq(GoodRequests) /\ Len(Tail(outbox[d])) = Len(outbox[d]) - 1
      /\ \A i \in 1 .. Len(outbox[d]) - 1 : Tail(outbox[d])[i] = outbox[d][i + 1]
  BY <1>2, <1>3, HeadTailProperties
<1>6. /\ outbox' \in [Devices -> Seq(GoodRequests)] /\ mainQ' \in [Devices -> Seq(GoodTasks)]
      /\ answers' \in [Devices -> Seq(GoodAnswers)]
  BY <1>1, <1>2, <1>4, <1>5 DEF Shape, Types
<1>7. Types'
  BY <1>1, <1>6 DEF dbVars, histVars, appVars, sessionVars, screenVars, budgetVars, Shape, Types
<1>8. answers'[d] = Tail(answers[d]) /\ outbox'[d] = Tail(outbox[d])
  BY <1>1 DEF Shape, Types
<1>9. /\ Len(answers'[d]) <= Len(outbox'[d])
      /\ \A i \in 1..Len(answers'[d]) : answers'[d][i].op = outbox'[d][i]
  <2>1. Len(answers[d]) <= Len(outbox[d])
        /\ \A i \in 1..Len(answers[d]) : answers[d][i].op = outbox[d][i]
    BY DEF Shape, Answering
  <2>2. \A i \in 1 .. Len(answers[d]) - 1 : i + 1 \in 1..Len(answers[d]) /\ i \in 1 .. Len(outbox[d]) - 1
    BY <1>2, <1>3, <2>1
  <2>3. QED BY <1>2, <1>3, <1>4, <1>5, <1>8, <2>1, <2>2
<1>10. status[d] = "up" /\ online[d]
  BY <1>1 DEF Shape, Answering
<1>11. \A e \in Devices \ {d} : /\ answers'[e] = answers[e] /\ outbox'[e] = outbox[e]
                               /\ mainQ'[e] = mainQ[e]
  BY <1>1 DEF Shape, Types
<1>12. UNCHANGED <<online, status, stack, signIns, alert>>
  BY <1>1 DEF appVars, sessionVars, screenVars
<1>13. Answering'
  BY <1>9, <1>10, <1>11, <1>12 DEF Shape, Answering
<1>14. QED BY <1>7, <1>13 DEF Shape

(* A lost connection, the reconnection and a timeout change what a device  *)
(* sends, and leave no answer under way.                                   *)
LEMMA OfflineKeepsShape ==
    ASSUME Shape, NEW d \in Devices, NEW requests \in Seq(GoodRequests), NEW tasks \in Seq(GoodTasks),
           outbox' = [outbox EXCEPT ![d] = requests],
           mainQ' = [mainQ EXCEPT ![d] = tasks],
           answers' = [answers EXCEPT ![d] = << >>],
           online' \in [Devices -> BOOLEAN], \A e \in Devices \ {d} : online'[e] = online[e],
           status[d] # "up" => requests = << >> /\ tasks = << >>,
           forgotten' \subseteq Devices \X Nat,
           UNCHANGED <<dbVars, revived, torn, sessionVars, screenVars, usedIds>>
    PROVE  Shape'
<1>1. << >> \in Seq(GoodAnswers) /\ Len(<< >>) = 0 /\ Len(requests) \in Nat
  BY EmptySeq
<1>2. Types'
  BY <1>1 DEF dbVars, sessionVars, screenVars, Shape, Types
<1>3. answers'[d] = << >> /\ outbox'[d] = requests /\ mainQ'[d] = tasks
  BY DEF Shape, Types
<1>4. \A e \in Devices \ {d} : /\ answers'[e] = answers[e] /\ outbox'[e] = outbox[e]
                              /\ mainQ'[e] = mainQ[e]
  BY DEF Shape, Types
<1>5. UNCHANGED <<status, stack, signIns, alert>>
  BY DEF sessionVars, screenVars
<1>6. ASSUME NEW e \in Devices
      PROVE  /\ Len(answers'[e]) <= Len(outbox'[e])
             /\ \A i \in 1..Len(answers'[e]) : answers'[e][i].op = outbox'[e][i]
             /\ ~ online'[e] => answers'[e] = << >>
             /\ status'[e] = "up" => stack'[e] # << >>
             /\ status'[e] # "up" => /\ outbox'[e] = << >> /\ answers'[e] = << >>
                                    /\ mainQ'[e] = << >> /\ stack'[e] = << >>
                                    /\ signIns'[e] = {} /\ alert'[e] = 0
  <2>1. CASE e = d
    BY <1>1, <1>3, <1>5, <2>1 DEF Shape, Answering
  <2>2. CASE e # d
    <3>1. online'[e] = online[e]
      BY <2>2
    <3>2. QED BY <1>4, <1>5, <2>2, <3>1 DEF Shape, Answering
  <2>3. QED BY <2>1, <2>2
<1>7. QED BY <1>2, <1>6 DEF Shape, Answering

(* What an empty outbox keeps.                                             *)
LEMMA OnlyOfNothing ==
    ASSUME NEW kinds
    PROVE  Only(<< >>, kinds) = << >>
<1>1. << >> \in Seq({})
  BY EmptySeq
<1>2. Only(<< >>, kinds) \in Seq({})
  BY <1>1, OnlyChooses
<1>3. QED BY <1>2, EmptySeq

(* A lost connection loses the answers and keeps the writes.               *)
LEMMA DisconnectKeepsShape ==
    ASSUME Shape, NEW d \in Devices, Disconnect(d), UNCHANGED appVars
    PROVE  Shape'
<1> DEFINE writing == Only(outbox[d], Writes)
           again == [i \in DOMAIN writing |-> [writing[i] EXCEPT !.redo = TRUE]]
<1>1. /\ online' = [online EXCEPT ![d] = FALSE] /\ answers' = [answers EXCEPT ![d] = << >>]
      /\ outbox' = [outbox EXCEPT ![d] = again]
      /\ forgotten' = forgotten \cup
             {<<d, op.src>> : op \in {o \in ToSet(outbox[d]) : IsRead(o)}}
      /\ UNCHANGED <<dbVars, mainQ, revived, torn, sessionVars, screenVars, usedIds>>
  BY DEF Disconnect, appVars, budgetVars
<1>2. outbox[d] \in Seq(GoodRequests) /\ mainQ[d] \in Seq(GoodTasks)
  BY DEF Shape, Types
<1>3. writing \in Seq(GoodRequests)
  BY <1>2, OnlyChooses
<1>4. again \in Seq(GoodRequests)
  <2> HIDE DEF writing
  <2>1. ASSUME NEW op \in GoodRequests PROVE [op EXCEPT !.redo = TRUE] \in GoodRequests
    BY DEF GoodRequests, Requests
  <2>2. Len(writing) \in Nat /\ DOMAIN writing = 1 .. Len(writing)
    BY <1>3
  <2>3. again \in [1 .. Len(writing) -> GoodRequests]
    BY <1>3, <2>1, <2>2
  <2> HIDE DEF again
  <2>4. QED BY <2>2, <2>3, FunctionIsSeq
<1>5. forgotten' \subseteq Devices \X Nat
  <2>1. \A o \in ToSet(outbox[d]) : o.src \in Nat
    BY <1>2 DEF ToSet, GoodRequests, Requests
  <2>2. QED BY <1>1, <2>1 DEF Shape, Types
<1>6. mainQ' = [mainQ EXCEPT ![d] = mainQ[d]]
  BY <1>1 DEF Shape, Types
<1>7. status[d] # "up" => again = << >> /\ mainQ[d] = << >>
  <2>1. SUFFICES ASSUME status[d] # "up" PROVE again = << >> /\ mainQ[d] = << >>
    OBVIOUS
  <2>2. outbox[d] = << >> /\ mainQ[d] = << >>
    BY <2>1 DEF Shape, Answering
  <2>3. writing = << >>
    BY <2>2, OnlyOfNothing
  <2>4. QED BY <2>2, <2>3
<1>8. online' \in [Devices -> BOOLEAN] /\ \A e \in Devices \ {d} : online'[e] = online[e]
  BY <1>1 DEF Shape, Types
<1> HIDE DEF again
<1>9. QED BY <1>1, <1>2, <1>4, <1>5, <1>6, <1>7, <1>8, OfflineKeepsShape

(* restoreState queues the writes and then the reads.                      *)
LEMMA ReconnectKeepsShape ==
    ASSUME Shape, NEW d \in Devices, Reconnect(d), UNCHANGED appVars
    PROVE  Shape'
<1> DEFINE again == Only(outbox[d], Writes) \o Only(outbox[d], Reads)
<1>1. /\ ~ online[d] /\ online' = [online EXCEPT ![d] = TRUE]
      /\ outbox' = [outbox EXCEPT ![d] = again]
      /\ UNCHANGED <<dbVars, answers, mainQ, forgotten, revived, torn, sessionVars, screenVars, usedIds>>
  BY DEF Reconnect, histVars, appVars, budgetVars
<1>2. outbox[d] \in Seq(GoodRequests) /\ mainQ[d] \in Seq(GoodTasks) /\ answers[d] = << >>
  BY <1>1 DEF Shape, Types, Answering
<1>3. again \in Seq(GoodRequests)
  BY <1>2, OnlyChooses, ConcatProperties
<1>4. mainQ' = [mainQ EXCEPT ![d] = mainQ[d]] /\ answers' = [answers EXCEPT ![d] = << >>]
  BY <1>1, <1>2 DEF Shape, Types
<1>5. status[d] # "up" => again = << >> /\ mainQ[d] = << >>
  <2>1. SUFFICES ASSUME status[d] # "up" PROVE again = << >> /\ mainQ[d] = << >>
    OBVIOUS
  <2>2. outbox[d] = << >> /\ mainQ[d] = << >>
    BY <2>1 DEF Shape, Answering
  <2>3. Only(outbox[d], Writes) = << >> /\ Only(outbox[d], Reads) = << >>
    BY <2>2, OnlyOfNothing
  <2>4. QED BY <2>2, <2>3
<1>6. /\ online' \in [Devices -> BOOLEAN] /\ \A e \in Devices \ {d} : online'[e] = online[e]
      /\ forgotten' \subseteq Devices \X Nat
  BY <1>1 DEF Shape, Types
<1> HIDE DEF again
<1>7. QED BY <1>1, <1>2, <1>3, <1>4, <1>5, <1>6, OfflineKeepsShape

(* A sequence without one of its elements.                                 *)
LEMMA Removed ==
    ASSUME NEW S, NEW s \in Seq(S), NEW i \in 1 .. Len(s)
    PROVE  /\ RemoveAt(s, i) \in Seq(S) /\ Len(RemoveAt(s, i)) = Len(s) - 1
           /\ \A j \in 1 .. Len(s) - 1 : RemoveAt(s, i)[j] = IF j < i THEN s[j] ELSE s[j + 1]
<1> DEFINE n == Len(s)
           before == SubSeq(s, 1, i - 1)
           after == SubSeq(s, i + 1, n)
<1>1. n \in Nat /\ i \in 1..n
  OBVIOUS
<1>2. /\ before \in Seq(S) /\ Len(before) = i - 1
      /\ \A j \in 1 .. i - 1 : before[j] = s[j]
  <2>1. 1 \in Int /\ i - 1 \in Int /\ \A j \in 1 .. i - 1 : s[j] \in S
    BY <1>1
  <2>2. /\ before \in Seq(S) /\ Len(before) = IF 1 <= i - 1 THEN (i - 1) - 1 + 1 ELSE 0
        /\ \A j \in 1 .. (i - 1) - 1 + 1 : before[j] = s[1 + j - 1]
    BY <2>1, SubSeqProperties
  <2> HIDE DEF before
  <2>3. QED BY <1>1, <2>2
<1>3. /\ after \in Seq(S) /\ Len(after) = n - i
      /\ \A j \in 1 .. n - i : after[j] = s[i + j]
  <2>1. n \in Int /\ i + 1 \in Int /\ \A j \in i + 1 .. n : s[j] \in S
    BY <1>1
  <2>2. /\ after \in Seq(S) /\ Len(after) = IF i + 1 <= n THEN n - (i + 1) + 1 ELSE 0
        /\ \A j \in 1 .. n - (i + 1) + 1 : after[j] = s[(i + 1) + j - 1]
    BY <2>1, SubSeqProperties
  <2> HIDE DEF after
  <2>3. QED BY <1>1, <2>2
<1> HIDE DEF before, after
<1>4. RemoveAt(s, i) = before \o after
  BY DEF RemoveAt, before, after
<1>5. /\ before \o after \in Seq(S) /\ Len(before \o after) = n - 1
      /\ \A j \in 1 .. n - 1 : (before \o after)[j] = IF j <= i - 1 THEN before[j]
                                                      ELSE after[j - (i - 1)]
  <2>1. /\ before \o after \in Seq(S) /\ Len(before \o after) = Len(before) + Len(after)
        /\ \A j \in 1 .. Len(before) + Len(after) :
              (before \o after)[j] = IF j <= Len(before) THEN before[j] ELSE after[j - Len(before)]
    BY <1>2, <1>3, ConcatProperties
  <2>2. Len(before) + Len(after) = n - 1
    BY <1>1, <1>2, <1>3
  <2>3. QED BY <1>2, <2>1, <2>2
<1>6. ASSUME NEW j \in 1 .. n - 1
      PROVE  (before \o after)[j] = IF j < i THEN s[j] ELSE s[j + 1]
  <2>1. CASE j < i
    <3>1. j \in 1 .. i - 1 /\ j <= i - 1
      BY <1>1, <2>1
    <3>2. QED BY <1>2, <1>5, <2>1, <3>1
  <2>2. CASE ~ (j < i)
    <3>1. j - (i - 1) \in 1 .. n - i /\ i + (j - (i - 1)) = j + 1 /\ ~ (j <= i - 1)
      BY <1>1, <2>2
    <3>2. after[j - (i - 1)] = s[i + (j - (i - 1))]
      BY <1>3, <3>1
    <3>3. QED BY <1>5, <2>2, <3>1, <3>2
  <2>3. QED BY <2>1, <2>2
<1>7. QED BY <1>4, <1>5, <1>6

(* A read made without a connection is refused by the SDK.                 *)
LEMMA GetTimesOutKeepsShape ==
    ASSUME Shape, NEW d \in Devices, GetTimesOut(d), UNCHANGED appVars
    PROVE  Shape'
<1>1. /\ ~ online[d]
      /\ UNCHANGED <<dbVars, online, answers, forgotten, revived, torn, sessionVars, screenVars, usedIds>>
  BY DEF GetTimesOut, histVars, appVars, budgetVars
<1>2. PICK i \in DOMAIN outbox[d] :
          /\ outbox' = [outbox EXCEPT ![d] = RemoveAt(@, i)]
          /\ mainQ' = [mainQ EXCEPT ![d] = Append(@, Refused(outbox[d][i]))]
  BY DEF GetTimesOut
<1>3. /\ outbox[d] \in Seq(GoodRequests) /\ mainQ[d] \in Seq(GoodTasks) /\ i \in 1 .. Len(outbox[d])
      /\ answers[d] = << >> /\ outbox[d][i] \in GoodRequests
  BY <1>1 DEF Shape, Types, Answering
<1>4. Refused(outbox[d][i]) \in GoodTasks
  BY <1>3, AnswerIsGood DEF Refused, GoodTasks
<1>5. Append(mainQ[d], Refused(outbox[d][i])) \in Seq(GoodTasks) /\ RemoveAt(outbox[d], i) \in Seq(GoodRequests)
  BY <1>3, <1>4, Removed
<1>6. answers' = [answers EXCEPT ![d] = << >>]
  BY <1>1, <1>3 DEF Shape, Types
<1>7. status[d] = "up"
  <2>1. outbox[d] # << >>
    OBVIOUS
  <2>2. QED BY <2>1 DEF Shape, Answering
<1>8. /\ online' \in [Devices -> BOOLEAN] /\ \A e \in Devices \ {d} : online'[e] = online[e]
      /\ forgotten' \subseteq Devices \X Nat
  BY <1>1 DEF Shape, Types
<1>9. QED BY <1>1, <1>2, <1>5, <1>6, <1>7, <1>8, OfflineKeepsShape

(* The operation of one device that a step is.                             *)
StepOf(d) ==
    \/ Launch(d) \/ Kill(d)
    \/ DidTapAddEvent(d) \/ DidTapEdit(d) \/ DidTapLogOut(d) \/ DidConfirmLogOut(d)
    \/ DidCancelLogOut(d) \/ DidTapDelete(d) \/ DidTapSaveEvent(d) \/ DidTapUpdate(d)
    \/ DidTapBack(d) \/ DidTapLogIn(d) \/ SignInAnswered(d)
    \/ RunPush(d) \/ OnAlert(d) \/ OnSignedIn(d) \/ OnSaveIndex(d) \/ OnSaved(d)
    \/ OnDeleteEvent(d) \/ OnDeleteIndex(d) \/ OnReadIndex(d) \/ OnReadEvent(d)
    \/ Notify(d)
    \/ (ServerGrants(d) /\ UNCHANGED appVars) \/ (ServerRefuses(d) /\ UNCHANGED appVars)
    \/ (Receive(d) /\ UNCHANGED appVars) \/ (Disconnect(d) /\ UNCHANGED appVars)
    \/ (Reconnect(d) /\ UNCHANGED appVars) \/ (GetTimesOut(d) /\ UNCHANGED appVars)

(* Every step is one operation of one device: a tap, a block of its main   *)
(* queue, or something that happens to its requests.                       *)
LEMMA StepCases ==
    ASSUME Next
    PROVE  \E d \in Devices : StepOf(d)
BY DEF Next, App, Tap, RunMain, ClientNext, StepOf

(* So every step keeps the state well-formed.                              *)
LEMMA ShapeStep ==
    ASSUME Shape, [Next]_vars
    PROVE  Shape'
<1>1. CASE UNCHANGED vars
  BY <1>1 DEF vars, dbVars, netVars, histVars, appVars, sessionVars, screenVars, budgetVars,
              Shape, Types, Answering
<1>2. CASE Next
  <2>1. ASSUME NEW d \in Devices, Kill(d) PROVE Shape'
    BY <2>1, StopKeepsShape DEF Kill
  <2>2. QED
    BY <1>2, <2>1, StepCases, LaunchKeepsShape, DidTapAddEventKeepsShape, DidTapEditKeepsShape,
       DidTapLogOutKeepsShape, DidConfirmLogOutKeepsShape, DidCancelLogOutKeepsShape,
       DidTapDeleteKeepsShape, DidTapSaveEventKeepsShape, DidTapUpdateKeepsShape,
       DidTapBackKeepsShape, DidTapLogInKeepsShape, SignInAnsweredKeepsShape, RunPushKeepsShape,
       OnAlertKeepsShape, OnSignedInKeepsShape, OnSaveIndexKeepsShape, OnSavedKeepsShape,
       OnDeleteEventKeepsShape, OnDeleteIndexKeepsShape, OnReadIndexKeepsShape,
       OnReadEventKeepsShape, NotifyKeepsShape, ServerGrantsKeepsShape, ServerRefusesKeepsShape,
       ReceiveKeepsShape, DisconnectKeepsShape, ReconnectKeepsShape, GetTimesOutKeepsShape
    DEF StepOf
<1>3. QED BY <1>1, <1>2
-----------------------------------------------------------------------------
(***************************************************************************)
(* What the steps of the app change, said once for each of them, and the   *)
(* second part of the inductive invariant: Numbered.                       *)
(*                                                                         *)
(* Screens refer to each other by the number they were built with, where   *)
(* the code holds object references. Numbered says that this is sound: the *)
(* screens on the stack, the screens on their way to it and the screens    *)
(* still to be built have different numbers, and no read is under way for  *)
(* a screen that is not on the stack yet.                                  *)
(***************************************************************************)

\* Of a main queue: the answers it holds, the screens its blocks will push;
\* and with an outbox, the requests under way.
Handed(q) == {t \in ToSet(q) : t.do = "answer"}

Pushed(q) == {t.screen : t \in {x \in ToSet(q) : x.do = "push"}}

Ops(out, q) == ToSet(out) \cup {t.op : t \in Handed(q)}

(* The members of a sequence, of its tail, and of it with more appended.   *)
LEMMA MembersOfSeq ==
    ASSUME NEW S, NEW s \in Seq(S)
    PROVE  /\ ToSet(s) \subseteq S
           /\ \A x \in S : ToSet(Append(s, x)) = ToSet(s) \cup {x}
           /\ s # << >> => ToSet(s) = ToSet(Tail(s)) \cup {Head(s)}
           /\ \A t \in Seq(S) : ToSet(s \o t) = ToSet(s) \cup ToSet(t)
           /\ \A i \in 1 .. Len(s) : ToSet(s) = ToSet(RemoveAt(s, i)) \cup {s[i]}
<1>1. ToSet(s) \subseteq S
  BY DEF ToSet
<1>2. ASSUME NEW x \in S PROVE ToSet(Append(s, x)) = ToSet(s) \cup {x}
  <2>1. /\ DOMAIN Append(s, x) = 1 .. Len(s) + 1 /\ Append(s, x)[Len(s) + 1] = x
        /\ \A i \in 1 .. Len(s) : Append(s, x)[i] = s[i]
    BY AppendProperties
  <2>2. DOMAIN s = 1 .. Len(s) /\ Len(s) \in Nat
    OBVIOUS
  <2>3. QED BY <2>1, <2>2 DEF ToSet
<1>3. ASSUME s # << >> PROVE ToSet(s) = ToSet(Tail(s)) \cup {Head(s)}
  <2> DEFINE r == Tail(s)
  <2>1. Len(r) = Len(s) - 1 /\ r \in Seq(S) /\ \A i \in 1 .. Len(r) : r[i] = s[i + 1]
    BY <1>3, HeadTailProperties
  <2>2. /\ DOMAIN s = 1 .. Len(s) /\ Len(s) \in Nat \ {0} /\ Head(s) = s[1]
        /\ DOMAIN r = 1 .. Len(s) - 1
    BY <1>3, <2>1, EmptySeq
  <2> HIDE DEF r
  <2>3. ASSUME NEW i \in 1 .. Len(s), i # 1
        PROVE  i - 1 \in 1 .. Len(s) - 1 /\ s[i] = r[i - 1]
    <3>1. i - 1 \in 1 .. Len(r) /\ (i - 1) + 1 = i
      BY <2>1, <2>2, <2>3
    <3>2. r[i - 1] = s[(i - 1) + 1]
      BY <2>1, <3>1
    <3>3. QED BY <2>1, <3>1, <3>2
  <2>4. ToSet(s) \subseteq ToSet(r) \cup {Head(s)}
    BY <2>2, <2>3 DEF ToSet
  <2>5. \A i \in 1 .. Len(s) - 1 : i + 1 \in 1 .. Len(s) /\ r[i] = s[i + 1]
    BY <2>1, <2>2
  <2>6. 1 \in 1 .. Len(s)
    BY <2>2
  <2>7. ToSet(r) \cup {Head(s)} \subseteq ToSet(s)
    BY <2>2, <2>5, <2>6 DEF ToSet
  <2>8. QED BY <2>4, <2>7 DEF r
<1>4. ASSUME NEW t \in Seq(S) PROVE ToSet(s \o t) = ToSet(s) \cup ToSet(t)
  <2> DEFINE r == s \o t
  <2>1. /\ DOMAIN r = 1 .. Len(s) + Len(t)
        /\ \A i \in 1 .. Len(s) + Len(t) : r[i] = IF i <= Len(s) THEN s[i] ELSE t[i - Len(s)]
    BY ConcatProperties
  <2>2. Len(s) \in Nat /\ Len(t) \in Nat /\ DOMAIN s = 1 .. Len(s) /\ DOMAIN t = 1 .. Len(t)
    OBVIOUS
  <2> HIDE DEF r
  <2>3. \A i \in 1 .. Len(t) : i + Len(s) \in 1 .. Len(s) + Len(t) /\ r[i + Len(s)] = t[i]
    BY <2>1, <2>2
  <2>4. \A i \in 1 .. Len(s) : i \in 1 .. Len(s) + Len(t) /\ r[i] = s[i]
    BY <2>1, <2>2
  <2>5. ToSet(s) \cup ToSet(t) \subseteq ToSet(r)
    <3>1. ASSUME NEW x \in ToSet(t) PROVE x \in ToSet(r)
      <4>1. PICK i \in 1 .. Len(t) : x = t[i]
        BY <2>2 DEF ToSet
      <4>2. i + Len(s) \in DOMAIN r /\ x = r[i + Len(s)]
        BY <2>1, <2>3, <4>1
      <4>3. QED BY <4>2 DEF ToSet
    <3>2. ToSet(s) \subseteq ToSet(r)
      BY <2>1, <2>2, <2>4 DEF ToSet
    <3>3. QED BY <3>1, <3>2
  <2>6. \A i \in 1 .. Len(s) + Len(t) : i \in 1 .. Len(s) \/ i - Len(s) \in 1 .. Len(t)
    BY <2>2
  <2>7. ToSet(r) \subseteq ToSet(s) \cup ToSet(t)
    BY <2>1, <2>2, <2>6 DEF ToSet
  <2>8. QED BY <2>5, <2>7 DEF r
<1>5. ASSUME NEW i \in 1 .. Len(s) PROVE ToSet(s) = ToSet(RemoveAt(s, i)) \cup {s[i]}
  <2> DEFINE r == RemoveAt(s, i)
  <2>1. /\ r \in Seq(S) /\ Len(r) = Len(s) - 1
        /\ \A j \in 1 .. Len(s) - 1 : r[j] = IF j < i THEN s[j] ELSE s[j + 1]
    BY Removed
  <2>2. Len(s) \in Nat /\ DOMAIN s = 1 .. Len(s) /\ DOMAIN r = 1 .. Len(s) - 1
    BY <2>1
  <2> HIDE DEF r
  <2>3. \A j \in 1 .. Len(s) - 1 : r[j] = s[j] \/ r[j] = s[j + 1]
    BY <2>1
  <2>4. \A j \in 1 .. Len(s) - 1 : j \in 1 .. Len(s) /\ j + 1 \in 1 .. Len(s)
    BY <2>2
  <2>5. ToSet(r) \cup {s[i]} \subseteq ToSet(s)
    BY <2>2, <2>3, <2>4 DEF ToSet
  <2>6. \A j \in 1 .. Len(s) : \/ j = i
                               \/ j \in 1 .. Len(s) - 1 /\ r[j] = s[j]
                               \/ j - 1 \in 1 .. Len(s) - 1 /\ r[j - 1] = s[j]
    BY <2>1, <2>2
  <2>7. ToSet(s) \subseteq ToSet(r) \cup {s[i]}
    BY <2>2, <2>6 DEF ToSet
  <2>8. QED BY <2>5, <2>7 DEF r
<1>6. QED BY <1>1, <1>2, <1>3, <1>4, <1>5

(* A block is queued behind the others.                                    *)
LEMMA QueueGrows ==
    ASSUME NEW q \in Seq(GoodTasks), NEW t \in GoodTasks
    PROVE  /\ Handed(Append(q, t)) = IF t.do = "answer" THEN Handed(q) \cup {t} ELSE Handed(q)
           /\ Pushed(Append(q, t)) = IF t.do = "push" THEN Pushed(q) \cup {t.screen} ELSE Pushed(q)
<1>1. ToSet(Append(q, t)) = ToSet(q) \cup {t}
  BY MembersOfSeq
<1>2. QED BY <1>1 DEF Handed, Pushed

(* The block at the head has run.                                          *)
LEMMA QueueShrinks ==
    ASSUME NEW q \in Seq(GoodTasks), q # << >>
    PROVE  /\ Tail(q) \in Seq(GoodTasks)
           /\ Handed(q) = IF Head(q).do = "answer" THEN Handed(Tail(q)) \cup {Head(q)}
                                                   ELSE Handed(Tail(q))
           /\ Pushed(q) = IF Head(q).do = "push" THEN Pushed(Tail(q)) \cup {Head(q).screen}
                                                 ELSE Pushed(Tail(q))
<1>1. ToSet(q) = ToSet(Tail(q)) \cup {Head(q)}
  BY MembersOfSeq
<1>2. QED BY <1>1, HeadTailProperties DEF Handed, Pushed

(* Answers taken from pending writes are queued at once.                   *)
LEMMA QueueGrowsByAnswers ==
    ASSUME NEW q \in Seq(GoodTasks), NEW found \in Seq(GoodAnswers)
    PROVE  /\ Handed(q \o found) = Handed(q) \cup ToSet(found)
           /\ Pushed(q \o found) = Pushed(q)
<1>1. found \in Seq(GoodTasks)
  BY SeqMonotonic DEF GoodTasks
<1>2. ToSet(q \o found) = ToSet(q) \cup ToSet(found)
  BY <1>1, MembersOfSeq
<1>3. \A t \in ToSet(found) : t.do = "answer"
  BY MembersOfSeq DEF GoodAnswers, Answers
<1>4. QED BY <1>2, <1>3 DEF Handed, Pushed
-----------------------------------------------------------------------------
IsPush(t) == t.do = "push"

Nos(st, q, b, ops) ==
    /\ \A i \in DOMAIN st : st[i].no <= b
    /\ \A i, j \in DOMAIN st : st[i].no = st[j].no => i = j
    /\ \A i \in DOMAIN q : IsPush(q[i]) =>
          q[i].screen.no <= b /\ \A j \in DOMAIN st : st[j].no # q[i].screen.no
    /\ \A i, j \in DOMAIN q : IsPush(q[i]) /\ IsPush(q[j]) /\ q[i].screen.no = q[j].screen.no
                                  => i = j
    /\ \A op \in ops : IsRead(op) =>
          op.src <= b /\ \A i \in DOMAIN q : IsPush(q[i]) => q[i].screen.no # op.src

Numbered == \A d \in Devices : Nos(stack[d], mainQ[d], built[d], Outstanding(d))

(* The numbering is not disturbed by a request that is not a new read.     *)
LEMMA NosWithFewerReads ==
    ASSUME NEW st, NEW q, NEW b, NEW ops, NEW less, Nos(st, q, b, ops),
           \A op \in less : IsRead(op) => \E p \in ops : IsRead(p) /\ p.src = op.src
    PROVE  Nos(st, q, b, less)
BY DEF Nos

(* Nor by screens that are popped or whose load goes on.                   *)
LEMMA NosWithOtherScreens ==
    ASSUME NEW st, NEW q, NEW b, NEW ops, NEW less, Nos(st, q, b, ops),
           DOMAIN less \subseteq DOMAIN st, \A i \in DOMAIN less : less[i].no = st[i].no
    PROVE  Nos(less, q, b, ops)
<1>1. \A i \in DOMAIN less : i \in DOMAIN st /\ less[i].no = st[i].no
  OBVIOUS
<1>2. QED BY <1>1 DEF Nos

(* Nor by a block that has run.                                            *)
LEMMA NosOfTail ==
    ASSUME NEW st, NEW q \in Seq(GoodTasks), q # << >>, NEW b, NEW ops, Nos(st, q, b, ops)
    PROVE  Nos(st, Tail(q), b, ops)
<1> DEFINE r == Tail(q)
<1>1. /\ Len(r) = Len(q) - 1 /\ r \in Seq(GoodTasks)
      /\ \A i \in 1 .. Len(r) : r[i] = q[i + 1]
  BY HeadTailProperties
<1>2. DOMAIN q = 1 .. Len(q) /\ Len(q) \in Nat \ {0} /\ DOMAIN r = 1 .. Len(q) - 1
  BY <1>1, EmptySeq
<1> HIDE DEF r
<1>3. \A i \in DOMAIN r : i \in Nat /\ i + 1 \in DOMAIN q /\ r[i] = q[i + 1]
  BY <1>1, <1>2
<1>4. \A i, j \in DOMAIN r : i + 1 = j + 1 => i = j
  BY <1>3
<1>5. Nos(st, r, b, ops)
  BY <1>3, <1>4 DEF Nos
<1>6. QED BY <1>5 DEF r

(* Nor by a block that pushes nothing.                                     *)
LEMMA NosWithTask ==
    ASSUME NEW st, NEW q \in Seq(GoodTasks), NEW b, NEW ops, Nos(st, q, b, ops),
           NEW t \in GoodTasks, ~ IsPush(t)
    PROVE  Nos(st, Append(q, t), b, ops)
<1> DEFINE r == Append(q, t)
<1>1. /\ DOMAIN r = 1 .. Len(q) + 1 /\ r[Len(q) + 1] = t
      /\ \A i \in 1 .. Len(q) : r[i] = q[i]
  BY AppendProperties
<1>2. DOMAIN q = 1 .. Len(q) /\ Len(q) \in Nat
  OBVIOUS
<1> HIDE DEF r
<1>3. \A i \in DOMAIN r : IsPush(r[i]) => i \in DOMAIN q /\ r[i] = q[i]
  BY <1>1, <1>2
<1>4. Nos(st, r, b, ops)
  BY <1>3 DEF Nos
<1>5. QED BY <1>4 DEF r

(* A screen just built has the next number.                                *)
LEMMA NosWithPush ==
    ASSUME NEW st \in Seq(GoodScreens), NEW q \in Seq(GoodTasks), NEW b \in Nat,
           NEW ops \in SUBSET GoodRequests,
           Nos(st, q, b, ops), NEW t \in GoodTasks, IsPush(t), t.screen.no = b + 1
    PROVE  Nos(st, Append(q, t), b + 1, ops)
<1> DEFINE r == Append(q, t)
<1>1. /\ DOMAIN r = 1 .. Len(q) + 1 /\ r[Len(q) + 1] = t
      /\ \A i \in 1 .. Len(q) : r[i] = q[i]
  BY AppendProperties
<1>2. DOMAIN q = 1 .. Len(q) /\ Len(q) \in Nat
  OBVIOUS
<1> HIDE DEF r
<1>3. \A i \in DOMAIN r : (i \in DOMAIN q /\ r[i] = q[i]) \/ (i = Len(q) + 1 /\ r[i] = t)
  BY <1>1, <1>2
<1>4. \A i \in DOMAIN st : st[i].no \in Nat
  BY DEF GoodScreens, AnyScreens
<1>5. \A i \in DOMAIN q : IsPush(q[i]) => q[i].screen.no \in Nat
  BY TaskKinds DEF IsPush, NewScreens, GoodScreens, AnyScreens
<1>6. \A op \in ops : op.src \in Nat
  BY DEF GoodRequests, Requests
<1>7. /\ \A i \in DOMAIN st : st[i].no <= b + 1 /\ st[i].no # b + 1
      /\ \A i \in DOMAIN q : IsPush(q[i]) => q[i].screen.no <= b + 1 /\ q[i].screen.no # b + 1
      /\ \A op \in ops : IsRead(op) => op.src <= b + 1 /\ op.src # b + 1
  BY <1>4, <1>5, <1>6 DEF Nos
<1>8. /\ \A i, j \in DOMAIN st : st[i].no = st[j].no => i = j
      /\ \A i \in DOMAIN r : IsPush(r[i]) =>
            r[i].screen.no <= b + 1 /\ \A j \in DOMAIN st : st[j].no # r[i].screen.no
  BY <1>3, <1>7 DEF Nos
<1>9. ASSUME NEW i \in DOMAIN r, NEW j \in DOMAIN r, IsPush(r[i]), IsPush(r[j]),
             r[i].screen.no = r[j].screen.no
      PROVE  i = j
  BY <1>3, <1>7, <1>9 DEF Nos
<1>10. \A op \in ops : IsRead(op) =>
          op.src <= b + 1 /\ \A i \in DOMAIN r : IsPush(r[i]) => r[i].screen.no # op.src
  BY <1>3, <1>7 DEF Nos
<1>11. Nos(st, r, b + 1, ops)
  BY <1>7, <1>8, <1>9, <1>10 DEF Nos
<1>12. QED BY <1>11 DEF r

(* Answers push nothing.                                                   *)
LEMMA NosWithAnswers ==
    ASSUME NEW st, NEW q \in Seq(GoodTasks), NEW b, NEW ops, Nos(st, q, b, ops),
           NEW found \in Seq(GoodAnswers)
    PROVE  Nos(st, q \o found, b, ops)
<1> DEFINE r == q \o found
<1>1. found \in Seq(GoodTasks) /\ \A i \in 1 .. Len(found) : found[i].do = "answer"
  BY SeqMonotonic DEF GoodTasks, GoodAnswers, Answers
<1>2. /\ DOMAIN r = 1 .. Len(q) + Len(found)
      /\ \A i \in 1 .. Len(q) + Len(found) : r[i] = IF i <= Len(q) THEN q[i] ELSE found[i - Len(q)]
  BY <1>1, ConcatProperties
<1>3. DOMAIN q = 1 .. Len(q) /\ Len(q) \in Nat /\ Len(found) \in Nat
  OBVIOUS
<1> HIDE DEF r
<1>4. ASSUME NEW i \in DOMAIN r, IsPush(r[i]) PROVE i \in DOMAIN q /\ r[i] = q[i]
  <2>1. i <= Len(q) \/ i - Len(q) \in 1 .. Len(found)
    BY <1>2, <1>3
  <2>2. QED BY <1>1, <1>2, <1>3, <1>4, <2>1 DEF IsPush
<1>5. Nos(st, r, b, ops)
  BY <1>4 DEF Nos
<1>6. QED BY <1>5 DEF r

\* The push at the head of the queue is carried out.
(* A pushed screen brings its number to the stack; no other screen, block  *)
(* or read has it.                                                         *)
LEMMA NosOfPush ==
    ASSUME NEW st \in Seq(GoodScreens), NEW q \in Seq(GoodTasks), q # << >>, NEW b, NEW ops,
           Nos(st, q, b, ops), IsPush(Head(q)),
           NEW s \in GoodScreens, s.no = Head(q).screen.no
    PROVE  /\ Nos(Append(st, s), Tail(q), b, ops)
           /\ s.no <= b /\ \A i \in DOMAIN Tail(q) : IsPush(Tail(q)[i]) => Tail(q)[i].screen.no # s.no
           /\ \A op \in ops : IsRead(op) => op.src # s.no
<1> DEFINE r == Tail(q)
           n == Append(st, s)
<1>1. /\ Len(r) = Len(q) - 1 /\ r \in Seq(GoodTasks)
      /\ \A i \in 1 .. Len(r) : r[i] = q[i + 1]
  BY HeadTailProperties
<1>2. /\ DOMAIN q = 1 .. Len(q) /\ Len(q) \in Nat \ {0} /\ DOMAIN r = 1 .. Len(q) - 1
      /\ 1 \in DOMAIN q /\ Head(q) = q[1]
  BY <1>1, EmptySeq
<1>3. /\ DOMAIN n = 1 .. Len(st) + 1 /\ n[Len(st) + 1] = s
      /\ \A i \in 1 .. Len(st) : n[i] = st[i]
  BY AppendProperties
<1>4. DOMAIN st = 1 .. Len(st) /\ Len(st) \in Nat
  OBVIOUS
<1> HIDE DEF r, n
<1>5. \A i \in DOMAIN r : i + 1 \in DOMAIN q /\ r[i] = q[i + 1] /\ i + 1 # 1
  BY <1>1, <1>2
<1>6. \A i \in DOMAIN n : (i \in DOMAIN st /\ n[i] = st[i]) \/ (i = Len(st) + 1 /\ n[i] = s)
  BY <1>3, <1>4
<1>7. /\ s.no <= b /\ \A j \in DOMAIN st : st[j].no # s.no
      /\ \A op \in ops : IsRead(op) => op.src # s.no
  BY <1>2 DEF Nos
<1>8. \A i \in DOMAIN r : IsPush(r[i]) => r[i].screen.no # s.no
  BY <1>2, <1>5 DEF Nos
<1>9. Nos(st, r, b, ops)
  BY NosOfTail DEF r
<1>10. /\ \A i \in DOMAIN n : n[i].no <= b
       /\ \A i \in DOMAIN r : IsPush(r[i]) =>
             r[i].screen.no <= b /\ \A j \in DOMAIN n : n[j].no # r[i].screen.no
  BY <1>6, <1>7, <1>8, <1>9 DEF Nos
<1>11. ASSUME NEW i \in DOMAIN n, NEW j \in DOMAIN n, n[i].no = n[j].no PROVE i = j
  BY <1>6, <1>7, <1>9, <1>11 DEF Nos
<1>12. Nos(n, r, b, ops)
  BY <1>9, <1>10, <1>11 DEF Nos
<1>13. QED BY <1>7, <1>8, <1>12 DEF r, n
-----------------------------------------------------------------------------
(* A step touches one device only.                                         *)
Apart(d) ==
    \A e \in Devices \ {d} :
        /\ outbox'[e] = outbox[e] /\ answers'[e] = answers[e] /\ mainQ'[e] = mainQ[e]
        /\ stack'[e] = stack[e] /\ built'[e] = built[e]

(* The end of a process concerns its device alone.                         *)
LEMMA StopIsApart ==
    ASSUME Shape, NEW d \in Devices, NEW why, Stop(d, why)
    PROVE  Apart(d)
BY DEF Stop, ForgetDevice, Apart, Shape, Types

(* So does every other step of a device.                                   *)
LEMMA StepIsApart ==
    ASSUME Shape, NEW d \in Devices, StepOf(d)
    PROVE  Apart(d)
<1>1. CASE Launch(d)
  BY <1>1 DEF Launch, Send, Apart, Shape, Types
<1>2. CASE Kill(d)
  BY <1>2, StopIsApart DEF Kill
<1>3. CASE DidTapAddEvent(d) \/ DidTapEdit(d) \/ DidConfirmLogOut(d)
  <2>1. /\ built' = [built EXCEPT ![d] = NewNo(d)] /\ UNCHANGED <<outbox, answers, stack>>
        /\ \E t : mainQ' = [mainQ EXCEPT ![d] = Append(@, t)]
    BY <1>3 DEF DidTapAddEvent, DidTapEdit, DidConfirmLogOut, Navigate, Build, Post, netVars
  <2>2. QED BY <2>1 DEF Apart, Shape, Types
<1>4. CASE DidTapLogOut(d) \/ DidCancelLogOut(d) \/ DidTapLogIn(d) \/ OnAlert(d)
  BY <1>4 DEF DidTapLogOut, DidCancelLogOut, DidTapLogIn, OnAlert, Post, Handled, netVars,
              screenVars, Apart, Shape, Types
<1>5. CASE DidTapDelete(d)
  <2>1. /\ UNCHANGED <<answers, mainQ, built>>
        /\ \E op : outbox' = [outbox EXCEPT ![d] = Append(@, op)]
        /\ \E s : stack' = [stack EXCEPT ![d] = s]
    BY <1>5 DEF DidTapDelete, Send
  <2>2. QED BY <2>1 DEF Apart, Shape, Types
<1>6. CASE DidTapSaveEvent(d)
  <2>1. CASE Top(d).user = None
    BY <1>6, <2>1, StopIsApart DEF DidTapSaveEvent, Trap
  <2>2. CASE Top(d).user # None
    <3>1. UNCHANGED <<answers, mainQ, stack, built>> /\ \E op : Send(d, op)
      BY <1>6, <2>2 DEF DidTapSaveEvent, screenVars
    <3>2. QED BY <3>1 DEF Send, Apart, Shape, Types
  <2>3. QED BY <2>1, <2>2
<1>7. CASE DidTapUpdate(d)
  <2>1. UNCHANGED <<answers, mainQ, stack, built>> /\ \E op : Send(d, op)
    BY <1>7 DEF DidTapUpdate, screenVars
  <2>2. QED BY <2>1 DEF Send, Apart, Shape, Types
<1>8. CASE DidTapBack(d)
  BY <1>8 DEF DidTapBack, netVars, Apart, Shape, Types
<1>9. CASE SignInAnswered(d)
  <2>1. /\ UNCHANGED <<outbox, answers, stack, built>>
        /\ mainQ' = mainQ \/ \E t : Post(d, t)
    BY <1>9 DEF SignInAnswered, netVars, screenVars
  <2>2. QED BY <2>1 DEF Post, Apart, Shape, Types
<1>10. CASE RunPush(d)
  <2> DEFINE task == Head(mainQ[d])
  <2>1. CASE Position(d, task.from) = 0
    BY <1>10, <2>1 DEF RunPush, Handled, netVars, appVars, screenVars, Apart, Shape, Types
  <2>2. CASE Position(d, task.from) # 0 /\ task.screen.kind # "home"
    BY <1>10, <2>2 DEF RunPush, Handled, netVars, Apart, Shape, Types
  <2>3. CASE Position(d, task.from) # 0 /\ task.screen.kind = "home" /\ user[d] = None
    BY <1>10, <2>3, StopIsApart DEF RunPush, Trap
  <2>4. CASE Position(d, task.from) # 0 /\ task.screen.kind = "home" /\ user[d] # None
    <3>1. /\ \E s : stack' = [stack EXCEPT ![d] = s]
          /\ (\E op : Send(d, op)) /\ Handled(d) /\ UNCHANGED <<answers, built>>
      BY <1>10, <2>4 DEF RunPush
    <3>2. QED BY <3>1 DEF Send, Handled, Apart, Shape, Types
  <2>5. QED BY <2>1, <2>2, <2>3, <2>4
<1>11. CASE OnSignedIn(d) \/ OnSaved(d)
  <2>1. /\ UNCHANGED <<outbox, answers, stack>>
        /\ \/ \E no : NavigateToHome(d, no)
           \/ Handled(d) /\ UNCHANGED built
    BY <1>11 DEF OnSignedIn, OnSaved, netVars
  <2>2. QED BY <2>1 DEF NavigateToHome, Build, Handled, Apart, Shape, Types
<1>12. CASE OnSaveIndex(d) \/ OnDeleteEvent(d)
  <2>1. CASE \E why : Stop(d, why)
    BY <2>1, StopIsApart
  <2>2. CASE /\ Handled(d) /\ UNCHANGED <<answers, stack, built>>
             /\ outbox' = outbox \/ \E op : Send(d, op)
    BY <2>2 DEF Handled, Send, Apart, Shape, Types
  <2>3. QED BY <1>12, <2>1, <2>2 DEF OnSaveIndex, OnDeleteEvent, Trap, Continue, appVars, screenVars
<1>13. CASE OnDeleteIndex(d)
  BY <1>13 DEF OnDeleteIndex, Handled, netVars, appVars, screenVars, Apart, Shape, Types
<1>14. CASE OnReadIndex(d)
  <2>1. /\ UNCHANGED <<answers, built>>
        /\ \E s : outbox' = [outbox EXCEPT ![d] = s]
        /\ \E s : mainQ' = [mainQ EXCEPT ![d] = s]
        /\ \E s : stack' = [stack EXCEPT ![d] = s]
    BY <1>14 DEF OnReadIndex, SetLoad
  <2>2. QED BY <2>1 DEF Apart, Shape, Types
<1>15. CASE OnReadEvent(d)
  <2>1. /\ UNCHANGED <<outbox, answers, built>> /\ Handled(d)
        /\ \E s : stack' = [stack EXCEPT ![d] = s]
    BY <1>15 DEF OnReadEvent, SetLoad, netVars
  <2>2. QED BY <2>1 DEF Handled, Apart, Shape, Types
<1>16. CASE Notify(d)
  <2>1. /\ UNCHANGED <<outbox, answers, mainQ, built>>
        /\ \E s : stack' = [stack EXCEPT ![d] = s]
    BY <1>16 DEF Notify, netVars
  <2>2. QED BY <2>1 DEF Apart, Shape, Types
<1>17. CASE (ServerGrants(d) \/ ServerRefuses(d)) /\ UNCHANGED appVars
  <2>1. /\ UNCHANGED <<outbox, mainQ, stack, built>>
        /\ \E s : answers' = [answers EXCEPT ![d] = s]
    BY <1>17 DEF ServerGrants, ServerRefuses, appVars, screenVars
  <2>2. QED BY <2>1 DEF Apart, Shape, Types
<1>18. CASE (Receive(d) \/ Disconnect(d) \/ Reconnect(d) \/ GetTimesOut(d)) /\ UNCHANGED appVars
  <2>1. /\ UNCHANGED <<stack, built>>
        /\ answers' = answers \/ \E s : answers' = [answers EXCEPT ![d] = s]
        /\ \E s : outbox' = [outbox EXCEPT ![d] = s]
        /\ mainQ' = mainQ \/ \E s : mainQ' = [mainQ EXCEPT ![d] = s]
    BY <1>18 DEF Receive, Disconnect, Reconnect, GetTimesOut, appVars, screenVars
  <2>2. QED BY <2>1 DEF Apart, Shape, Types
<1>19. QED
  BY <1>1, <1>2, <1>3, <1>4, <1>5, <1>6, <1>7, <1>8, <1>9, <1>10, <1>11, <1>12, <1>13,
     <1>14, <1>15, <1>16, <1>17, <1>18 DEF StepOf
-----------------------------------------------------------------------------
(* It is enough to look at the device that takes the step.                 *)
LEMMA NumberedStays ==
    ASSUME Shape, Numbered, NEW d \in Devices, Apart(d),
           Nos(stack'[d], mainQ'[d], built'[d], Outstanding(d)')
    PROVE  Numbered'
<1>1. ASSUME NEW e \in Devices, e # d
      PROVE  Nos(stack'[e], mainQ'[e], built'[e], Outstanding(e)')
  <2>1. Outstanding(e)' = Outstanding(e)
    BY <1>1 DEF Apart, Outstanding
  <2>2. stack'[e] = stack[e] /\ mainQ'[e] = mainQ[e] /\ built'[e] = built[e]
    BY <1>1 DEF Apart
  <2>3. QED BY <2>1, <2>2 DEF Numbered
<1>2. QED BY <1>1 DEF Numbered

(* What a device has outstanding, in terms of its two queues.              *)
LEMMA OutstandingIs ==
    ASSUME Shape, NEW d \in Devices
    PROVE  /\ Outstanding(d) = ToSet(outbox[d]) \cup {t.op : t \in Handed(mainQ[d])}
           /\ Outstanding(d) \in SUBSET GoodRequests
           /\ outbox[d] \in Seq(GoodRequests) /\ answers[d] \in Seq(GoodAnswers)
           /\ mainQ[d] \in Seq(GoodTasks) /\ stack[d] \in Seq(GoodScreens) /\ built[d] \in Nat
<1>1. outbox[d] \in Seq(GoodRequests) /\ answers[d] \in Seq(GoodAnswers)
      /\ mainQ[d] \in Seq(GoodTasks) /\ stack[d] \in Seq(GoodScreens) /\ built[d] \in Nat
  BY DEF Shape, Types
<1>2. QED BY <1>1, OutstandingIsGood DEF Outstanding, Handed

(* A new screen is built, and pushed by a later block.                     *)
Navigates(d, screen) ==
    /\ screen \in NewScreens /\ screen.no = built[d] + 1
    /\ built'[d] = built[d] + 1
    /\ \E q \in {mainQ[d], Tail(mainQ[d])}, from \in Nat :
          /\ mainQ'[d] = Append(q, Push(from, screen))
          /\ q # mainQ[d] => mainQ[d] # << >>
    /\ UNCHANGED <<dbVars, netVars, histVars, stack, budgetVars>>

(* A screen that a tap or a callback builds has a number of its own.       *)
LEMMA NavigatesIsNumbered ==
    ASSUME Shape, Shape', Numbered, NEW d \in Devices, Apart(d), NEW screen, Navigates(d, screen)
    PROVE  Numbered'
<1>1. PICK q \in {mainQ[d], Tail(mainQ[d])}, from \in Nat :
          mainQ'[d] = Append(q, Push(from, screen)) /\ (q # mainQ[d] => mainQ[d] # << >>)
  BY DEF Navigates
<1> DEFINE t == Push(from, screen)
<1>2. t \in GoodTasks /\ IsPush(t) /\ t.screen = screen
  BY DEF Navigates, Push, IsPush, GoodTasks
<1> HIDE DEF t
<1>3. q \in Seq(GoodTasks) /\ Nos(stack[d], q, built[d], Outstanding(d)) /\ Handed(q) \subseteq Handed(mainQ[d])
  <2>1. mainQ[d] \in Seq(GoodTasks) /\ Nos(stack[d], mainQ[d], built[d], Outstanding(d))
    BY OutstandingIs DEF Numbered
  <2>2. CASE q = mainQ[d]
    BY <2>1, <2>2
  <2>3. CASE q # mainQ[d]
    BY <1>1, <2>1, <2>3, QueueShrinks, NosOfTail
  <2>4. QED BY <2>2, <2>3
<1>4. Nos(stack[d], Append(q, t), built[d] + 1, Outstanding(d))
  BY <1>2, <1>3, OutstandingIs, NosWithPush DEF Navigates
<1>5. Outstanding(d)' \subseteq Outstanding(d)
  <2>1. mainQ'[d] = Append(q, t) /\ outbox'[d] = outbox[d]
    BY <1>1 DEF t, Navigates, netVars
  <2>2. Handed(mainQ'[d]) = Handed(q)
    BY <1>2, <1>3, <2>1, QueueGrows DEF IsPush
  <2>3. Outstanding(d)' = ToSet(outbox'[d]) \cup {x.op : x \in Handed(mainQ'[d])}
    BY DEF Outstanding, Handed
  <2>4. QED BY <1>3, <2>1, <2>2, <2>3, OutstandingIs
<1>6. Nos(stack[d], Append(q, t), built[d] + 1, Outstanding(d)')
  BY <1>4, <1>5, NosWithFewerReads
<1>7. stack'[d] = stack[d] /\ mainQ'[d] = Append(q, t) /\ built'[d] = built[d] + 1
  BY <1>1 DEF Navigates, t
<1>8. QED BY <1>6, <1>7, NumberedStays

(* Taps and blocks that build a screen.                                    *)
LEMMA NavigatingSteps ==
    ASSUME Shape, NEW d \in Devices
    PROVE  /\ DidTapAddEvent(d) => \E screen : Navigates(d, screen) /\ screen.kind = "event"
           /\ DidTapEdit(d) => \E screen : /\ Navigates(d, screen)
                                           /\ screen.event \in Top(d).rows
           /\ DidConfirmLogOut(d) => \E screen : Navigates(d, screen) /\ screen.kind = "auth"
           /\ OnSignedIn(d) => \E screen : Navigates(d, screen) /\ screen.kind = "home"
           /\ OnSaved(d) /\ Head(mainQ[d]).ok
                => \E screen : Navigates(d, screen) /\ screen.kind = "home"
<1>1. NewNo(d) \in Nat \ {0} /\ NewNo(d) = built[d] + 1 /\ user[d] \in Users \cup {None}
  BY DEF NewNo, Shape, Types
<1>2. ASSUME NEW kind \in {"home", "event", "edit", "auth"}, NEW u \in Users \cup {None},
             NEW event \in EventModel \cup {NoEvent}, kind = "edit" => event \in EventModel
      PROVE  LET s == Screen(NewNo(d), kind, u, event)
             IN  /\ s \in NewScreens /\ s.no = built[d] + 1 /\ s.kind = kind /\ s.event = event
  BY <1>1, <1>2, ScreenIsNew DEF Screen
<1>3. ASSUME NEW from \in Nat, NEW kind \in {"home", "event", "edit", "auth"},
             NEW event \in EventModel \cup {NoEvent}, kind = "edit" => event \in EventModel,
             Navigate(d, from, kind, event)
      PROVE  LET s == Screen(NewNo(d), kind, user[d], event) IN Navigates(d, s)
  <2> DEFINE s == Screen(NewNo(d), kind, user[d], event)
  <2>1. s \in NewScreens /\ s.no = built[d] + 1
    BY <1>1, <1>2, <1>3
  <2>2. built'[d] = built[d] + 1 /\ mainQ'[d] = Append(mainQ[d], Push(from, s))
        /\ UNCHANGED <<dbVars, netVars, histVars, stack, budgetVars>>
    BY <1>1, <1>3 DEF Navigate, Build, Post, Shape, Types
  <2> HIDE DEF s
  <2>3. QED BY <2>1, <2>2 DEF Navigates, s
<1>4. ASSUME NEW from \in Nat, NavigateToHome(d, from), mainQ[d] # << >>,
             UNCHANGED <<dbVars, netVars, histVars, stack, budgetVars>>
      PROVE  LET s == Screen(NewNo(d), "home", None, NoEvent) IN Navigates(d, s)
  <2> DEFINE s == Screen(NewNo(d), "home", None, NoEvent)
  <2>1. s \in NewScreens /\ s.no = built[d] + 1
    BY <1>1, <1>2
  <2>2. built'[d] = built[d] + 1 /\ mainQ'[d] = Append(Tail(mainQ[d]), Push(from, s))
    BY <1>1, <1>4 DEF NavigateToHome, Build, Shape, Types
  <2> HIDE DEF s
  <2>3. QED BY <1>4, <2>1, <2>2 DEF Navigates, s
<1>5. ASSUME DidTapAddEvent(d) PROVE \E screen : Navigates(d, screen) /\ screen.kind = "event"
  <2>1. Navigate(d, Top(d).no, "event", NoEvent) /\ Top(d).no \in Nat
    BY <1>5, TopIsScreen DEF DidTapAddEvent
  <2>2. Navigates(d, Screen(NewNo(d), "event", user[d], NoEvent))
    BY <1>3, <2>1
  <2>3. QED BY <1>1, <1>2, <2>2
<1>6. ASSUME DidTapEdit(d)
      PROVE  \E screen : Navigates(d, screen) /\ screen.event \in Top(d).rows
  <2>1. PICK event \in Top(d).rows : Navigate(d, Top(d).no, "edit", event)
    BY <1>6 DEF DidTapEdit
  <2>2. Top(d).no \in Nat /\ event \in EventModel
    BY <1>6, TopIsScreen DEF DidTapEdit, GoodScreens, AnyScreens
  <2>3. Navigates(d, Screen(NewNo(d), "edit", user[d], event))
    BY <1>3, <2>1, <2>2
  <2>4. QED BY <1>1, <1>2, <2>2, <2>3
<1>7. ASSUME DidConfirmLogOut(d) PROVE \E screen : Navigates(d, screen) /\ screen.kind = "auth"
  <2>1. Navigate(d, alert[d], "auth", NoEvent) /\ alert[d] \in Nat
    BY <1>7 DEF DidConfirmLogOut, Shape, Types
  <2>2. Navigates(d, Screen(NewNo(d), "auth", user[d], NoEvent))
    BY <1>3, <2>1
  <2>3. QED BY <1>1, <1>2, <2>2
<1>8. ASSUME OnSignedIn(d) PROVE \E screen : Navigates(d, screen) /\ screen.kind = "home"
  <2>1. /\ NavigateToHome(d, Head(mainQ[d]).from)
        /\ UNCHANGED <<dbVars, netVars, histVars, stack, budgetVars>>
        /\ Head(mainQ[d]).from \in Nat /\ mainQ[d] # << >>
    BY <1>8, HeadIsTask, TaskKinds DEF OnSignedIn
  <2>2. Navigates(d, Screen(NewNo(d), "home", None, NoEvent))
    BY <1>4, <2>1
  <2>3. QED BY <1>2, <2>2
<1>9. ASSUME OnSaved(d), Head(mainQ[d]).ok
      PROVE  \E screen : Navigates(d, screen) /\ screen.kind = "home"
  <2>1. /\ NavigateToHome(d, Head(mainQ[d]).op.src)
        /\ UNCHANGED <<dbVars, netVars, histVars, stack, budgetVars>>
    BY <1>9 DEF OnSaved
  <2>2. Head(mainQ[d]).op.src \in Nat /\ mainQ[d] # << >>
    BY <1>9, HeadIsAnswer, HeadIsTask DEF OnSaved, GoodRequests, Requests
  <2>3. Navigates(d, Screen(NewNo(d), "home", None, NoEvent))
    BY <1>4, <2>1, <2>2
  <2>4. QED BY <1>2, <2>3
<1>10. QED BY <1>5, <1>6, <1>7, <1>8, <1>9
-----------------------------------------------------------------------------
(* The screens in the stack stay; some have other rows or another load.    *)
SameScreens(d) ==
    /\ DOMAIN stack'[d] = DOMAIN stack[d]
    /\ \A i \in DOMAIN stack[d] :
          /\ stack'[d][i].no = stack[d][i].no /\ stack'[d][i].kind = stack[d][i].kind
          /\ stack'[d][i].user = stack[d][i].user /\ stack'[d][i].event = stack[d][i].event

(* What didTapDelete changes: the row on top, and one more request.        *)
LEMMA DeleteTakesRow ==
    ASSUME Shape, NEW d \in Devices, DidTapDelete(d)
    PROVE  \E event \in Top(d).rows :
               /\ event \in EventModel /\ Top(d) = stack[d][Len(stack[d])]
               /\ Request("deleteEvent", user[d], event.id, None, Top(d).no) \in GoodRequests
               /\ outbox'[d] = Append(outbox[d],
                                 Request("deleteEvent", user[d], event.id, None, Top(d).no))
               /\ torn' = torn \cup (IF user[d] # Top(d).user THEN {event.id} ELSE {})
               /\ UNCHANGED <<dbVars, online, answers, mainQ, forgotten, revived, built, usedIds>>
               /\ SameScreens(d)
               /\ \A i \in DOMAIN stack[d] : /\ stack'[d][i].load = stack[d][i].load
                                             /\ stack'[d][i].rows \subseteq stack[d][i].rows
               /\ stack'[d][Len(stack[d])].rows = Top(d).rows \ {event}
<1>1. OnTop(d, "home")
  BY DEF DidTapDelete
<1>2. PICK event \in Top(d).rows :
         /\ stack' = [stack EXCEPT ![d][Len(stack[d])].rows = @ \ {event}]
         /\ Send(d, Request("deleteEvent", user[d], event.id, None, Top(d).no))
         /\ torn' = torn \cup (IF user[d] # Top(d).user THEN {event.id} ELSE {})
  BY DEF DidTapDelete
<1>3. /\ Top(d) \in GoodScreens /\ Top(d) = stack[d][Len(stack[d])] /\ stack[d] \in Seq(GoodScreens)
      /\ Len(stack[d]) \in DOMAIN stack[d] /\ Top(d).no \in Nat
  BY <1>1, TopIsScreen
<1>4. event \in EventModel /\ event.id \in Ids
  BY <1>3 DEF GoodScreens, AnyScreens, EventModel
<1>5. user[d] \in Users \cup {None}
  BY DEF Shape, Types
<1>6. Request("deleteEvent", user[d], event.id, None, Top(d).no) \in GoodRequests
  BY <1>3, <1>4, <1>5, RequestIsGood DEF Writes
<1> DEFINE left == Top(d).rows \ {event}
           top == [Top(d) EXCEPT !.rows = left]
<1>7. stack'[d] = [stack[d] EXCEPT ![Len(stack[d])] = top]
  BY <1>2, <1>3 DEF Shape, Types
<1>8. /\ top.no = Top(d).no /\ top.kind = Top(d).kind /\ top.user = Top(d).user
      /\ top.event = Top(d).event /\ top.load = Top(d).load /\ top.rows = left
  BY <1>3 DEF GoodScreens, AnyScreens
<1> HIDE DEF top
<1>9. /\ DOMAIN stack'[d] = DOMAIN stack[d]
      /\ \A i \in DOMAIN stack[d] : stack'[d][i] = IF i = Len(stack[d]) THEN top ELSE stack[d][i]
  BY <1>3, <1>7
<1>10. /\ SameScreens(d)
       /\ \A i \in DOMAIN stack[d] : /\ stack'[d][i].load = stack[d][i].load
                                     /\ stack'[d][i].rows \subseteq stack[d][i].rows
       /\ stack'[d][Len(stack[d])].rows = Top(d).rows \ {event}
  BY <1>3, <1>8, <1>9 DEF SameScreens
<1>11. outbox'[d] = Append(outbox[d], Request("deleteEvent", user[d], event.id, None, Top(d).no))
  BY <1>2 DEF Send, Shape, Types
<1>12. UNCHANGED <<dbVars, online, answers, mainQ, forgotten, revived, built, usedIds>>
  BY DEF DidTapDelete
<1>13. QED BY <1>2, <1>3, <1>4, <1>6, <1>10, <1>11, <1>12

(* The callbacks of a load change the load of the screen that asked.       *)
LEMMA SetLoadKeepsScreens ==
    ASSUME Shape, NEW d \in Devices, NEW no, NEW l, SetLoad(d, no, l),
           Position(d, no) # 0 => l \in AnyLoads
    PROVE  /\ SameScreens(d)
           /\ \A i \in DOMAIN stack[d] :
                 /\ stack'[d][i].load = IF i = Position(d, no) THEN l ELSE stack[d][i].load
                 /\ stack'[d][i].rows = stack[d][i].rows
<1>1. /\ DOMAIN stack'[d] = DOMAIN stack[d]
      /\ \A i \in DOMAIN stack[d] :
            stack'[d][i] = IF i = Position(d, no) THEN [stack[d][i] EXCEPT !.load = l]
                           ELSE stack[d][i]
  BY SetLoadSets
<1>2. ASSUME NEW i \in DOMAIN stack[d]
      PROVE  LET s == [stack[d][i] EXCEPT !.load = l]
             IN  /\ s.no = stack[d][i].no /\ s.kind = stack[d][i].kind
                 /\ s.user = stack[d][i].user /\ s.event = stack[d][i].event
                 /\ s.load = l /\ s.rows = stack[d][i].rows
  <2>1. stack[d][i] \in GoodScreens
    BY OutstandingIs
  <2>2. QED BY <2>1 DEF GoodScreens, AnyScreens
<1>3. QED BY <1>1, <1>2 DEF SameScreens

(* The end of a load replaces the rows of its screen, all at once.         *)
LEMMA NotifyShowsEvents ==
    ASSUME Shape, NEW d \in Devices, Notify(d)
    PROVE  /\ UNCHANGED <<dbVars, netVars, mainQ, histVars, built, usedIds>>
           /\ SameScreens(d)
           /\ \A i \in DOMAIN stack[d] :
                 \/ stack'[d][i] = stack[d][i]
                 \/ /\ stack[d][i].load.phase = "notify"
                    /\ stack'[d][i].load = GroupNotify(stack[d][i].load)
                    /\ stack'[d][i].rows = EventsIn(stack[d][i].load.eventS)
<1>1. PICK i \in DOMAIN stack[d] :
         /\ stack[d][i].load.phase = "notify"
         /\ stack' = [stack EXCEPT ![d][i].load = GroupNotify(@),
                                   ![d][i].rows = EventsIn(stack[d][i].load.eventS)]
  BY DEF Notify
<1>2. stack[d] \in Seq(GoodScreens) /\ i \in 1 .. Len(stack[d]) /\ stack[d][i] \in GoodScreens
  BY OutstandingIs
<1> DEFINE l == GroupNotify(stack[d][i].load)
           r == EventsIn(stack[d][i].load.eventS)
           s == [stack[d][i] EXCEPT !.load = l, !.rows = r]
<1>3. stack'[d] = [stack[d] EXCEPT ![i] = s]
  BY <1>1 DEF Shape, Types
<1> HIDE DEF l, r
<1>4. /\ s.no = stack[d][i].no /\ s.kind = stack[d][i].kind /\ s.user = stack[d][i].user
      /\ s.event = stack[d][i].event /\ s.load = l /\ s.rows = r
  BY <1>2 DEF GoodScreens, AnyScreens
<1> HIDE DEF s
<1>5. /\ DOMAIN stack'[d] = DOMAIN stack[d]
      /\ \A j \in DOMAIN stack[d] : stack'[d][j] = IF j = i THEN s ELSE stack[d][j]
  BY <1>2, <1>3
<1>6. QED BY <1>1, <1>4, <1>5 DEF Notify, budgetVars, SameScreens, l, r

(* The requests chosen by their kinds are just those of these kinds.       *)
LEMMA OnlyMembers ==
    ASSUME NEW S, NEW s \in Seq(S), NEW kinds
    PROVE  /\ Only(s, kinds) \in Seq(S)
           /\ ToSet(Only(s, kinds)) = {op \in ToSet(s) : op.kind \in kinds}
<1> DEFINE t == Only(s, kinds)
<1>1. t \in Seq(S)
  BY OnlyChooses
<1>2. PICK at : Chosen(s, kinds, Len(s), t, at)
  BY OnlyChooses
<1> HIDE DEF t
<1>3. ASSUME NEW i \in DOMAIN t PROVE t[i] \in ToSet(s) /\ t[i].kind \in kinds
  <2>1. at[i] \in DOMAIN s /\ t[i] = s[at[i]] /\ t[i].kind \in kinds
    BY <1>2 DEF Chosen
  <2>2. QED BY <2>1 DEF ToSet
<1>4. ASSUME NEW k \in DOMAIN s, s[k].kind \in kinds PROVE s[k] \in ToSet(t)
  <2>1. PICK i \in DOMAIN t : at[i] = k
    BY <1>2, <1>4 DEF Chosen
  <2>2. t[i] = s[k]
    BY <1>2, <2>1 DEF Chosen
  <2>3. QED BY <2>2 DEF ToSet
<1>5. \A op \in ToSet(t) : op \in ToSet(s) /\ op.kind \in kinds
  BY <1>3 DEF ToSet
<1>6. \A op \in ToSet(s) : op.kind \in kinds => op \in ToSet(t)
  BY <1>4 DEF ToSet
<1>7. ToSet(t) = {op \in ToSet(s) : op.kind \in kinds}
  BY <1>5, <1>6
<1>8. QED BY <1>1, <1>7 DEF t

(* What a request is about stays when it is sent again.                    *)
Same(op, p) == op.kind = p.kind /\ op.user = p.user /\ op.id = p.id /\ op.text = p.text /\ op.src = p.src

(* The network only moves requests: none is new, and none but a redo.      *)
LEMMA NetworkMovesRequests ==
    ASSUME Shape, NEW d \in Devices,
           \/ ServerGrants(d) \/ ServerRefuses(d)
           \/ Receive(d) \/ Disconnect(d) \/ Reconnect(d) \/ GetTimesOut(d)
    PROVE  /\ \A op \in Outstanding(d)' : \E p \in Outstanding(d) : Same(op, p)
           /\ mainQ'[d] = mainQ[d] \/ \E a \in GoodAnswers : mainQ'[d] = Append(mainQ[d], a)
<1> DEFINE Moved == \A op \in ToSet(outbox'[d]) : \E p \in ToSet(outbox[d]) : Same(op, p)
<1>1. outbox[d] \in Seq(GoodRequests) /\ answers[d] \in Seq(GoodAnswers) /\ mainQ[d] \in Seq(GoodTasks)
  BY OutstandingIs
<1>2. CASE ServerGrants(d) \/ ServerRefuses(d)
  <2>1. outbox'[d] = outbox[d] /\ mainQ'[d] = mainQ[d]
    BY <1>2 DEF ServerGrants, ServerRefuses
  <2>2. Outstanding(d)' = Outstanding(d)
    BY <2>1 DEF Outstanding
  <2>3. QED BY <2>1, <2>2 DEF Same
<1>3. CASE Receive(d)
  <2>1. answers[d] # << >> /\ outbox'[d] = Tail(outbox[d]) /\ mainQ'[d] = Append(mainQ[d], Head(answers[d]))
    BY <1>3 DEF Receive, Shape, Types
  <2>2. /\ Head(answers[d]) \in GoodAnswers /\ Head(answers[d]).op = outbox[d][1]
        /\ outbox[d] # << >> /\ 1 \in DOMAIN outbox[d]
    <3>1. Len(answers[d]) \in Nat \ {0} /\ Head(answers[d]) = answers[d][1]
      BY <1>1, <2>1, EmptySeq
    <3>2. Len(answers[d]) <= Len(outbox[d]) /\ answers[d][1].op = outbox[d][1]
      BY <3>1 DEF Shape, Answering
    <3>3. QED BY <1>1, <3>1, <3>2, EmptySeq
  <2>3. ToSet(Tail(outbox[d])) \subseteq ToSet(outbox[d]) /\ outbox[d][1] \in ToSet(outbox[d])
    BY <1>1, <2>2, MembersOfSeq DEF ToSet
  <2>4. Handed(mainQ'[d]) = Handed(mainQ[d]) \cup {Head(answers[d])}
    <3>1. Head(answers[d]) \in GoodTasks /\ Head(answers[d]).do = "answer"
      BY <2>2 DEF GoodTasks, GoodAnswers, Answers
    <3>2. QED BY <1>1, <2>1, <3>1, QueueGrows
  <2>5. Outstanding(d)' = ToSet(outbox'[d]) \cup {t.op : t \in Handed(mainQ'[d])}
    BY DEF Outstanding, Handed
  <2>6. Outstanding(d)' \subseteq Outstanding(d)
    BY <2>1, <2>2, <2>3, <2>4, <2>5, OutstandingIs
  <2>7. QED BY <2>1, <2>2, <2>6 DEF Same
<1>4. CASE Disconnect(d)
  <2> DEFINE w == Only(outbox[d], Writes)
             r == [i \in DOMAIN w |-> [w[i] EXCEPT !.redo = TRUE]]
  <2>1. outbox'[d] = r /\ mainQ'[d] = mainQ[d]
    BY <1>4 DEF Disconnect, Shape, Types
  <2>2. w \in Seq(GoodRequests) /\ ToSet(w) = {op \in ToSet(outbox[d]) : op.kind \in Writes}
    BY <1>1, OnlyMembers
  <2> HIDE DEF w
  <2>3. ASSUME NEW i \in DOMAIN r PROVE \E p \in ToSet(outbox[d]) : Same(r[i], p)
    <3>1. i \in DOMAIN w /\ r[i] = [w[i] EXCEPT !.redo = TRUE] /\ w[i] \in GoodRequests
      BY <2>2
    <3>2. w[i] \in ToSet(w)
      BY <3>1 DEF ToSet
    <3>3. w[i] \in ToSet(outbox[d])
      BY <2>2, <3>2
    <3>4. Same(r[i], w[i])
      BY <3>1 DEF Same, GoodRequests, Requests
    <3>5. QED BY <3>3, <3>4
  <2>4. \A op \in ToSet(outbox'[d]) : \E p \in ToSet(outbox[d]) : Same(op, p)
    BY <2>1, <2>3 DEF ToSet
  <2>5. QED BY <2>1, <2>4 DEF Outstanding, Same
<1>5. CASE Reconnect(d)
  <2> DEFINE w == Only(outbox[d], Writes)
             r == Only(outbox[d], Reads)
  <2>1. outbox'[d] = w \o r /\ mainQ'[d] = mainQ[d]
    BY <1>5 DEF Reconnect, Shape, Types
  <2>2. /\ w \in Seq(GoodRequests) /\ ToSet(w) = {op \in ToSet(outbox[d]) : op.kind \in Writes}
        /\ r \in Seq(GoodRequests) /\ ToSet(r) = {op \in ToSet(outbox[d]) : op.kind \in Reads}
    BY <1>1, OnlyMembers
  <2> HIDE DEF w, r
  <2>3. ToSet(w) \subseteq ToSet(outbox[d]) /\ ToSet(r) \subseteq ToSet(outbox[d])
    BY <2>2
  <2>4. ToSet(outbox'[d]) \subseteq ToSet(outbox[d])
    BY <2>1, <2>2, <2>3, MembersOfSeq
  <2>5. QED BY <2>1, <2>4 DEF Outstanding, Same
<1>6. CASE GetTimesOut(d)
  <2>1. PICK i \in DOMAIN outbox[d] : /\ outbox'[d] = RemoveAt(outbox[d], i)
                                      /\ mainQ'[d] = Append(mainQ[d], Refused(outbox[d][i]))
    BY <1>6 DEF GetTimesOut, Shape, Types
  <2>2. i \in 1 .. Len(outbox[d]) /\ outbox[d][i] \in GoodRequests /\ outbox[d][i] \in ToSet(outbox[d])
    BY <1>1 DEF ToSet
  <2> DEFINE a == Refused(outbox[d][i])
  <2>3. a \in GoodAnswers /\ a.op = outbox[d][i]
    BY <2>2, AnswerIsGood DEF Refused, Answer
  <2> HIDE DEF a
  <2>4. Handed(mainQ'[d]) = Handed(mainQ[d]) \cup {a}
    <3>1. a \in GoodTasks /\ a.do = "answer"
      BY <2>3 DEF GoodTasks, GoodAnswers, Answers
    <3>2. QED BY <1>1, <2>1, <3>1, QueueGrows DEF a
  <2>5. ToSet(outbox'[d]) \subseteq ToSet(outbox[d])
    BY <1>1, <2>1, <2>2, MembersOfSeq
  <2>6. Outstanding(d)' = ToSet(outbox'[d]) \cup {t.op : t \in Handed(mainQ'[d])}
    BY DEF Outstanding, Handed
  <2>7. Outstanding(d)' \subseteq Outstanding(d)
    BY <2>2, <2>3, <2>4, <2>5, <2>6, OutstandingIs
  <2>8. QED BY <2>1, <2>3, <2>7 DEF Same, a
<1>7. QED BY <1>2, <1>3, <1>4, <1>5, <1>6
(* What is under way once a block has run and one request was sent.        *)
LEMMA OutstandingAfter ==
    ASSUME Shape, NEW d \in Devices, Handed(mainQ'[d]) \subseteq Handed(mainQ[d])
    PROVE  /\ outbox'[d] = outbox[d] => Outstanding(d)' \subseteq Outstanding(d)
           /\ \A op \in GoodRequests : outbox'[d] = Append(outbox[d], op)
                => Outstanding(d)' \subseteq Outstanding(d) \cup {op}
<1>1. Outstanding(d)' = ToSet(outbox'[d]) \cup {t.op : t \in Handed(mainQ'[d])}
  BY DEF Outstanding, Handed
<1>2. \A op \in GoodRequests : ToSet(Append(outbox[d], op)) = ToSet(outbox[d]) \cup {op}
  BY OutstandingIs, MembersOfSeq
<1>3. {t.op : t \in Handed(mainQ'[d])} \subseteq Outstanding(d) /\ ToSet(outbox[d]) \subseteq Outstanding(d)
  BY OutstandingIs
<1>4. ASSUME outbox'[d] = outbox[d] PROVE Outstanding(d)' \subseteq Outstanding(d)
  BY <1>1, <1>3, <1>4
<1>5. ASSUME NEW op \in GoodRequests, outbox'[d] = Append(outbox[d], op)
      PROVE  Outstanding(d)' \subseteq Outstanding(d) \cup {op}
  BY <1>1, <1>2, <1>3, <1>5
<1>6. QED BY <1>4, <1>5

(* The callback of a first write: done, or on to the second write.         *)
LEMMA ContinuingSteps ==
    ASSUME Shape, NEW d \in Devices, OnSaveIndex(d) \/ OnDeleteEvent(d)
    PROVE  LET a == Head(mainQ[d])
               kind == IF a.op.kind = "saveIndex" THEN "saveEvent" ELSE "deleteIndex"
               op == [a.op EXCEPT !.kind = kind, !.redo = FALSE]
           IN  /\ a \in GoodAnswers /\ a.op \in GoodRequests /\ mainQ[d] # << >>
               /\ a.op.kind \in {"saveIndex", "deleteEvent"}
               /\ OnSaveIndex(d) <=> a.op.kind = "saveIndex"
               /\ Handed(mainQ[d]) = Handed(Tail(mainQ[d])) \cup {a}
               /\ Pushed(mainQ[d]) = Pushed(Tail(mainQ[d]))
               /\ \/ a.ok /\ a.op.kind = "deleteEvent" /\ a.op.user = None
                     /\ Stop(d, "trap in deleteEvent") /\ UNCHANGED faults
                  \/ /\ mainQ'[d] = Tail(mainQ[d])
                     /\ UNCHANGED <<dbVars, online, answers, histVars, stack, built, usedIds>>
                     /\ IF a.ok THEN op \in GoodRequests /\ outbox'[d] = Append(outbox[d], op)
                                     /\ (kind = "deleteIndex" => a.op.user \in Users)
                                ELSE outbox'[d] = outbox[d]
<1> DEFINE a == Head(mainQ[d])
           kind == IF a.op.kind = "saveIndex" THEN "saveEvent" ELSE "deleteIndex"
           op == [a.op EXCEPT !.kind = kind, !.redo = FALSE]
<1>1. /\ a \in GoodAnswers /\ a.op \in GoodRequests /\ Handling(d, "answer")
      /\ a.op.kind \in {"saveIndex", "deleteEvent"}
      /\ OnSaveIndex(d) <=> a.op.kind = "saveIndex"
  BY HeadIsAnswer DEF OnSaveIndex, OnDeleteEvent, Answered
<1>2. mainQ[d] # << >> /\ mainQ[d] \in Seq(GoodTasks) /\ a.do = "answer"
  BY <1>1, HeadIsTask
<1>3. Handed(mainQ[d]) = Handed(Tail(mainQ[d])) \cup {a} /\ Pushed(mainQ[d]) = Pushed(Tail(mainQ[d]))
  BY <1>2, QueueShrinks
<1>4. \/ a.ok /\ a.op.kind = "deleteEvent" /\ a.op.user = None
         /\ Stop(d, "trap in deleteEvent") /\ UNCHANGED faults
      \/ /\ mainQ'[d] = Tail(mainQ[d])
         /\ UNCHANGED <<dbVars, online, answers, histVars, stack, built, usedIds>>
         /\ IF a.ok THEN outbox'[d] = Append(outbox[d], op)
                         /\ (kind = "deleteIndex" => a.op.user # None)
                    ELSE outbox'[d] = outbox[d]
  <2>1. CASE OnSaveIndex(d)
    <3>1. a.op.kind = "saveIndex"
      BY <1>1, <2>1
    <3>2. mainQ'[d] = Tail(mainQ[d])
      BY <2>1 DEF OnSaveIndex, Handled, Shape, Types
    <3>3. UNCHANGED <<dbVars, online, answers, histVars, stack, built, usedIds>>
      BY <2>1 DEF OnSaveIndex, appVars, screenVars, budgetVars
    <3>4. IF a.ok THEN outbox'[d] = Append(outbox[d], op) ELSE outbox'[d] = outbox[d]
      BY <2>1, <3>1 DEF OnSaveIndex, Continue, Send, Shape, Types
    <3>5. QED BY <3>1, <3>2, <3>3, <3>4
  <2>2. CASE OnDeleteEvent(d) /\ a.ok /\ a.op.user = None
    BY <1>1, <2>2 DEF OnDeleteEvent, Trap, Answered
  <2>3. CASE OnDeleteEvent(d) /\ ~ (a.ok /\ a.op.user = None)
    <3>1. a.op.kind = "deleteEvent"
      BY <2>3 DEF OnDeleteEvent, Answered
    <3>2. mainQ'[d] = Tail(mainQ[d])
      BY <2>3 DEF OnDeleteEvent, Handled, Shape, Types
    <3>3. UNCHANGED <<dbVars, online, answers, histVars, stack, built, usedIds>>
      BY <2>3 DEF OnDeleteEvent, appVars, screenVars, budgetVars
    <3>4. IF a.ok THEN outbox'[d] = Append(outbox[d], op) ELSE outbox'[d] = outbox[d]
      BY <2>3, <3>1 DEF OnDeleteEvent, Continue, Send, Shape, Types
    <3>5. QED BY <2>3, <3>1, <3>2, <3>3, <3>4
  <2>4. QED BY <2>1, <2>2, <2>3
<1>5. ASSUME kind = "deleteIndex" => a.op.user # None PROVE op \in GoodRequests
                                 /\ (kind = "deleteIndex" => a.op.user \in Users)
  <2>1. a.op \in Requests /\ a.op.id \in Ids
        /\ (a.op.kind = "saveIndex" => a.op.user \in Users /\ a.op.text \in Texts)
    BY <1>1 DEF GoodRequests
  <2>2. op \in Requests
    BY <2>1 DEF Requests, Writes
  <2>3. op.kind = kind /\ op.user = a.op.user /\ op.id = a.op.id /\ op.text = a.op.text
    BY <2>1 DEF Requests
  <2>4. a.op.user \in Users \cup {None}
    BY <2>1 DEF Requests
  <2> HIDE DEF op, a
  <2>5. QED BY <1>1, <1>5, <2>1, <2>2, <2>3, <2>4 DEF GoodRequests
<1> HIDE DEF op
<1>6. QED BY <1>1, <1>2, <1>3, <1>4, <1>5 DEF op
-----------------------------------------------------------------------------
(* What Update and Save send: a new text for the event edited; the entry   *)
(* of a new key for the account captured.                                  *)
LEMMA SendingTaps ==
    ASSUME Shape, NEW d \in Devices
    PROVE  /\ DidTapUpdate(d) =>
                 \E text \in Texts :
                    LET op == Request("updateEvent", None, Top(d).event.id, text, Top(d).no)
                    IN  /\ op \in GoodRequests /\ outbox'[d] = Append(outbox[d], op)
                        /\ Top(d).kind = "edit" /\ Top(d) \in GoodScreens
                        /\ Top(d) \in ToSet(stack[d])
                        /\ UNCHANGED <<dbVars, online, answers, mainQ, histVars, stack, built,
                                       usedIds>>
           /\ DidTapSaveEvent(d) /\ Top(d).user # None =>
                 \E text \in Texts, id \in Ids \ usedIds :
                    LET op == Request("saveIndex", Top(d).user, id, text, Top(d).no)
                    IN  /\ op \in GoodRequests /\ outbox'[d] = Append(outbox[d], op)
                        /\ usedIds' = usedIds \cup {id} /\ Top(d).user \in Users
                        /\ UNCHANGED <<dbVars, online, answers, mainQ, histVars, stack, built>>
<1>1. ASSUME DidTapUpdate(d)
      PROVE  \E text \in Texts :
                LET op == Request("updateEvent", None, Top(d).event.id, text, Top(d).no)
                IN  /\ op \in GoodRequests /\ outbox'[d] = Append(outbox[d], op)
                    /\ Top(d).kind = "edit" /\ Top(d) \in GoodScreens /\ Top(d) \in ToSet(stack[d])
                    /\ UNCHANGED <<dbVars, online, answers, mainQ, histVars, stack, built, usedIds>>
  <2>1. OnTop(d, "edit")
    BY <1>1 DEF DidTapUpdate
  <2>2. /\ Top(d) \in GoodScreens /\ Top(d).no \in Nat /\ Top(d).kind = "edit"
        /\ Top(d) = stack[d][Len(stack[d])] /\ Len(stack[d]) \in DOMAIN stack[d]
    BY <2>1, TopIsScreen
  <2>3. Top(d).event.id \in Ids
    BY <2>2 DEF GoodScreens, EventModel
  <2>4. PICK text \in Texts :
           Send(d, Request("updateEvent", None, Top(d).event.id, text, Top(d).no))
    BY <1>1 DEF DidTapUpdate
  <2>5. Request("updateEvent", None, Top(d).event.id, text, Top(d).no) \in GoodRequests
    BY <2>2, <2>3, RequestIsGood DEF Writes
  <2>6. outbox'[d] = Append(outbox[d],
                            Request("updateEvent", None, Top(d).event.id, text, Top(d).no))
    BY <2>4 DEF Send, Shape, Types
  <2>7. UNCHANGED <<dbVars, online, answers, mainQ, histVars, stack, built, usedIds>>
    BY <1>1 DEF DidTapUpdate, screenVars
  <2>8. Top(d) \in ToSet(stack[d])
    BY <2>2 DEF ToSet
  <2>9. QED BY <2>2, <2>5, <2>6, <2>7, <2>8
<1>2. ASSUME DidTapSaveEvent(d), Top(d).user # None
      PROVE  \E text \in Texts, id \in Ids \ usedIds :
                LET op == Request("saveIndex", Top(d).user, id, text, Top(d).no)
                IN  /\ op \in GoodRequests /\ outbox'[d] = Append(outbox[d], op)
                    /\ usedIds' = usedIds \cup {id} /\ Top(d).user \in Users
                    /\ UNCHANGED <<dbVars, online, answers, mainQ, histVars, stack, built>>
  <2>1. OnTop(d, "event")
    BY <1>2 DEF DidTapSaveEvent
  <2>2. Top(d).no \in Nat /\ Top(d).user \in Users
    BY <1>2, <2>1, TopIsScreen DEF GoodScreens, AnyScreens
  <2>3. PICK text \in Texts, id \in Ids \ usedIds :
           /\ Send(d, Request("saveIndex", Top(d).user, id, text, Top(d).no))
           /\ usedIds' = usedIds \cup {id}
           /\ UNCHANGED <<dbVars, online, answers, mainQ, histVars, sessionVars, screenVars>>
    BY <1>2 DEF DidTapSaveEvent
  <2>4. Request("saveIndex", Top(d).user, id, text, Top(d).no) \in GoodRequests
    BY <2>2, RequestIsGood DEF Writes
  <2>5. outbox'[d] = Append(outbox[d], Request("saveIndex", Top(d).user, id, text, Top(d).no))
    BY <2>3 DEF Send, Shape, Types
  <2>6. QED BY <2>2, <2>3, <2>4, <2>5 DEF screenVars
<1>3. QED BY <1>1, <1>2

(* A block at the head of the queue that is carried out and leaves nothing. *)
LEMMA OnlyHandledSteps ==
    ASSUME Shape, NEW d \in Devices
    PROVE  /\ OnAlert(d) \/ OnDeleteIndex(d) \/ (OnSaved(d) /\ ~ Head(mainQ[d]).ok)
                 => /\ mainQ[d] # << >> /\ mainQ'[d] = Tail(mainQ[d])
                    /\ UNCHANGED <<dbVars, netVars, histVars, stack, built, usedIds>>
<1>1. ASSUME OnAlert(d) \/ OnDeleteIndex(d) \/ (OnSaved(d) /\ ~ Head(mainQ[d]).ok)
      PROVE  /\ mainQ[d] # << >> /\ Handled(d)
             /\ UNCHANGED <<dbVars, netVars, histVars, stack, built, usedIds>>
  BY <1>1 DEF OnAlert, OnDeleteIndex, OnSaved, Answered, Handling, appVars, screenVars, budgetVars
<1>2. QED BY <1>1 DEF Handled, Shape, Types
(* A Home asks for the list of the account signed in when it appears.      *)
LEMMA LoadingIs ==
    ASSUME NEW s \in GoodScreens, NEW u \in Users
    PROVE  LET t == Loading(s, u)
           IN  /\ t \in GoodScreens /\ t.no = s.no /\ t.kind = s.kind /\ t.user = u
               /\ t.event = s.event /\ t.rows = s.rows /\ t.load = AskIndex(NewLoad)
<1>1. Loading(s, u) \in GoodScreens
  BY LoadingIsScreen
<1>2. QED BY <1>1 DEF Loading, GoodScreens, AnyScreens

(* What the block of a router does: it ends the process, or pushes the     *)
(* screen it was given, or nothing.                                        *)
LEMMA PushingStep ==
    ASSUME Shape, NEW d \in Devices, RunPush(d)
    PROVE  LET task == Head(mainQ[d])
               op == ReadIndex(user[d], task.screen.no)
               home == Loading(task.screen, user[d])
           IN  /\ mainQ[d] # << >> /\ IsPush(task) /\ task \in GoodTasks
               /\ task.screen \in NewScreens
               /\ \/ \E why \in Traps : Stop(d, why) /\ UNCHANGED faults
                  \/ /\ mainQ'[d] = Tail(mainQ[d])
                     /\ UNCHANGED <<dbVars, online, answers, histVars, built, usedIds>>
                     /\ \/ outbox'[d] = outbox[d] /\ stack'[d] = stack[d]
                        \/ /\ outbox'[d] = outbox[d] /\ task.screen.kind # "home"
                           /\ stack'[d] = Append(stack[d], task.screen)
                        \/ /\ user[d] \in Users /\ op \in GoodRequests
                           /\ task.screen.kind = "home"
                           /\ outbox'[d] = Append(outbox[d], op)
                           /\ stack'[d] = Append(stack[d], home)
<1> DEFINE task == Head(mainQ[d])
           op == ReadIndex(user[d], task.screen.no)
           home == Loading(task.screen, user[d])
<1>1. Handling(d, "push")
  BY DEF RunPush
<1>2. mainQ[d] # << >> /\ task.do = "push" /\ task \in GoodTasks /\ task.screen \in NewScreens
  BY <1>1, HeadIsTask, TaskKinds
<1>3. CASE Position(d, task.from) = 0
  <2>1. Handled(d) /\ UNCHANGED <<dbVars, netVars, histVars, appVars>>
    BY <1>3 DEF RunPush
  <2>2. mainQ'[d] = Tail(mainQ[d])
    BY <2>1 DEF Handled, Shape, Types
  <2>3. QED BY <1>2, <2>1, <2>2 DEF IsPush, netVars, appVars, screenVars, budgetVars
<1>4. CASE Position(d, task.from) # 0 /\ task.screen.kind # "home"
  <2>1. /\ stack' = [stack EXCEPT ![d] = Append(@, task.screen)] /\ Handled(d)
        /\ UNCHANGED <<dbVars, netVars, histVars, sessionVars, built, alert, budgetVars>>
    BY <1>4 DEF RunPush
  <2>2. mainQ'[d] = Tail(mainQ[d]) /\ stack'[d] = Append(stack[d], task.screen)
    BY <2>1 DEF Handled, Shape, Types
  <2>3. QED BY <1>2, <1>4, <2>1, <2>2 DEF IsPush, netVars, budgetVars
<1>5. CASE Position(d, task.from) # 0 /\ task.screen.kind = "home" /\ user[d] = None
  BY <1>2, <1>5 DEF RunPush, Trap, Traps, IsPush
<1>6. CASE Position(d, task.from) # 0 /\ task.screen.kind = "home" /\ user[d] # None
  <2>1. user[d] \in Users
    BY <1>6 DEF Shape, Types
  <2>2. op \in GoodRequests
    <3>1. task.screen.no \in Nat
      BY <1>2 DEF NewScreens, GoodScreens, AnyScreens
    <3>2. QED BY <2>1, <3>1, RequestIsGood DEF ReadIndex, Reads
  <2>3. /\ stack' = [stack EXCEPT ![d] = Append(@, home)] /\ Send(d, op) /\ Handled(d)
        /\ UNCHANGED <<dbVars, online, answers, histVars, sessionVars, built, alert, budgetVars>>
    BY <1>6 DEF RunPush
  <2>4. /\ mainQ'[d] = Tail(mainQ[d]) /\ stack'[d] = Append(stack[d], home)
        /\ outbox'[d] = Append(outbox[d], op)
    BY <2>3 DEF Handled, Send, Shape, Types
  <2>5. QED BY <1>2, <1>6, <2>1, <2>2, <2>3, <2>4 DEF IsPush, budgetVars
<1>7. QED BY <1>3, <1>4, <1>5, <1>6

(* What initRoot does: one screen, and one request if it is a Home.        *)
LEMMA LaunchingStep ==
    ASSUME Shape, NEW d \in Devices, Launch(d)
    PROVE  LET screen == Screen(1, IF user[d] = None THEN "auth" ELSE "home", None, NoEvent)
               op == ReadIndex(user[d], 1)
           IN  /\ screen \in NewScreens /\ screen.no = 1 /\ screen.kind # "edit"
               /\ outbox[d] = << >> /\ answers[d] = << >> /\ mainQ[d] = << >>
               /\ mainQ'[d] = << >> /\ built'[d] = 1
               /\ UNCHANGED <<dbVars, online, answers, histVars, usedIds>>
               /\ \/ outbox'[d] = << >> /\ stack'[d] = <<screen>>
                  \/ /\ user[d] \in Users /\ op \in GoodRequests
                     /\ outbox'[d] = <<op>> /\ stack'[d] = <<Loading(screen, user[d])>>
<1> DEFINE screen == Screen(1, IF user[d] = None THEN "auth" ELSE "home", None, NoEvent)
           op == ReadIndex(user[d], 1)
<1>1. outbox[d] = << >> /\ answers[d] = << >> /\ mainQ[d] = << >> /\ user[d] \in Users \cup {None}
  BY DEF Launch, Shape, Types, Answering
<1>2. screen \in NewScreens
  BY ScreenIsNew
<1>3. screen.no = 1 /\ screen.kind # "edit"
  BY DEF Screen
<1>4. mainQ' = mainQ /\ built'[d] = 1 /\ UNCHANGED <<dbVars, online, answers, histVars, usedIds>>
  BY DEF Launch, budgetVars, Shape, Types
<1>5. CASE user[d] = None
  <2>1. outbox' = outbox /\ stack' = [stack EXCEPT ![d] = <<screen>>]
    BY <1>5 DEF Launch
  <2>2. stack'[d] = <<screen>>
    BY <2>1 DEF Shape, Types
  <2>3. QED BY <1>1, <1>2, <1>3, <1>4, <2>1, <2>2
<1>6. CASE user[d] # None
  <2>1. user[d] \in Users
    BY <1>1, <1>6
  <2>2. op \in GoodRequests
    BY <2>1, RequestIsGood DEF ReadIndex, Reads
  <2>3. Send(d, op) /\ stack' = [stack EXCEPT ![d] = <<Loading(screen, user[d])>>]
    BY <1>6 DEF Launch
  <2> HIDE DEF screen, op
  <2>4. outbox'[d] = Append(<< >>, op) /\ stack'[d] = <<Loading(screen, user[d])>>
    BY <1>1, <2>3 DEF Send, Shape, Types
  <2>5. QED BY <1>1, <1>2, <1>3, <1>4, <2>1, <2>2, <2>4 DEF screen, op
<1>7. QED BY <1>5, <1>6
(* A read for the event of one of the keys that a screen was told.         *)
Reading(op, a) ==
    op.kind = "readEvent" /\ op.user = None /\ op.src = a.op.src /\ op.id \in a.keys

(* One read per key of a: some are sent, the others are answered at once   *)
(* from the pending writes of the device.                                  *)
OneReadPerKey(d, a, sent, found) ==
    /\ \A i \in DOMAIN sent : Reading(sent[i], a)
    /\ \A i \in DOMAIN found : /\ Reading(found[i].op, a)
                               /\ found[i] = LocalAnswer(d, found[i].op)
                               /\ PendingWrites(d, found[i].op.id) # {}
    /\ \A i, j \in DOMAIN sent : sent[i].id = sent[j].id => i = j
    /\ \A i, j \in DOMAIN found : found[i].op.id = found[j].op.id => i = j
    /\ \A i \in DOMAIN sent, j \in DOMAIN found : sent[i].id # found[j].op.id
    /\ \A id \in a.keys : \/ \E i \in DOMAIN sent : sent[i].id = id
                          \/ \E i \in DOMAIN found : found[i].op.id = id

(* What the callback of the list's read sends and queues.                  *)
LEMMA KeysAnswered ==
    ASSUME Shape, NEW d \in Devices, OnReadIndex(d)
    PROVE  LET a == Head(mainQ[d])
           IN  /\ a \in GoodAnswers /\ a.op \in GoodRequests /\ a.op.kind = "readIndex"
               /\ a.op.id = None /\ a.op.user \in Users /\ a.keys \in SUBSET Ids
               /\ mainQ[d] # << >> /\ a.do = "answer"
               /\ UNCHANGED <<dbVars, online, answers, histVars, built, usedIds>>
               /\ \E sent \in Seq(GoodRequests), found \in Seq(GoodAnswers) :
                     /\ outbox'[d] = outbox[d] \o sent
                     /\ mainQ'[d] = Tail(mainQ[d]) \o found
                     /\ OneReadPerKey(d, a, sent, found)
<1> DEFINE a == Head(mainQ[d])
           no == a.op.src
           ReadEvent(id) == Request("readEvent", None, id, None, no)
           local == {id \in a.keys : PendingWrites(d, id) # {}}
           remote == SetToSeq(a.keys \ local)
           known == SetToSeq(local)
           sent == [i \in DOMAIN remote |-> ReadEvent(remote[i])]
           found == [i \in DOMAIN known |-> LocalAnswer(d, ReadEvent(known[i]))]
<1>1. /\ Answered(d, "readIndex") /\ Handling(d, "answer")
      /\ sent \in Seq(GoodRequests) /\ found \in Seq(GoodAnswers)
      /\ outbox' = [outbox EXCEPT ![d] = @ \o sent]
      /\ mainQ' = [mainQ EXCEPT ![d] = Tail(@) \o found]
      /\ UNCHANGED <<dbVars, online, answers, histVars, sessionVars, built, alert, budgetVars>>
  BY OnReadIndexShape
<1>2. /\ a \in GoodAnswers /\ a.op \in GoodRequests /\ a.op.kind = "readIndex"
      /\ a.op.id = None /\ a.op.user \in Users /\ a.keys \in SUBSET Ids
      /\ mainQ[d] # << >> /\ a.do = "answer"
  BY <1>1, HeadIsAnswer, HeadIsTask DEF GoodRequests
<1>3. outbox'[d] = outbox[d] \o sent /\ mainQ'[d] = Tail(mainQ[d]) \o found
  BY <1>1 DEF Shape, Types
<1>4. ASSUME NEW id \in a.keys
      PROVE  LET op == ReadEvent(id) IN Reading(op, a) /\ op.id = id
  BY DEF Request, Reading
<1>5. \A op : LocalAnswer(d, op).op = op
  BY DEF LocalAnswer, Answer
<1> HIDE DEF a, no
<1>6. local \in SUBSET Ids /\ a.keys \ local \in SUBSET Ids
  BY <1>2
<1> HIDE DEF local
<1>7. /\ remote \in Seq(a.keys \ local)
      /\ \A i, j \in DOMAIN remote : remote[i] = remote[j] => i = j
      /\ \A id \in a.keys \ local : \E i \in DOMAIN remote : remote[i] = id
  BY <1>6, KeysInSequence
<1>8. /\ known \in Seq(local)
      /\ \A i, j \in DOMAIN known : known[i] = known[j] => i = j
      /\ \A id \in local : \E i \in DOMAIN known : known[i] = id
  BY <1>6, KeysInSequence
<1>9. local \subseteq a.keys /\ \A id \in local : PendingWrites(d, id) # {}
  BY DEF local
<1>10. /\ \A i \in DOMAIN remote : remote[i] \in a.keys \ local
       /\ \A i \in DOMAIN known : known[i] \in local
  BY <1>7, <1>8
<1> HIDE DEF remote, known
<1>11. DOMAIN sent = DOMAIN remote /\ DOMAIN found = DOMAIN known
  OBVIOUS
<1>12. ASSUME NEW i \in DOMAIN sent PROVE Reading(sent[i], a) /\ sent[i].id = remote[i]
  <2>1. sent[i] = ReadEvent(remote[i]) /\ remote[i] \in a.keys
    BY <1>10
  <2> HIDE DEF sent, ReadEvent
  <2>2. QED BY <1>4, <2>1
<1>13. ASSUME NEW i \in DOMAIN found
       PROVE  /\ Reading(found[i].op, a) /\ found[i] = LocalAnswer(d, found[i].op)
              /\ PendingWrites(d, found[i].op.id) # {} /\ found[i].op.id = known[i]
  <2>1. found[i] = LocalAnswer(d, ReadEvent(known[i])) /\ known[i] \in local
    BY <1>10
  <2>2. known[i] \in a.keys /\ PendingWrites(d, known[i]) # {}
    BY <1>9, <2>1
  <2> HIDE DEF found, ReadEvent
  <2>3. QED BY <1>4, <1>5, <2>1, <2>2
<1> HIDE DEF sent, found
<1>14. /\ \A i, j \in DOMAIN sent : sent[i].id = sent[j].id => i = j
       /\ \A i, j \in DOMAIN found : found[i].op.id = found[j].op.id => i = j
       /\ \A i \in DOMAIN sent, j \in DOMAIN found : sent[i].id # found[j].op.id
  BY <1>7, <1>8, <1>10, <1>11, <1>12, <1>13
<1>15. ASSUME NEW id \in a.keys
       PROVE  \/ \E i \in DOMAIN sent : sent[i].id = id
              \/ \E i \in DOMAIN found : found[i].op.id = id
  BY <1>7, <1>8, <1>11, <1>12, <1>13
<1>16. UNCHANGED <<dbVars, online, answers, histVars, built, usedIds>>
  BY <1>1 DEF budgetVars
<1>17. sent \in Seq(GoodRequests) /\ found \in Seq(GoodAnswers)
  BY <1>1
<1>18. OneReadPerKey(d, a, sent, found)
  BY <1>12, <1>13, <1>14, <1>15 DEF OneReadPerKey
<1>19. QED BY <1>2, <1>3, <1>16, <1>17, <1>18 DEF a

(* ... and what becomes of the load that asked for them.                   *)
LEMMA KeysAreLoaded ==
    ASSUME Shape, NEW d \in Devices, OnReadIndex(d)
    PROVE  LET a == Head(mainQ[d])
           IN  /\ SameScreens(d)
               /\ \A i \in DOMAIN stack[d] :
                     /\ stack'[d][i].rows = stack[d][i].rows
                     /\ stack'[d][i].load =
                           IF i # Position(d, a.op.src) THEN stack[d][i].load
                           ELSE IF ~ a.ok THEN IndexFailed(stack[d][i].load)
                           ELSE IF a.keys = {} THEN IndexIsNull(stack[d][i].load)
                           ELSE IndexFound(stack[d][i].load, a.keys)
<1> DEFINE a == Head(mainQ[d])
           no == a.op.src
           load == stack[d][Position(d, no)].load
           l == IF ~ a.ok THEN IndexFailed(load)
                ELSE IF a.keys = {} THEN IndexIsNull(load) ELSE IndexFound(load, a.keys)
<1>1. SetLoad(d, no, l)
  BY DEF OnReadIndex
<1>2. a.keys \in SUBSET Ids
  BY KeysAnswered
<1>3. ASSUME Position(d, no) # 0 PROVE load \in AnyLoads
  <2>1. Position(d, no) \in DOMAIN stack[d] /\ stack[d] \in Seq(GoodScreens)
    BY <1>3, PositionIs, OutstandingIs
  <2>2. QED BY <2>1 DEF GoodScreens, AnyScreens
<1>4. Position(d, no) # 0 => l \in AnyLoads
  <2> HIDE DEF load, no, a
  <2>1. QED BY <1>2, <1>3, LoadsStayLoads DEF a
<1> HIDE DEF l
<1>5. /\ SameScreens(d)
      /\ \A i \in DOMAIN stack[d] :
            /\ stack'[d][i].load = IF i = Position(d, no) THEN l ELSE stack[d][i].load
            /\ stack'[d][i].rows = stack[d][i].rows
  BY <1>1, <1>4, SetLoadKeepsScreens
<1>6. QED BY <1>5 DEF l

(* The answer to the read of one event.                                    *)
LEMMA EventAnswered ==
    ASSUME Shape, NEW d \in Devices, OnReadEvent(d)
    PROVE  LET a == Head(mainQ[d])
               event == [id |-> a.op.id, text |-> a.text]
           IN  /\ a \in GoodAnswers /\ a.op \in GoodRequests /\ a.op.kind = "readEvent"
               /\ a.op.id \in Ids /\ mainQ[d] # << >> /\ a.do = "answer"
               /\ (a.text # None => event \in EventModel)
               /\ mainQ'[d] = Tail(mainQ[d])
               /\ UNCHANGED <<dbVars, netVars, histVars, built, usedIds>>
               /\ SameScreens(d)
               /\ \A i \in DOMAIN stack[d] :
                     /\ stack'[d][i].rows = stack[d][i].rows
                     /\ stack'[d][i].load =
                           IF i # Position(d, a.op.src) THEN stack[d][i].load
                           ELSE IF a.ok /\ a.text # None THEN EventFound(stack[d][i].load, event)
                           ELSE EventFailed(stack[d][i].load, a.op.id)
<1> DEFINE a == Head(mainQ[d])
           no == a.op.src
           event == [id |-> a.op.id, text |-> a.text]
           load == stack[d][Position(d, no)].load
           l == IF a.ok /\ a.text # None THEN EventFound(load, event)
                ELSE EventFailed(load, a.op.id)
<1>1. /\ SetLoad(d, no, l) /\ Answered(d, "readEvent") /\ Handled(d)
      /\ UNCHANGED <<dbVars, netVars, histVars, sessionVars, built, alert, budgetVars>>
  BY DEF OnReadEvent
<1>2. /\ a \in GoodAnswers /\ a.op \in GoodRequests /\ a.op.kind = "readEvent"
      /\ a.op.id \in Ids /\ a.text \in Texts \cup {None} /\ mainQ[d] # << >> /\ a.do = "answer"
  <2>1. /\ a \in GoodAnswers /\ a.op \in GoodRequests /\ a.op.kind = "readEvent"
        /\ a.text \in Texts \cup {None} /\ Handling(d, "answer")
    BY <1>1, HeadIsAnswer
  <2>2. mainQ[d] # << >> /\ a.do = "answer"
    BY <2>1, HeadIsTask
  <2> HIDE DEF a
  <2>3. a.op.id \in Ids
    BY <2>1 DEF GoodRequests
  <2>4. QED BY <2>1, <2>2, <2>3
<1>3. a.text # None => event \in EventModel
  BY <1>2 DEF EventModel
<1>4. ASSUME Position(d, no) # 0 PROVE load \in AnyLoads
  <2>1. Position(d, no) \in DOMAIN stack[d] /\ stack[d] \in Seq(GoodScreens)
    BY <1>4, PositionIs, OutstandingIs
  <2>2. QED BY <2>1 DEF GoodScreens, AnyScreens
<1>5. Position(d, no) # 0 => l \in AnyLoads
  <2>1. a.op.id \in Ids
    BY <1>2
  <2> HIDE DEF load, no, a, event
  <2>2. QED BY <1>3, <1>4, <2>1, LoadsStayLoads DEF a
<1> HIDE DEF l
<1>6. /\ SameScreens(d)
      /\ \A i \in DOMAIN stack[d] :
            /\ stack'[d][i].load = IF i = Position(d, no) THEN l ELSE stack[d][i].load
            /\ stack'[d][i].rows = stack[d][i].rows
  BY <1>1, <1>5, SetLoadKeepsScreens
<1>7. mainQ'[d] = Tail(mainQ[d])
  BY <1>1 DEF Handled, Shape, Types
<1>8. QED BY <1>1, <1>2, <1>3, <1>6, <1>7 DEF l, budgetVars
(* Taps and answers that only queue a block of their own, if any.          *)
LEMMA QuietSteps ==
    ASSUME Shape, NEW d \in Devices,
           DidTapLogOut(d) \/ DidCancelLogOut(d) \/ DidTapLogIn(d) \/ SignInAnswered(d)
    PROVE  /\ UNCHANGED <<dbVars, netVars, histVars, stack, built, usedIds>>
           /\ \/ mainQ'[d] = mainQ[d]
              \/ \E t \in GoodTasks : t.do \in {"signedIn", "alert"} /\ mainQ'[d] = Append(mainQ[d], t)
<1>1. UNCHANGED <<dbVars, netVars, histVars, stack, built, usedIds>>
  BY DEF DidTapLogOut, DidCancelLogOut, DidTapLogIn, SignInAnswered, screenVars, budgetVars
<1>2. \/ mainQ' = mainQ
      \/ \E t \in GoodTasks : t.do \in {"signedIn", "alert"} /\ Post(d, t)
  <2>1. ASSUME NEW from \in Nat, NEW do \in {"signedIn", "alert"}
        PROVE  [do |-> do, from |-> from] \in GoodTasks
    BY DEF GoodTasks
  <2>2. CASE DidTapLogOut(d)
    <3>1. Top(d).no \in Nat /\ Post(d, [do |-> "alert", from |-> Top(d).no])
      BY <2>2, TopIsScreen DEF DidTapLogOut
    <3>2. QED BY <2>1, <3>1
  <2>3. CASE DidCancelLogOut(d) \/ DidTapLogIn(d)
    BY <2>3 DEF DidCancelLogOut, DidTapLogIn
  <2>4. CASE SignInAnswered(d)
    <3>1. PICK call \in signIns[d] : mainQ' = mainQ \/ Post(d, [do |-> "signedIn", from |-> call.from])
      BY <2>4 DEF SignInAnswered
    <3>2. call.from \in Nat
      BY DEF Shape, Types
    <3>3. QED BY <2>1, <3>1, <3>2
  <2>5. QED BY <2>2, <2>3, <2>4
<1>3. \A t : Post(d, t) => mainQ'[d] = Append(mainQ[d], t)
  BY DEF Post, Shape, Types
<1>4. QED BY <1>1, <1>2, <1>3

(* Back: the top screen is popped.                                         *)
LEMMA BackPops ==
    ASSUME Shape, NEW d \in Devices, DidTapBack(d)
    PROVE  /\ DOMAIN stack'[d] \subseteq DOMAIN stack[d]
           /\ \A i \in DOMAIN stack'[d] : stack'[d][i] = stack[d][i]
           /\ UNCHANGED <<dbVars, netVars, mainQ, histVars, built, usedIds>>
<1>1. stack' = [stack EXCEPT ![d] = Front(@)] /\ Len(stack[d]) > 1
      /\ UNCHANGED <<dbVars, netVars, mainQ, histVars, built, usedIds>>
  BY DEF DidTapBack, budgetVars
<1> DEFINE n == Len(stack[d])
           s == Front(stack[d])
<1>2. stack'[d] = s /\ stack[d] \in Seq(GoodScreens)
  BY <1>1 DEF Shape, Types
<1>3. n \in Nat /\ n > 1 /\ DOMAIN stack[d] = 1 .. n /\ s = SubSeq(stack[d], 1, n - 1)
  BY <1>1, <1>2 DEF Front
<1>4. 1 \in 1 .. n + 1 /\ n - 1 \in 1 - 1 .. n /\ (n - 1) - 1 + 1 = n - 1
  BY <1>3
<1> HIDE DEF n
<1>5. Len(s) = n - 1 /\ s \in Seq(GoodScreens) /\ \A i \in 1 .. n - 1 : s[i] = stack[d][i]
  <2>1. /\ SubSeq(stack[d], 1, n - 1) \in Seq(GoodScreens)
        /\ Len(SubSeq(stack[d], 1, n - 1)) = n - 1
        /\ \A i \in 1 .. n - 1 : SubSeq(stack[d], 1, n - 1)[i] = stack[d][1 + i - 1]
    BY <1>2, <1>3, <1>4, SubSeqProperties DEF n
  <2>2. QED BY <1>3, <2>1
<1> HIDE DEF s
<1>6. DOMAIN s = 1 .. n - 1
  BY <1>5
<1>7. QED BY <1>1, <1>2, <1>3, <1>5, <1>6

-----------------------------------------------------------------------------
(* No screen, no block and no request at first.                            *)
LEMMA NumberedInit == Init => Numbered
<1>1. SUFFICES ASSUME Init, NEW d \in Devices
               PROVE  Nos(stack[d], mainQ[d], built[d], Outstanding(d))
  BY DEF Numbered
<1>2. stack[d] = << >> /\ mainQ[d] = << >> /\ outbox[d] = << >>
  BY <1>1 DEF Init, ClientInit
<1>3. Outstanding(d) = {}
  BY <1>2 DEF Outstanding, ToSet
<1>4. QED BY <1>2, <1>3 DEF Nos

(* What the end of a process leaves: nothing in memory, and its half-done  *)
(* writes torn.                                                            *)
LEMMA StopEmpties ==
    ASSUME Shape, NEW d \in Devices, NEW why, Stop(d, why)
    PROVE  /\ stack'[d] = << >> /\ mainQ'[d] = << >> /\ outbox'[d] = << >> /\ answers'[d] = << >>
           /\ Outstanding(d)' = {} /\ Handed(mainQ'[d]) = {} /\ Pushed(mainQ'[d]) = {}
           /\ torn' = torn \cup HalfDone(d) /\ UNCHANGED <<dbVars, usedIds, revived>>
<1>1. stack'[d] = << >> /\ mainQ'[d] = << >> /\ outbox'[d] = << >> /\ answers'[d] = << >>
  BY DEF Stop, ForgetDevice, Shape, Types
<1>2. Outstanding(d)' = {}
  BY <1>1 DEF Outstanding, ToSet
<1>3. QED BY <1>1, <1>2 DEF Stop, Handed, Pushed, ToSet, budgetVars

(* So nothing is left that could share a number.                           *)
LEMMA StopIsNumbered ==
    ASSUME Shape, Numbered, NEW d \in Devices, NEW why, Stop(d, why)
    PROVE  Numbered'
<1>1. Nos(stack'[d], mainQ'[d], built'[d], Outstanding(d)')
  BY StopEmpties DEF Nos
<1>2. QED BY <1>1, StopIsApart, NumberedStays

(* Every step keeps the screens, the blocks and the reads numbered apart.  *)
LEMMA NumberedStep ==
    ASSUME Shape, Shape', Numbered, NEW d \in Devices, StepOf(d)
    PROVE  Numbered'
<1> DEFINE st == stack[d]
           q == mainQ[d]
           b == built[d]
           ops == Outstanding(d)
           Goal == Nos(stack'[d], mainQ'[d], built'[d], Outstanding(d)')
<1>1. Apart(d)
  BY StepIsApart
<1>2. Nos(st, q, b, ops)
  BY DEF Numbered
<1>3. /\ st \in Seq(GoodScreens) /\ q \in Seq(GoodTasks) /\ b \in Nat /\ ops \in SUBSET GoodRequests
      /\ outbox[d] \in Seq(GoodRequests)
  BY OutstandingIs
<1>4. Goal => Numbered'
  BY <1>1, NumberedStays
<1>5. q # << >> => /\ Nos(st, Tail(q), b, ops) /\ Tail(q) \in Seq(GoodTasks)
                   /\ Handed(Tail(q)) \subseteq Handed(q)
  BY <1>2, <1>3, NosOfTail, QueueShrinks
<1> HIDE DEF Goal
<1>6. CASE Launch(d)
  <2> DEFINE s == Screen(1, IF user[d] = None THEN "auth" ELSE "home", None, NoEvent)
             op == ReadIndex(user[d], 1)
  <2>1. op.src = 1
    BY DEF ReadIndex, Request
  <2>2. /\ s \in GoodScreens /\ s.no = 1 /\ mainQ'[d] = << >> /\ built'[d] = 1
        /\ \/ outbox'[d] = << >> /\ stack'[d] = <<s>>
           \/ user[d] \in Users /\ outbox'[d] = <<op>> /\ stack'[d] = <<Loading(s, user[d])>>
    BY <1>6, LaunchingStep DEF NewScreens
  <2> HIDE DEF s, op
  <2>3. user[d] \in Users => Loading(s, user[d]).no = 1
    BY <2>2, LoadingIs
  <2>4. Outstanding(d)' \subseteq {op}
    BY <2>2 DEF Outstanding, ToSet
  <2>5. DOMAIN stack'[d] = {1} /\ stack'[d][1].no = 1
    BY <2>2, <2>3
  <2>6. Nos(stack'[d], mainQ'[d], built'[d], Outstanding(d)')
    BY <2>1, <2>2, <2>4, <2>5 DEF Nos
  <2>7. QED BY <1>4, <2>6 DEF Goal
<1>7. CASE \E why : Stop(d, why)
  BY <1>7, StopIsNumbered
<1>8. CASE \E screen : Navigates(d, screen)
  BY <1>1, <1>8, NavigatesIsNumbered
<1>9. CASE DidTapLogOut(d) \/ DidCancelLogOut(d) \/ DidTapLogIn(d) \/ SignInAnswered(d)
  <2>1. /\ UNCHANGED <<netVars, stack, built>>
        /\ \/ mainQ'[d] = q
           \/ \E t \in GoodTasks : t.do \in {"signedIn", "alert"} /\ mainQ'[d] = Append(q, t)
    BY <1>9, QuietSteps
  <2>2. Handed(mainQ'[d]) = Handed(q) /\ Nos(st, mainQ'[d], b, ops)
    BY <1>2, <1>3, <2>1, QueueGrows, NosWithTask DEF IsPush
  <2>3. Outstanding(d)' \subseteq ops
    BY <2>1, <2>2, OutstandingAfter DEF netVars
  <2>4. QED BY <1>4, <2>1, <2>2, <2>3, NosWithFewerReads DEF Goal
<1>10. CASE DidTapBack(d)
  <2>1. /\ DOMAIN stack'[d] \subseteq DOMAIN st /\ \A i \in DOMAIN stack'[d] : stack'[d][i] = st[i]
        /\ UNCHANGED <<netVars, mainQ, built>>
    BY <1>10, BackPops
  <2>2. Outstanding(d)' = ops
    BY <2>1 DEF netVars, Outstanding
  <2>3. Nos(stack'[d], q, b, ops)
    BY <1>2, <2>1, NosWithOtherScreens
  <2>4. QED BY <1>4, <2>1, <2>2, <2>3 DEF Goal
<1>11. ASSUME NEW op \in GoodRequests, ~ IsRead(op), outbox'[d] = Append(outbox[d], op),
              mainQ'[d] = q, built'[d] = b, SameScreens(d) \/ stack'[d] = st
       PROVE  Numbered'
  <2>1. Outstanding(d)' \subseteq ops \cup {op}
    BY <1>11, OutstandingAfter
  <2>2. Nos(st, q, b, Outstanding(d)')
    BY <1>2, <1>11, <2>1, NosWithFewerReads
  <2>3. Nos(stack'[d], q, b, Outstanding(d)')
    BY <1>11, <2>2, NosWithOtherScreens DEF SameScreens
  <2>4. QED BY <1>4, <1>11, <2>3 DEF Goal
<1>12. CASE DidTapDelete(d)
  <2>1. PICK op \in GoodRequests : /\ op.kind = "deleteEvent" /\ outbox'[d] = Append(outbox[d], op)
                                   /\ UNCHANGED <<mainQ, built>> /\ SameScreens(d)
    BY <1>12, DeleteTakesRow DEF Request
  <2>2. QED BY <1>11, <2>1 DEF IsRead, Reads
<1>13. CASE DidTapSaveEvent(d) /\ Top(d).user # None
  <2>1. PICK op \in GoodRequests : /\ op.kind = "saveIndex" /\ outbox'[d] = Append(outbox[d], op)
                                   /\ UNCHANGED <<mainQ, built, stack>>
    BY <1>13, SendingTaps DEF Request
  <2>2. QED BY <1>11, <2>1 DEF IsRead, Reads
<1>14. CASE DidTapUpdate(d)
  <2>1. PICK op \in GoodRequests : /\ op.kind = "updateEvent" /\ outbox'[d] = Append(outbox[d], op)
                                   /\ UNCHANGED <<mainQ, built, stack>>
    BY <1>14, SendingTaps DEF Request
  <2>2. QED BY <1>11, <2>1 DEF IsRead, Reads
<1>15. CASE RunPush(d)
  <2> DEFINE task == Head(q)
             op == ReadIndex(user[d], task.screen.no)
             home == Loading(task.screen, user[d])
  <2>1. /\ q # << >> /\ IsPush(task) /\ task.screen \in GoodScreens
        /\ \/ \E why : Stop(d, why)
           \/ /\ mainQ'[d] = Tail(q) /\ built'[d] = b
              /\ \/ outbox'[d] = outbox[d] /\ stack'[d] = st
                 \/ outbox'[d] = outbox[d] /\ stack'[d] = Append(st, task.screen)
                 \/ /\ user[d] \in Users /\ op \in GoodRequests
                    /\ outbox'[d] = Append(outbox[d], op) /\ stack'[d] = Append(st, home)
    BY <1>15, PushingStep DEF NewScreens
  <2>2. op.src = task.screen.no
    BY DEF ReadIndex, Request
  <2>3. user[d] \in Users => home \in GoodScreens /\ home.no = task.screen.no
    BY <2>1, LoadingIs
  <2> HIDE DEF task, op, home
  <2>4. CASE \E why : Stop(d, why)
    BY <1>7, <2>4
  <2>5. CASE mainQ'[d] = Tail(q) /\ built'[d] = b /\ outbox'[d] = outbox[d] /\ stack'[d] = st
    BY <1>4, <1>5, <2>1, <2>5, OutstandingAfter, NosWithFewerReads DEF Goal
  <2>6. CASE /\ mainQ'[d] = Tail(q) /\ built'[d] = b /\ outbox'[d] = outbox[d]
             /\ stack'[d] = Append(st, task.screen)
    <3>1. Nos(Append(st, task.screen), Tail(q), b, ops)
      BY <1>2, <1>3, <2>1, NosOfPush DEF task
    <3>2. Outstanding(d)' \subseteq ops
      BY <1>5, <2>1, <2>6, OutstandingAfter
    <3>3. QED BY <1>4, <2>6, <3>1, <3>2, NosWithFewerReads DEF Goal
  <2>7. CASE /\ mainQ'[d] = Tail(q) /\ built'[d] = b /\ user[d] \in Users /\ op \in GoodRequests
             /\ outbox'[d] = Append(outbox[d], op) /\ stack'[d] = Append(st, home)
    <3>1. /\ Nos(Append(st, home), Tail(q), b, ops) /\ home.no <= b
          /\ \A i \in DOMAIN Tail(q) : IsPush(Tail(q)[i]) => Tail(q)[i].screen.no # home.no
      BY <1>2, <1>3, <2>1, <2>3, <2>7, NosOfPush DEF task
    <3>2. Nos(Append(st, home), Tail(q), b, ops \cup {op})
      <4> DEFINE n == Append(st, home)
                 r == Tail(q)
      <4>1. op.src = home.no
        BY <2>2, <2>3, <2>7
      <4> HIDE DEF n, r
      <4>2. QED BY <3>1, <4>1 DEF Nos, n, r
    <3>3. Outstanding(d)' \subseteq ops \cup {op}
      BY <1>5, <2>1, <2>7, OutstandingAfter
    <3>4. QED BY <1>4, <2>7, <3>2, <3>3, NosWithFewerReads DEF Goal
  <2>8. QED BY <2>1, <2>4, <2>5, <2>6, <2>7
<1>16. CASE OnAlert(d) \/ OnDeleteIndex(d) \/ (OnSaved(d) /\ ~ Head(q).ok)
  <2>1. q # << >> /\ mainQ'[d] = Tail(q) /\ UNCHANGED <<netVars, stack, built>>
    BY <1>16, OnlyHandledSteps
  <2>2. QED BY <1>4, <1>5, <2>1, OutstandingAfter, NosWithFewerReads DEF Goal, netVars
<1>17. CASE OnSaveIndex(d) \/ OnDeleteEvent(d)
  <2>1. \/ \E why : Stop(d, why)
        \/ /\ q # << >> /\ mainQ'[d] = Tail(q) /\ UNCHANGED <<stack, built>>
           /\ \/ outbox'[d] = outbox[d]
              \/ \E op \in GoodRequests : op.kind \in {"saveEvent", "deleteIndex"}
                                           /\ outbox'[d] = Append(outbox[d], op)
    <3> DEFINE a == Head(q)
               kind == IF a.op.kind = "saveIndex" THEN "saveEvent" ELSE "deleteIndex"
               op == [a.op EXCEPT !.kind = kind, !.redo = FALSE]
    <3>1. a.op \in GoodRequests
      BY <1>17, ContinuingSteps
    <3>2. op.kind = kind /\ kind \in {"saveEvent", "deleteIndex"}
      BY <3>1 DEF GoodRequests, Requests
    <3>3. \/ \E why : Stop(d, why)
          \/ /\ q # << >> /\ mainQ'[d] = Tail(q) /\ UNCHANGED <<stack, built>>
             /\ IF a.ok THEN op \in GoodRequests /\ outbox'[d] = Append(outbox[d], op)
                ELSE outbox'[d] = outbox[d]
      BY <1>17, ContinuingSteps
    <3> HIDE DEF op
    <3>4. QED BY <3>2, <3>3
  <2>2. CASE \E why : Stop(d, why)
    BY <1>7, <2>2
  <2>3. CASE q # << >> /\ mainQ'[d] = Tail(q) /\ UNCHANGED <<stack, built>> /\ outbox'[d] = outbox[d]
    BY <1>4, <1>5, <2>3, OutstandingAfter, NosWithFewerReads DEF Goal
  <2>4. ASSUME q # << >>, mainQ'[d] = Tail(q), UNCHANGED <<stack, built>>,
               NEW op \in GoodRequests, op.kind \in {"saveEvent", "deleteIndex"},
               outbox'[d] = Append(outbox[d], op)
        PROVE  Numbered'
    <3>1. Outstanding(d)' \subseteq ops \cup {op} /\ ~ IsRead(op)
      BY <1>5, <2>4, OutstandingAfter DEF IsRead, Reads
    <3>2. Nos(st, Tail(q), b, Outstanding(d)')
      BY <1>5, <2>4, <3>1, NosWithFewerReads
    <3>3. QED BY <1>4, <2>4, <3>2 DEF Goal
  <2>5. QED BY <2>1, <2>2, <2>3, <2>4
<1>18. CASE OnReadIndex(d)
  <2>1. /\ Head(q) \in GoodAnswers /\ Head(q).op.kind = "readIndex" /\ q # << >>
        /\ Handed(q) = Handed(Tail(q)) \cup {Head(q)}
    BY <1>3, <1>18, KeysAnswered, QueueShrinks
  <2>2. PICK sent \in Seq(GoodRequests), found \in Seq(GoodAnswers) :
           /\ outbox'[d] = outbox[d] \o sent /\ mainQ'[d] = Tail(q) \o found
           /\ OneReadPerKey(d, Head(q), sent, found)
    BY <1>18, KeysAnswered
  <2>3. built' = built /\ SameScreens(d)
    BY <1>18, KeysAnswered, KeysAreLoaded
  <2>4. Nos(st, Tail(q) \o found, b, ops)
    BY <1>5, <2>1, NosWithAnswers
  <2>5. \A op \in Outstanding(d)' : IsRead(op) => \E p \in ops : IsRead(p) /\ p.src = op.src
    <3>1. Outstanding(d)' = ToSet(outbox'[d]) \cup {t.op : t \in Handed(mainQ'[d])}
      BY DEF Outstanding, Handed
    <3>2. ToSet(outbox'[d]) = ToSet(outbox[d]) \cup ToSet(sent)
      BY <1>3, <2>2, MembersOfSeq
    <3>3. Handed(mainQ'[d]) = Handed(Tail(q)) \cup ToSet(found)
      BY <1>5, <2>1, <2>2, QueueGrowsByAnswers
    <3>4. \A op \in ToSet(sent) : op.src = Head(q).op.src
      BY <2>2 DEF OneReadPerKey, Reading, ToSet
    <3>5. \A t \in ToSet(found) : t.op.src = Head(q).op.src
      BY <2>2 DEF OneReadPerKey, Reading, ToSet
    <3>6. Head(q).op \in ops /\ IsRead(Head(q).op)
      BY <2>1, OutstandingIs DEF IsRead, Reads
    <3>7. \A op \in Outstanding(d)' : op \in ops \/ op.src = Head(q).op.src
      BY <2>1, <3>1, <3>2, <3>3, <3>4, <3>5, OutstandingIs
    <3>8. QED BY <3>6, <3>7
  <2>6. Nos(st, Tail(q) \o found, b, Outstanding(d)')
    BY <2>4, <2>5, NosWithFewerReads
  <2>7. Nos(stack'[d], Tail(q) \o found, b, Outstanding(d)')
    BY <2>3, <2>6, NosWithOtherScreens DEF SameScreens
  <2>8. QED BY <1>4, <2>2, <2>3, <2>7 DEF Goal
<1>19. CASE OnReadEvent(d)
  <2>1. q # << >> /\ mainQ'[d] = Tail(q) /\ SameScreens(d) /\ UNCHANGED <<netVars, built>>
    BY <1>19, EventAnswered
  <2>2. Nos(st, Tail(q), b, Outstanding(d)')
    BY <1>5, <2>1, OutstandingAfter, NosWithFewerReads DEF netVars
  <2>3. QED BY <1>4, <2>1, <2>2, NosWithOtherScreens DEF Goal, SameScreens
<1>20. CASE Notify(d)
  <2>1. SameScreens(d) /\ UNCHANGED <<netVars, mainQ, built>>
    BY <1>20, NotifyShowsEvents
  <2>2. Outstanding(d)' = ops
    BY <2>1 DEF netVars, Outstanding
  <2>3. QED BY <1>2, <1>4, <2>1, <2>2, NosWithOtherScreens DEF Goal, SameScreens
<1>21. CASE /\ \/ ServerGrants(d) \/ ServerRefuses(d)
               \/ Receive(d) \/ Disconnect(d) \/ Reconnect(d) \/ GetTimesOut(d)
            /\ UNCHANGED appVars
  <2>1. /\ \A op \in Outstanding(d)' : \E p \in ops : Same(op, p)
        /\ mainQ'[d] = q \/ \E a \in GoodAnswers : mainQ'[d] = Append(q, a)
        /\ UNCHANGED <<stack, built>>
    BY <1>21, NetworkMovesRequests DEF appVars, screenVars
  <2>2. \A a \in GoodAnswers : a \in GoodTasks /\ ~ IsPush(a)
    BY DEF GoodTasks, GoodAnswers, Answers, IsPush
  <2>3. Nos(st, mainQ'[d], b, ops)
    BY <1>2, <1>3, <2>1, <2>2, NosWithTask
  <2>4. \A op \in Outstanding(d)' : IsRead(op) => \E p \in ops : IsRead(p) /\ p.src = op.src
    BY <2>1 DEF Same, IsRead
  <2>5. QED BY <1>4, <2>1, <2>3, <2>4, NosWithFewerReads DEF Goal
<1>22. CASE DidTapSaveEvent(d) /\ Top(d).user = None
  BY <1>7, <1>22 DEF DidTapSaveEvent, Trap
<1>23. CASE Kill(d)
  BY <1>7, <1>23 DEF Kill
<1>24. CASE \/ DidTapAddEvent(d) \/ DidTapEdit(d) \/ DidConfirmLogOut(d) \/ OnSignedIn(d)
            \/ (OnSaved(d) /\ Head(q).ok)
  BY <1>8, <1>24, NavigatingSteps
<1>25. QED
  BY <1>6, <1>9, <1>10, <1>12, <1>13, <1>14, <1>15, <1>16, <1>17, <1>18, <1>19, <1>20, <1>21,
     <1>22, <1>23, <1>24 DEF StepOf
-----------------------------------------------------------------------------
(***************************************************************************)
(* Every gap in an account's list is explained (DanglingExplained), and    *)
(* the invariant that says why.                                            *)
(*                                                                         *)
(* Owned: each key was made by one account, and whatever is stored, sent,  *)
(* answered, shown or collected about the key keeps to it. It is needed    *)
(* because childByAutoId never makes a key twice, so that a save or a      *)
(* delete can only open or close the gap of its own account. Covered:      *)
(* where a list names a key without an event, a write that will fill or    *)
(* drop it is under way and was not refused, or the key is marked as torn. *)
(***************************************************************************)

\* Answers on their way to a device, or waiting on its main queue.
Replies(d) == ToSet(answers[d]) \cup Handed(mainQ[d])

\* A request is about a key that was made, and a save or a delete of it is
\* made for its owner; only a row of another account is deleted for nobody.
OpOwned(o, used, cut, op) ==
    /\ op.kind # "readIndex" => op.id \in used
    /\ op.kind \in {"saveIndex", "saveEvent"} => op.user = o[op.id]
    /\ op.kind \in {"deleteEvent", "deleteIndex"} => op.user = o[op.id] \/ op.id \in cut

\* A screen reads the list of its account, and events of its account.
ReadOwned(o, op, s) ==
    IsRead(op) /\ s.no = op.src =>
        s.user = IF op.kind = "readIndex" THEN op.user ELSE o[op.id]

EventsOwned(o, used, u, es) == \A e \in es : e.id \in used /\ o[e.id] = u

ScreenOwned(o, used, s) ==
    /\ EventsOwned(o, used, s.user, s.rows)
    /\ EventsOwned(o, used, s.user, EventsIn(s.load.eventArray))
    /\ EventsOwned(o, used, s.user, EventsIn(s.load.eventS))
    /\ s.kind = "edit" => s.event.id \in used

KeysOwned(o, used, a) ==
    a.op.kind = "readIndex" => \A id \in a.keys : id \in used /\ o[id] = a.op.user

OwnedBy(o) ==
    /\ \A u \in Users : \A id \in index[u] : id \in usedIds /\ o[id] = u
    /\ \A id \in Ids : events[id] # None => id \in usedIds
    /\ \A d \in Devices :
          /\ \A op \in Outstanding(d) : OpOwned(o, usedIds, torn, op)
          /\ \A op \in Outstanding(d) : \A i \in DOMAIN stack[d] : ReadOwned(o, op, stack[d][i])
          /\ \A a \in Replies(d) : KeysOwned(o, usedIds, a)
          /\ \A i \in DOMAIN stack[d] : ScreenOwned(o, usedIds, stack[d][i])
          /\ \A s \in Pushed(mainQ[d]) : ScreenOwned(o, usedIds, s)

Owned == \E o \in [Ids -> Users \cup {None}] : OwnedBy(o)

(* Owners are the same for the keys made so far, and nothing is forgotten.  *)
Agree(o, p) ==
    /\ \A id \in usedIds : p[id] = o[id]
    /\ usedIds \subseteq usedIds' /\ torn \subseteq torn'

(* What was owned stays owned while keys only gain owners.                 *)
LEMMA OldIsOwned ==
    ASSUME NEW o, NEW p, OwnedBy(o), Agree(o, p), NEW d \in Devices
    PROVE  /\ \A op \in Outstanding(d) : \A q : Same(q, op) => OpOwned(p, usedIds', torn', q)
           /\ \A op \in Outstanding(d) : \A i \in DOMAIN stack[d] : \A q, s :
                 Same(q, op) /\ s.no = stack[d][i].no /\ s.user = stack[d][i].user
                    => ReadOwned(p, q, s)
           /\ \A a \in Replies(d) : KeysOwned(p, usedIds', a)
           /\ \A i \in DOMAIN stack[d] : ScreenOwned(p, usedIds', stack[d][i])
           /\ \A s \in Pushed(mainQ[d]) : ScreenOwned(p, usedIds', s)
<1>1. ASSUME NEW op \in Outstanding(d), NEW q, Same(q, op) PROVE OpOwned(p, usedIds', torn', q)
  <2>1. OpOwned(o, usedIds, torn, op)
    BY DEF OwnedBy
  <2>2. QED BY <1>1, <2>1 DEF OpOwned, Same, Agree
<1>2. ASSUME NEW op \in Outstanding(d), NEW i \in DOMAIN stack[d], NEW q, NEW s, Same(q, op),
             s.no = stack[d][i].no, s.user = stack[d][i].user
      PROVE  ReadOwned(p, q, s)
  <2>1. OpOwned(o, usedIds, torn, op) /\ ReadOwned(o, op, stack[d][i])
    BY DEF OwnedBy
  <2>2. QED BY <1>2, <2>1 DEF OpOwned, ReadOwned, Same, Agree, IsRead
<1>3. ASSUME NEW s, ScreenOwned(o, usedIds, s) PROVE ScreenOwned(p, usedIds', s)
  BY <1>3 DEF ScreenOwned, EventsOwned, Agree
<1>4. ASSUME NEW a, KeysOwned(o, usedIds, a) PROVE KeysOwned(p, usedIds', a)
  BY <1>4 DEF KeysOwned, Agree
<1>5. /\ \A a \in Replies(d) : KeysOwned(o, usedIds, a)
      /\ \A i \in DOMAIN stack[d] : ScreenOwned(o, usedIds, stack[d][i])
      /\ \A s \in Pushed(mainQ[d]) : ScreenOwned(o, usedIds, s)
  BY DEF OwnedBy
<1>6. \A a \in Replies(d) : KeysOwned(p, usedIds', a)
  BY <1>4, <1>5
<1>7. /\ \A i \in DOMAIN stack[d] : ScreenOwned(p, usedIds', stack[d][i])
      /\ \A s \in Pushed(mainQ[d]) : ScreenOwned(p, usedIds', s)
  BY <1>3, <1>5
<1>8. QED BY <1>1, <1>2, <1>6, <1>7

(* It is enough to look at the device that takes the step, and at the      *)
(* database.                                                               *)
LEMMA OwnedStays ==
    ASSUME NEW o, NEW p, OwnedBy(o), Agree(o, p), NEW d \in Devices, Apart(d),
           \A u \in Users : \A id \in index'[u] : id \in usedIds' /\ p[id] = u,
           \A id \in Ids : events'[id] # None => id \in usedIds',
           \A op \in Outstanding(d)' : OpOwned(p, usedIds', torn', op),
           \A op \in Outstanding(d)' : \A i \in DOMAIN stack'[d] : ReadOwned(p, op, stack'[d][i]),
           \A a \in Replies(d)' : KeysOwned(p, usedIds', a),
           \A i \in DOMAIN stack'[d] : ScreenOwned(p, usedIds', stack'[d][i]),
           \A s \in Pushed(mainQ'[d]) : ScreenOwned(p, usedIds', s)
    PROVE  OwnedBy(p)'
<1>1. ASSUME NEW e \in Devices, e # d
      PROVE  /\ \A op \in Outstanding(e)' : OpOwned(p, usedIds', torn', op)
             /\ \A op \in Outstanding(e)' : \A i \in DOMAIN stack'[e] : ReadOwned(p, op, stack'[e][i])
             /\ \A a \in Replies(e)' : KeysOwned(p, usedIds', a)
             /\ \A i \in DOMAIN stack'[e] : ScreenOwned(p, usedIds', stack'[e][i])
             /\ \A s \in Pushed(mainQ'[e]) : ScreenOwned(p, usedIds', s)
  <2>1. /\ Outstanding(e)' = Outstanding(e) /\ Replies(e)' = Replies(e)
        /\ stack'[e] = stack[e] /\ mainQ'[e] = mainQ[e]
    BY <1>1 DEF Apart, Outstanding, Replies
  <2>2. \A op : Same(op, op)
    BY DEF Same
  <2>3. /\ \A op \in Outstanding(e) : OpOwned(p, usedIds', torn', op)
        /\ \A op \in Outstanding(e) : \A i \in DOMAIN stack[e] : ReadOwned(p, op, stack[e][i])
    BY <2>2, OldIsOwned
  <2>4. /\ \A a \in Replies(e) : KeysOwned(p, usedIds', a)
        /\ \A i \in DOMAIN stack[e] : ScreenOwned(p, usedIds', stack[e][i])
        /\ \A s \in Pushed(mainQ[e]) : ScreenOwned(p, usedIds', s)
    BY OldIsOwned
  <2>5. QED BY <2>1, <2>3, <2>4
<1>2. \A e \in Devices :
         /\ \A op \in Outstanding(e)' : OpOwned(p, usedIds', torn', op)
         /\ \A op \in Outstanding(e)' : \A i \in DOMAIN stack'[e] : ReadOwned(p, op, stack'[e][i])
         /\ \A a \in Replies(e)' : KeysOwned(p, usedIds', a)
         /\ \A i \in DOMAIN stack'[e] : ScreenOwned(p, usedIds', stack'[e][i])
         /\ \A s \in Pushed(mainQ'[e]) : ScreenOwned(p, usedIds', s)
  <2>1. TAKE e \in Devices
  <2>2. CASE e = d
    BY <2>2
  <2>3. CASE e # d
    BY <2>3, <1>1
  <2>4. QED BY <2>2, <2>3
<1>3. QED BY <1>2 DEF OwnedBy

(* Steps that leave the trees as they are: what is new has its owners.     *)
LEMMA OwnedByNews ==
    ASSUME NEW o, NEW p, OwnedBy(o), Agree(o, p), NEW d \in Devices, Apart(d), UNCHANGED dbVars,
           \A op \in Outstanding(d)' :
              \/ \E q \in Outstanding(d) : Same(op, q)
              \/ /\ OpOwned(p, usedIds', torn', op)
                 /\ \A i \in DOMAIN stack'[d] : ReadOwned(p, op, stack'[d][i]),
           \A i \in DOMAIN stack'[d] :
              \/ \A op \in Outstanding(d)' : ReadOwned(p, op, stack'[d][i])
              \/ /\ i \in DOMAIN stack[d]
                 /\ stack'[d][i].no = stack[d][i].no /\ stack'[d][i].user = stack[d][i].user,
           \A a \in Replies(d)' : a \in Replies(d) \/ KeysOwned(p, usedIds', a),
           \A i \in DOMAIN stack'[d] : \/ i \in DOMAIN stack[d] /\ stack'[d][i] = stack[d][i]
                                       \/ ScreenOwned(p, usedIds', stack'[d][i]),
           \A s \in Pushed(mainQ'[d]) : s \in Pushed(mainQ[d]) \/ ScreenOwned(p, usedIds', s)
    PROVE  OwnedBy(p)'
<1>1. /\ \A u \in Users : \A id \in index'[u] : id \in usedIds' /\ p[id] = u
      /\ \A id \in Ids : events'[id] # None => id \in usedIds'
  BY DEF OwnedBy, dbVars, Agree
<1>2. \A op \in Outstanding(d)' : OpOwned(p, usedIds', torn', op)
  BY OldIsOwned
<1>3. \A op \in Outstanding(d)' : \A i \in DOMAIN stack'[d] : ReadOwned(p, op, stack'[d][i])
  BY OldIsOwned
<1>4. \A a \in Replies(d)' : KeysOwned(p, usedIds', a)
  BY OldIsOwned
<1>5. \A i \in DOMAIN stack'[d] : ScreenOwned(p, usedIds', stack'[d][i])
  <2>1. \A i \in DOMAIN stack[d] : ScreenOwned(p, usedIds', stack[d][i])
    BY OldIsOwned
  <2>2. TAKE i \in DOMAIN stack'[d]
  <2>3. CASE i \in DOMAIN stack[d] /\ stack'[d][i] = stack[d][i]
    BY <2>1, <2>3
  <2>4. QED BY <2>3
<1>6. \A s \in Pushed(mainQ'[d]) : ScreenOwned(p, usedIds', s)
  BY OldIsOwned
<1>7. QED BY <1>1, <1>2, <1>3, <1>4, <1>5, <1>6, OwnedStays

(* A block that sends nothing: the requests and the answers are old ones.  *)
LEMMA OwnedByBlock ==
    ASSUME Shape, NEW o, OwnedBy(o), NEW d \in Devices, Apart(d), UNCHANGED <<dbVars, usedIds>>,
           torn \subseteq torn', outbox'[d] = outbox[d], answers'[d] = answers[d],
           Handed(mainQ'[d]) \subseteq Handed(mainQ[d]),
           \A i \in DOMAIN stack'[d] :
              /\ i \in DOMAIN stack[d]
              /\ stack'[d][i].no = stack[d][i].no /\ stack'[d][i].user = stack[d][i].user
              /\ stack'[d][i] = stack[d][i] \/ ScreenOwned(o, usedIds, stack'[d][i]),
           \A s \in Pushed(mainQ'[d]) : s \in Pushed(mainQ[d]) \/ ScreenOwned(o, usedIds, s)
    PROVE  OwnedBy(o)'
<1>1. Agree(o, o) /\ UNCHANGED dbVars /\ usedIds' = usedIds
  BY DEF Agree
<1>2. \A op \in Outstanding(d)' : \E q \in Outstanding(d) : Same(op, q)
  BY OutstandingAfter DEF Same
<1>3. \A a \in Replies(d)' : a \in Replies(d)
  BY DEF Replies
<1>4. QED BY <1>1, <1>2, <1>3, OwnedByNews

(* A screen that only lost rows, or whose load moved on without an event.  *)
LEMMA ScreenStaysOwned ==
    ASSUME NEW o, NEW used, NEW s, ScreenOwned(o, used, s), NEW t,
           t.user = s.user, t.kind = s.kind, t.event = s.event, t.rows \subseteq s.rows,
           t.load.eventArray = s.load.eventArray, t.load.eventS = s.load.eventS
    PROVE  ScreenOwned(o, used, t)
BY DEF ScreenOwned, EventsOwned

(* A screen just built lists nothing; an Edit screen has an event that was *)
(* shown.                                                                  *)
LEMMA NewScreenIsOwned ==
    ASSUME NEW o, NEW s \in NewScreens, s.kind = "edit" => s.event.id \in usedIds
    PROVE  ScreenOwned(o, usedIds, s)
<1>1. s.rows = {} /\ s.load.eventArray = << >> /\ s.load.eventS = << >>
  BY DEF NewScreens, NewLoad
<1>2. EventsIn(<< >>) = {}
  BY DEF EventsIn
<1>3. QED BY <1>1, <1>2 DEF ScreenOwned, EventsOwned

(* A screen in the navigation stack, and its load.                         *)
LEMMA ShownScreen ==
    ASSUME Shape, NEW d \in Devices, NEW i \in DOMAIN stack[d]
    PROVE  stack[d][i] \in GoodScreens /\ stack[d][i].load \in AnyLoads
<1>1. stack[d] \in Seq(GoodScreens)
  BY OutstandingIs
<1>2. stack[d][i] \in GoodScreens
  BY <1>1
<1>3. QED BY <1>2 DEF GoodScreens, AnyScreens

(* A block of a load that finds no event keeps the events collected so far. *)
LEMMA LoadsCollect ==
    ASSUME NEW l \in AnyLoads, NEW keys, NEW id,
           NEW m \in {IndexFailed(l), IndexIsNull(l), IndexFound(l, keys),
                      EventFailed(l, id), GroupNotify(l)}
    PROVE  m.eventArray = l.eventArray /\ m.eventS = l.eventS
BY DEF AnyLoads, IndexFailed, IndexIsNull, IndexFound, EventFailed, GroupNotify

(* ... and one that finds an event adds just that event to both arrays.    *)
LEMMA EventIsCollected ==
    ASSUME NEW l \in AnyLoads, NEW event \in EventModel
    PROVE  /\ EventsIn(EventFound(l, event).eventArray) = EventsIn(l.eventArray) \cup {event}
           /\ EventsIn(EventFound(l, event).eventS) = EventsIn(l.eventArray) \cup {event}
<1> DEFINE s == l.eventArray
<1>1. s \in Seq(EventModel)
  BY DEF AnyLoads
<1>2. ToSet(Append(s, event)) = ToSet(s) \cup {event} /\ Append(s, event) \in Seq(EventModel)
  BY <1>1, MembersOfSeq, AppendProperties
<1>3. \A t \in Seq(EventModel) : EventsIn(t) = ToSet(t)
  BY DEF EventsIn, ToSet
<1>4. EventFound(l, event).eventArray = Append(s, event) /\ EventFound(l, event).eventS = Append(s, event)
  BY DEF AnyLoads, EventFound
<1>5. QED BY <1>1, <1>2, <1>3, <1>4
(* Taps and callbacks that send and show nothing.                          *)
LEMMA QuietStepsAreOwned ==
    ASSUME Shape, Shape', NEW o, OwnedBy(o), NEW d \in Devices, Apart(d),
           \/ DidTapLogOut(d) \/ DidCancelLogOut(d) \/ DidTapLogIn(d) \/ SignInAnswered(d)
           \/ DidTapBack(d)
           \/ OnAlert(d) \/ OnDeleteIndex(d) \/ (OnSaved(d) /\ ~ Head(mainQ[d]).ok)
    PROVE  OwnedBy(o)'
<1> DEFINE q == mainQ[d]
<1>1. q \in Seq(GoodTasks) /\ UNCHANGED <<dbVars, usedIds>> /\ torn' = torn
      /\ outbox'[d] = outbox[d] /\ answers'[d] = answers[d]
  BY OutstandingIs, QuietSteps, BackPops, OnlyHandledSteps DEF netVars, histVars
<1>2. \A i \in DOMAIN stack'[d] : i \in DOMAIN stack[d] /\ stack'[d][i] = stack[d][i]
  BY QuietSteps, BackPops, OnlyHandledSteps
<1>3. Handed(mainQ'[d]) \subseteq Handed(q) /\ Pushed(mainQ'[d]) \subseteq Pushed(q)
  <2>1. CASE mainQ'[d] = q
    BY <2>1
  <2>2. CASE q # << >> /\ mainQ'[d] = Tail(q)
    BY <1>1, <2>2, QueueShrinks
  <2>3. CASE \E t \in GoodTasks : t.do \in {"signedIn", "alert"} /\ mainQ'[d] = Append(q, t)
    BY <1>1, <2>3, QueueGrows
  <2>4. QED BY <2>1, <2>2, <2>3, QuietSteps, BackPops, OnlyHandledSteps
<1>4. QED BY <1>1, <1>2, <1>3, OwnedByBlock

(* Building a screen makes no key and sends nothing.                       *)
LEMMA NavigationIsOwned ==
    ASSUME Shape, Shape', NEW o, OwnedBy(o), NEW d \in Devices, Apart(d),
           NEW screen, Navigates(d, screen),
           screen.kind = "edit" => screen.event.id \in usedIds
    PROVE  OwnedBy(o)'
<1> DEFINE q == mainQ[d]
<1>1. q \in Seq(GoodTasks) /\ UNCHANGED <<dbVars, usedIds>> /\ torn' = torn
      /\ outbox'[d] = outbox[d] /\ answers'[d] = answers[d] /\ stack' = stack
  BY OutstandingIs DEF Navigates, netVars, histVars, budgetVars
<1>2. PICK r \in {q, Tail(q)}, from \in Nat :
         mainQ'[d] = Append(r, Push(from, screen)) /\ (r # q => q # << >>)
  BY DEF Navigates
<1>3. r \in Seq(GoodTasks) /\ Handed(r) \subseteq Handed(q) /\ Pushed(r) \subseteq Pushed(q)
  BY <1>1, <1>2, QueueShrinks
<1>4. Push(from, screen) \in GoodTasks /\ Push(from, screen).do = "push"
      /\ Push(from, screen).screen = screen
  BY DEF Navigates, Push, GoodTasks
<1>5. /\ Handed(mainQ'[d]) \subseteq Handed(q)
      /\ Pushed(mainQ'[d]) \subseteq Pushed(q) \cup {screen}
  BY <1>2, <1>3, <1>4, QueueGrows
<1>6. ScreenOwned(o, usedIds, screen)
  BY NewScreenIsOwned DEF Navigates
<1>7. QED BY <1>1, <1>5, <1>6, OwnedByBlock

(* The steps that build a screen; Edit takes the event of a row.           *)
LEMMA NavigatingStepsAreOwned ==
    ASSUME Shape, Shape', NEW o, OwnedBy(o), NEW d \in Devices, Apart(d),
           \/ DidTapAddEvent(d) \/ DidTapEdit(d) \/ DidConfirmLogOut(d) \/ OnSignedIn(d)
           \/ (OnSaved(d) /\ Head(mainQ[d]).ok)
    PROVE  OwnedBy(o)'
<1>1. CASE DidTapEdit(d)
  <2>1. PICK screen : Navigates(d, screen) /\ screen.event \in Top(d).rows
    BY <1>1, NavigatingSteps
  <2>2. Top(d) \in ToSet(stack[d]) /\ ScreenOwned(o, usedIds, Top(d))
    BY <1>1, TopIsScreen DEF DidTapEdit, OwnedBy, ToSet
  <2>3. screen.event.id \in usedIds
    BY <2>1, <2>2 DEF ScreenOwned, EventsOwned
  <2>4. QED BY <2>1, <2>3, NavigationIsOwned
<1>2. CASE ~ DidTapEdit(d)
  <2>1. PICK screen : Navigates(d, screen) /\ screen.kind \in {"event", "auth", "home"}
    BY <1>2, NavigatingSteps
  <2>2. QED BY <2>1, NavigationIsOwned
<1>3. QED BY <1>1, <1>2

(* The rows of a screen are the events its load collected.                 *)
LEMMA NotifyIsOwned ==
    ASSUME Shape, Shape', NEW o, OwnedBy(o), NEW d \in Devices, Apart(d), Notify(d)
    PROVE  OwnedBy(o)'
<1>1. /\ UNCHANGED <<dbVars, usedIds>> /\ torn' = torn
      /\ outbox'[d] = outbox[d] /\ answers'[d] = answers[d] /\ mainQ' = mainQ
  BY NotifyShowsEvents DEF netVars, histVars
<1>2. ASSUME NEW i \in DOMAIN stack'[d]
      PROVE  /\ i \in DOMAIN stack[d]
             /\ stack'[d][i].no = stack[d][i].no /\ stack'[d][i].user = stack[d][i].user
             /\ stack'[d][i] = stack[d][i] \/ ScreenOwned(o, usedIds, stack'[d][i])
  <2> DEFINE s == stack[d][i]
             t == stack'[d][i]
  <2>1. i \in DOMAIN stack[d] /\ SameScreens(d)
    BY NotifyShowsEvents DEF SameScreens
  <2>2. t.no = s.no /\ t.kind = s.kind /\ t.user = s.user /\ t.event = s.event
    BY <2>1 DEF SameScreens
  <2>3. CASE t # s
    <3>1. t.load = GroupNotify(s.load) /\ t.rows = EventsIn(s.load.eventS)
      BY <2>1, <2>3, NotifyShowsEvents
    <3>2. s \in GoodScreens /\ s.load \in AnyLoads
      BY <2>1, ShownScreen
    <3>3. t.load.eventArray = s.load.eventArray /\ t.load.eventS = s.load.eventS
      BY <3>1, <3>2, LoadsCollect
    <3>4. ScreenOwned(o, usedIds, s)
      BY <2>1 DEF OwnedBy
    <3>5. ScreenOwned(o, usedIds, t)
      BY <2>2, <3>1, <3>3, <3>4 DEF ScreenOwned
    <3>6. QED BY <2>1, <2>2, <3>5
  <2>4. QED BY <2>1, <2>2, <2>3
<1>3. QED BY <1>1, <1>2, OwnedByBlock

(* The event collected is the one asked for, of a key its account lists.   *)
LEMMA OnReadEventIsOwned ==
    ASSUME Shape, Shape', NEW o, OwnedBy(o), NEW d \in Devices, Apart(d), OnReadEvent(d)
    PROVE  OwnedBy(o)'
<1> DEFINE a == Head(mainQ[d])
           event == [id |-> a.op.id, text |-> a.text]
<1>1. /\ UNCHANGED <<dbVars, usedIds>> /\ torn' = torn /\ mainQ[d] # << >>
      /\ outbox'[d] = outbox[d] /\ answers'[d] = answers[d] /\ mainQ'[d] = Tail(mainQ[d])
      /\ a.do = "answer" /\ a.op.kind = "readEvent" /\ a.op.id \in Ids
      /\ a.text # None => event \in EventModel
  BY EventAnswered DEF netVars, histVars
<1>2. /\ Handed(mainQ'[d]) \subseteq Handed(mainQ[d]) /\ Pushed(mainQ'[d]) = Pushed(mainQ[d])
      /\ a \in Handed(mainQ[d])
  BY <1>1, OutstandingIs, QueueShrinks
<1>3. a.op \in Outstanding(d)
  BY <1>2, OutstandingIs
<1>4. ASSUME NEW i \in DOMAIN stack'[d]
      PROVE  /\ i \in DOMAIN stack[d]
             /\ stack'[d][i].no = stack[d][i].no /\ stack'[d][i].user = stack[d][i].user
             /\ ScreenOwned(o, usedIds, stack'[d][i])
  <2> DEFINE s == stack[d][i]
             t == stack'[d][i]
  <2>1. i \in DOMAIN stack[d] /\ SameScreens(d) /\ t.rows = s.rows
    BY EventAnswered DEF SameScreens
  <2>2. t.no = s.no /\ t.kind = s.kind /\ t.user = s.user /\ t.event = s.event
    BY <2>1 DEF SameScreens
  <2>3. s \in GoodScreens /\ s.load \in AnyLoads
    BY <2>1, ShownScreen
  <2>4. ScreenOwned(o, usedIds, s)
    BY <2>1 DEF OwnedBy
  <2>5. CASE i = Position(d, a.op.src) /\ a.ok /\ a.text # None
    <3>1. t.load = EventFound(s.load, event)
      BY <2>1, <2>5, EventAnswered
    <3>2. /\ EventsIn(t.load.eventArray) = EventsIn(s.load.eventArray) \cup {event}
          /\ EventsIn(t.load.eventS) = EventsIn(s.load.eventArray) \cup {event}
      BY <1>1, <2>3, <2>5, <3>1, EventIsCollected
    <3>3. s.no = a.op.src
      BY <2>1, <2>5, PositionIs
    <3>4. s.user = o[a.op.id] /\ a.op.id \in usedIds
      BY <1>1, <1>3, <2>1, <3>3 DEF OwnedBy, ReadOwned, OpOwned, IsRead, Reads
    <3>5. EventsOwned(o, usedIds, s.user, EventsIn(s.load.eventArray) \cup {event})
      BY <2>4, <3>4 DEF ScreenOwned, EventsOwned
    <3>6. QED BY <2>1, <2>2, <2>4, <3>2, <3>5 DEF ScreenOwned
  <2>6. CASE t.load = s.load \/ t.load = EventFailed(s.load, a.op.id)
    <3>1. t.load.eventArray = s.load.eventArray /\ t.load.eventS = s.load.eventS
      BY <2>3, <2>6, LoadsCollect
    <3>2. QED BY <2>1, <2>2, <2>4, <3>1, ScreenStaysOwned
  <2>7. QED BY <2>1, <2>5, <2>6, EventAnswered
<1>5. QED BY <1>1, <1>2, <1>4, OwnedByBlock
(* One request more, which is not a read.                                  *)
LEMMA OwnedBySending ==
    ASSUME Shape, NEW o, NEW p, OwnedBy(o), Agree(o, p), NEW d \in Devices, Apart(d),
           UNCHANGED dbVars, answers'[d] = answers[d],
           Handed(mainQ'[d]) \subseteq Handed(mainQ[d]),
           Pushed(mainQ'[d]) \subseteq Pushed(mainQ[d]),
           NEW op \in GoodRequests, outbox'[d] = Append(outbox[d], op),
           ~ IsRead(op), OpOwned(p, usedIds', torn', op),
           \A i \in DOMAIN stack'[d] :
              /\ i \in DOMAIN stack[d]
              /\ stack'[d][i].no = stack[d][i].no /\ stack'[d][i].user = stack[d][i].user
              /\ stack'[d][i] = stack[d][i] \/ ScreenOwned(p, usedIds', stack'[d][i])
    PROVE  OwnedBy(p)'
<1>1. \A r \in Outstanding(d)' : r \in Outstanding(d) \/ r = op
  BY OutstandingAfter
<1>2. \A r \in Outstanding(d)' :
         \/ \E q \in Outstanding(d) : Same(r, q)
         \/ /\ OpOwned(p, usedIds', torn', r)
            /\ \A i \in DOMAIN stack'[d] : ReadOwned(p, r, stack'[d][i])
  BY <1>1 DEF Same, ReadOwned
<1>3. \A a \in Replies(d)' : a \in Replies(d)
  BY DEF Replies
<1>4. QED BY <1>2, <1>3, OwnedByNews

(* Update writes an event that was shown, so its key was made.             *)
LEMMA DidTapUpdateIsOwned ==
    ASSUME Shape, NEW o, OwnedBy(o), NEW d \in Devices, Apart(d), DidTapUpdate(d)
    PROVE  OwnedBy(o)'
<1>1. PICK text \in Texts :
         LET op == Request("updateEvent", None, Top(d).event.id, text, Top(d).no)
         IN  /\ op \in GoodRequests /\ outbox'[d] = Append(outbox[d], op)
             /\ Top(d).kind = "edit" /\ Top(d) \in ToSet(stack[d])
             /\ UNCHANGED <<dbVars, online, answers, mainQ, histVars, stack, built, usedIds>>
  BY SendingTaps
<1> DEFINE op == Request("updateEvent", None, Top(d).event.id, text, Top(d).no)
<1>2. ScreenOwned(o, usedIds, Top(d))
  BY <1>1 DEF OwnedBy, ToSet
<1>3. torn' = torn /\ UNCHANGED dbVars /\ answers' = answers /\ mainQ' = mainQ /\ stack' = stack
      /\ usedIds' = usedIds
  BY <1>1 DEF histVars
<1>4. op.kind = "updateEvent" /\ op.id = Top(d).event.id
  BY DEF Request
<1>5. OpOwned(o, usedIds', torn', op) /\ ~ IsRead(op)
  BY <1>1, <1>2, <1>3, <1>4 DEF ScreenOwned, OpOwned, IsRead, Reads
<1>6. Agree(o, o)
  BY <1>3 DEF Agree
<1>7. op \in GoodRequests /\ outbox'[d] = Append(outbox[d], op)
  BY <1>1
<1> HIDE DEF op
<1>8. QED BY <1>3, <1>5, <1>6, <1>7, OwnedBySending

(* Delete is for the account signed in now; if that is not the account of  *)
(* the row, the key is marked at once.                                     *)
LEMMA DidTapDeleteIsOwned ==
    ASSUME Shape, NEW o, OwnedBy(o), NEW d \in Devices, Apart(d), DidTapDelete(d)
    PROVE  OwnedBy(o)'
<1>1. PICK event \in Top(d).rows :
         /\ event \in EventModel
         /\ Request("deleteEvent", user[d], event.id, None, Top(d).no) \in GoodRequests
         /\ outbox'[d] = Append(outbox[d],
                           Request("deleteEvent", user[d], event.id, None, Top(d).no))
         /\ torn' = torn \cup (IF user[d] # Top(d).user THEN {event.id} ELSE {})
         /\ UNCHANGED <<dbVars, online, answers, mainQ, forgotten, revived, built, usedIds>>
         /\ SameScreens(d)
         /\ \A i \in DOMAIN stack[d] : /\ stack'[d][i].load = stack[d][i].load
                                       /\ stack'[d][i].rows \subseteq stack[d][i].rows
  BY DeleteTakesRow
<1> DEFINE op == Request("deleteEvent", user[d], event.id, None, Top(d).no)
<1>2. ScreenOwned(o, usedIds, Top(d))
  BY TopIsScreen DEF DidTapDelete, OwnedBy
<1>3. event.id \in usedIds /\ o[event.id] = Top(d).user
  BY <1>2 DEF ScreenOwned, EventsOwned
<1>4. torn \subseteq torn' /\ UNCHANGED dbVars /\ answers' = answers /\ mainQ' = mainQ
      /\ usedIds' = usedIds
  BY <1>1
<1>5. op.kind = "deleteEvent" /\ op.id = event.id /\ op.user = user[d]
  BY DEF Request
<1>6. OpOwned(o, usedIds', torn', op) /\ ~ IsRead(op)
  BY <1>1, <1>3, <1>4, <1>5 DEF OpOwned, IsRead, Reads
<1>7. Agree(o, o)
  BY <1>4 DEF Agree
<1>8. ASSUME NEW i \in DOMAIN stack'[d]
      PROVE  /\ i \in DOMAIN stack[d]
             /\ stack'[d][i].no = stack[d][i].no /\ stack'[d][i].user = stack[d][i].user
             /\ ScreenOwned(o, usedIds', stack'[d][i])
  <2>1. /\ i \in DOMAIN stack[d] /\ stack'[d][i].no = stack[d][i].no
        /\ stack'[d][i].kind = stack[d][i].kind /\ stack'[d][i].user = stack[d][i].user
        /\ stack'[d][i].event = stack[d][i].event
    BY <1>1 DEF SameScreens
  <2>2. ScreenOwned(o, usedIds', stack[d][i])
    BY <1>4, <2>1 DEF OwnedBy
  <2>3. QED BY <1>1, <2>1, <2>2, ScreenStaysOwned
<1>9. op \in GoodRequests /\ outbox'[d] = Append(outbox[d], op)
  BY <1>1
<1> HIDE DEF op
<1>10. QED BY <1>4, <1>6, <1>7, <1>8, <1>9, OwnedBySending

(* A save makes the key, for the account its screen was made for.          *)
LEMMA DidTapSaveEventIsOwned ==
    ASSUME Shape, NEW o \in [Ids -> Users \cup {None}], OwnedBy(o), NEW d \in Devices, Apart(d),
           DidTapSaveEvent(d), Top(d).user # None
    PROVE  Owned'
<1>1. PICK text \in Texts, id \in Ids \ usedIds :
         LET op == Request("saveIndex", Top(d).user, id, text, Top(d).no)
         IN  /\ op \in GoodRequests /\ outbox'[d] = Append(outbox[d], op)
             /\ usedIds' = usedIds \cup {id} /\ Top(d).user \in Users
             /\ UNCHANGED <<dbVars, online, answers, mainQ, histVars, stack, built>>
  BY SendingTaps
<1> DEFINE op == Request("saveIndex", Top(d).user, id, text, Top(d).no)
<1>2. torn' = torn /\ UNCHANGED dbVars /\ answers' = answers /\ mainQ' = mainQ /\ stack' = stack
  BY <1>1 DEF histVars
<1>3. PICK p \in [Ids -> Users \cup {None}] : p[id] = Top(d).user /\ Agree(o, p)
  <2>1. [o EXCEPT ![id] = Top(d).user] \in [Ids -> Users \cup {None}]
    BY <1>1
  <2>2. Agree(o, [o EXCEPT ![id] = Top(d).user])
    BY <1>1, <1>2 DEF Agree, Shape, Types
  <2>3. QED BY <2>1, <2>2
<1>4. op.kind = "saveIndex" /\ op.id = id /\ op.user = Top(d).user
  BY DEF Request
<1>5. OpOwned(p, usedIds', torn', op) /\ ~ IsRead(op)
  BY <1>1, <1>3, <1>4 DEF OpOwned, IsRead, Reads
<1>6. op \in GoodRequests /\ outbox'[d] = Append(outbox[d], op)
  BY <1>1
<1> HIDE DEF op
<1>7. OwnedBy(p)'
  BY <1>2, <1>3, <1>5, <1>6, OwnedBySending
<1>8. QED BY <1>3, <1>7 DEF Owned

(* The end of a process takes what was under way.                          *)
LEMMA StopIsOwned ==
    ASSUME Shape, NEW o, OwnedBy(o), NEW d \in Devices, NEW why, Stop(d, why)
    PROVE  OwnedBy(o)'
<1>1. /\ stack'[d] = << >> /\ answers'[d] = << >> /\ Outstanding(d)' = {}
      /\ Handed(mainQ'[d]) = {} /\ Pushed(mainQ'[d]) = {}
      /\ torn \subseteq torn' /\ UNCHANGED dbVars /\ usedIds' = usedIds
  BY StopEmpties
<1>2. Replies(d)' = {} /\ DOMAIN stack'[d] = {}
  BY <1>1 DEF Replies, ToSet
<1>3. Agree(o, o)
  BY <1>1 DEF Agree
<1>4. QED BY <1>1, <1>2, <1>3, StopIsApart, OwnedByNews

(* The second step is for the account of the first.                        *)
LEMMA ContinuingIsOwned ==
    ASSUME Shape, NEW o, OwnedBy(o), NEW d \in Devices, Apart(d),
           OnSaveIndex(d) \/ OnDeleteEvent(d)
    PROVE  OwnedBy(o)'
<1> DEFINE a == Head(mainQ[d])
           kind == IF a.op.kind = "saveIndex" THEN "saveEvent" ELSE "deleteIndex"
           op == [a.op EXCEPT !.kind = kind, !.redo = FALSE]
<1>1. /\ a \in GoodAnswers /\ a.op \in GoodRequests /\ mainQ[d] # << >>
      /\ a.op.kind \in {"saveIndex", "deleteEvent"}
      /\ Handed(mainQ[d]) = Handed(Tail(mainQ[d])) \cup {a}
      /\ Pushed(mainQ[d]) = Pushed(Tail(mainQ[d]))
      /\ \/ \E why : Stop(d, why)
         \/ /\ mainQ'[d] = Tail(mainQ[d])
            /\ UNCHANGED <<dbVars, online, answers, histVars, stack, built, usedIds>>
            /\ \/ op \in GoodRequests /\ outbox'[d] = Append(outbox[d], op)
               \/ outbox'[d] = outbox[d]
  BY ContinuingSteps
<1>2. CASE \E why : Stop(d, why)
  BY <1>2, StopIsOwned
<1>3. CASE /\ mainQ'[d] = Tail(mainQ[d])
           /\ UNCHANGED <<dbVars, online, answers, histVars, stack, built, usedIds>>
           /\ \/ op \in GoodRequests /\ outbox'[d] = Append(outbox[d], op)
              \/ outbox'[d] = outbox[d]
  <2>1. torn' = torn /\ UNCHANGED dbVars /\ answers' = answers /\ stack' = stack /\ usedIds' = usedIds
        /\ Handed(mainQ'[d]) \subseteq Handed(mainQ[d])
        /\ Pushed(mainQ'[d]) \subseteq Pushed(mainQ[d])
    BY <1>1, <1>3 DEF histVars
  <2>2. CASE outbox'[d] = outbox[d]
    BY <2>1, <2>2, OwnedByBlock
  <2>3. CASE op \in GoodRequests /\ outbox'[d] = Append(outbox[d], op)
    <3>1. a.op \in Outstanding(d)
      BY <1>1, OutstandingIs
    <3>2. OpOwned(o, usedIds, torn, a.op)
      BY <3>1 DEF OwnedBy
    <3>3. op.kind = kind /\ op.id = a.op.id /\ op.user = a.op.user
      BY <1>1 DEF GoodRequests, Requests
    <3>4. OpOwned(o, usedIds', torn', op) /\ ~ IsRead(op)
      BY <1>1, <2>1, <3>2, <3>3 DEF OpOwned, IsRead, Reads
    <3>5. Agree(o, o)
      BY <2>1 DEF Agree
    <3> HIDE DEF op
    <3>6. QED BY <2>1, <2>3, <3>4, <3>5, OwnedBySending
  <2>4. QED BY <1>3, <2>2, <2>3
<1> HIDE DEF op
<1>4. QED BY <1>1, <1>2, <1>3
(* A screen pushed on the stack: no read of before has its number.         *)
LEMMA OwnedByPush ==
    ASSUME Shape, NEW o, OwnedBy(o), NEW d \in Devices, Apart(d),
           UNCHANGED <<dbVars, answers, histVars, usedIds>>,
           Handed(mainQ'[d]) \subseteq Handed(mainQ[d]),
           Pushed(mainQ'[d]) \subseteq Pushed(mainQ[d]),
           NEW s \in GoodScreens, stack'[d] = Append(stack[d], s), ScreenOwned(o, usedIds, s),
           \A op \in Outstanding(d) : IsRead(op) => op.src # s.no,
           \A op \in Outstanding(d)' :
              \/ op \in Outstanding(d)
              \/ /\ op.kind = "readIndex" /\ s.user = op.user /\ s.no = op.src
                 /\ \A i \in DOMAIN stack[d] : stack[d][i].no # op.src
    PROVE  OwnedBy(o)'
<1>1. /\ UNCHANGED dbVars /\ usedIds' = usedIds /\ torn' = torn /\ answers' = answers
  BY DEF histVars
<1>2. Agree(o, o)
  BY <1>1 DEF Agree
<1>3. stack[d] \in Seq(GoodScreens)
  BY OutstandingIs
<1>4. ASSUME NEW i \in DOMAIN stack'[d]
      PROVE  \/ i \in DOMAIN stack[d] /\ stack'[d][i] = stack[d][i]
             \/ stack'[d][i] = s
  BY <1>3, AppendProperties
<1>5. \A op \in Outstanding(d)' : ReadOwned(o, op, s)
  BY DEF ReadOwned, IsRead
<1>6. ASSUME NEW op \in Outstanding(d)', op \notin Outstanding(d)
      PROVE  OpOwned(o, usedIds', torn', op) /\ \A i \in DOMAIN stack'[d] : ReadOwned(o, op, stack'[d][i])
  BY <1>4, <1>5, <1>6 DEF OpOwned, ReadOwned
<1>7. \A op : Same(op, op)
  BY DEF Same
<1>8. \A a \in Replies(d)' : a \in Replies(d)
  BY <1>1 DEF Replies
<1>9. QED BY <1>1, <1>2, <1>4, <1>5, <1>6, <1>7, <1>8, OwnedByNews

(* A Home that is pushed loads the list of the account signed in.          *)
LEMMA RunPushIsOwned ==
    ASSUME Shape, Numbered, NEW o, OwnedBy(o), NEW d \in Devices, Apart(d), RunPush(d)
    PROVE  OwnedBy(o)'
<1> DEFINE q == mainQ[d]
           task == Head(q)
           op == ReadIndex(user[d], task.screen.no)
           home == Loading(task.screen, user[d])
<1>1. /\ q # << >> /\ IsPush(task) /\ task \in GoodTasks /\ task.screen \in NewScreens
      /\ q \in Seq(GoodTasks) /\ stack[d] \in Seq(GoodScreens)
  BY PushingStep, OutstandingIs
<1>2. /\ Handed(Tail(q)) \subseteq Handed(q) /\ Pushed(Tail(q)) \subseteq Pushed(q)
      /\ task.screen \in Pushed(q)
  BY <1>1, QueueShrinks DEF IsPush
<1>3. ScreenOwned(o, usedIds, task.screen)
  BY <1>2 DEF OwnedBy
<1>4. \A r \in Outstanding(d) : IsRead(r) => r.src # task.screen.no
  <2>1. Nos(stack[d], q, built[d], Outstanding(d)) /\ task.screen \in GoodScreens
    BY <1>1 DEF Numbered, NewScreens
  <2>2. QED BY <1>1, <2>1, NosOfPush
<1>5. \A i \in DOMAIN stack[d] : stack[d][i].no # task.screen.no
  <2>1. 1 \in DOMAIN q /\ q[1] = task
    BY <1>1
  <2>2. QED BY <1>1, <2>1 DEF Numbered, Nos
<1>6. \/ \E why \in Traps : Stop(d, why)
      \/ /\ mainQ'[d] = Tail(q)
         /\ UNCHANGED <<dbVars, online, answers, histVars, built, usedIds>>
         /\ \/ outbox'[d] = outbox[d] /\ stack'[d] = stack[d]
            \/ outbox'[d] = outbox[d] /\ stack'[d] = Append(stack[d], task.screen)
            \/ /\ user[d] \in Users /\ op \in GoodRequests
               /\ outbox'[d] = Append(outbox[d], op) /\ stack'[d] = Append(stack[d], home)
  BY PushingStep
<1>7. CASE \E why \in Traps : Stop(d, why)
  BY <1>7, StopIsOwned
<1>8. CASE /\ mainQ'[d] = Tail(q)
           /\ UNCHANGED <<dbVars, online, answers, histVars, built, usedIds>>
           /\ outbox'[d] = outbox[d]
           /\ stack'[d] = stack[d] \/ stack'[d] = Append(stack[d], task.screen)
  <2>1. /\ UNCHANGED <<dbVars, answers, histVars, usedIds>> /\ torn' = torn
        /\ Outstanding(d)' \subseteq Outstanding(d)
    BY <1>2, <1>8, OutstandingAfter DEF histVars
  <2>2. CASE stack'[d] = stack[d]
    BY <1>2, <1>8, <2>1, <2>2, OwnedByBlock
  <2>3. CASE stack'[d] = Append(stack[d], task.screen)
    <3>1. task.screen \in GoodScreens
      BY <1>1 DEF NewScreens
    <3>2. QED BY <1>2, <1>3, <1>4, <1>8, <2>1, <2>3, <3>1, OwnedByPush
  <2>4. QED BY <1>8, <2>2, <2>3
<1>9. CASE /\ mainQ'[d] = Tail(q)
           /\ UNCHANGED <<dbVars, online, answers, histVars, built, usedIds>>
           /\ user[d] \in Users /\ op \in GoodRequests
           /\ outbox'[d] = Append(outbox[d], op) /\ stack'[d] = Append(stack[d], home)
  <2>1. /\ UNCHANGED <<dbVars, answers, histVars, usedIds>>
        /\ Outstanding(d)' \subseteq Outstanding(d) \cup {op}
    BY <1>2, <1>9, OutstandingAfter
  <2>2. task.screen \in GoodScreens /\ task.screen.load = NewLoad
    BY <1>1 DEF NewScreens
  <2>3. /\ home \in GoodScreens /\ home.no = task.screen.no /\ home.user = user[d]
        /\ home.kind = task.screen.kind /\ home.event = task.screen.event
        /\ home.rows = task.screen.rows /\ home.load = AskIndex(NewLoad)
    BY <1>9, <2>2, LoadingIs
  <2>4. op.kind = "readIndex" /\ op.user = user[d] /\ op.src = task.screen.no
    BY DEF ReadIndex, Request
  <2>5. ScreenOwned(o, usedIds, home)
    <3>1. task.screen.rows = {} /\ EventsIn(<< >>) = {}
      BY <1>1 DEF NewScreens, EventsIn
    <3>2. home.load.eventArray = << >> /\ home.load.eventS = << >>
      BY <2>3 DEF AskIndex, NewLoad
    <3>3. QED BY <1>3, <2>3, <3>1, <3>2 DEF ScreenOwned, EventsOwned
  <2> HIDE DEF op, home
  <2>6. \A r \in Outstanding(d)' :
           \/ r \in Outstanding(d)
           \/ /\ r.kind = "readIndex" /\ home.user = r.user /\ home.no = r.src
              /\ \A i \in DOMAIN stack[d] : stack[d][i].no # r.src
    BY <1>5, <2>1, <2>3, <2>4
  <2>7. QED BY <1>2, <1>4, <1>9, <2>1, <2>3, <2>5, <2>6, OwnedByPush
<1> HIDE DEF op, home
<1>10. QED BY <1>6, <1>7, <1>8, <1>9

(* So does the Home a launch shows.                                        *)
LEMMA LaunchIsOwned ==
    ASSUME Shape, Shape', NEW o, OwnedBy(o), NEW d \in Devices, Apart(d), Launch(d)
    PROVE  OwnedBy(o)'
<1> DEFINE screen == Screen(1, IF user[d] = None THEN "auth" ELSE "home", None, NoEvent)
           op == ReadIndex(user[d], 1)
           home == Loading(screen, user[d])
<1>1. /\ screen \in NewScreens /\ screen.no = 1 /\ screen.kind # "edit"
      /\ answers[d] = << >> /\ mainQ'[d] = << >>
      /\ UNCHANGED <<dbVars, online, answers, histVars, usedIds>>
      /\ \/ outbox'[d] = << >> /\ stack'[d] = <<screen>>
         \/ /\ user[d] \in Users /\ op \in GoodRequests
            /\ outbox'[d] = <<op>> /\ stack'[d] = <<home>>
  BY LaunchingStep
<1>2. /\ Handed(mainQ'[d]) = {} /\ Pushed(mainQ'[d]) = {}
  BY <1>1 DEF Handed, Pushed, ToSet
<1>3. /\ Outstanding(d)' = ToSet(outbox'[d]) /\ Replies(d)' = {}
  <2>1. Outstanding(d)' = ToSet(outbox'[d]) \cup {t.op : t \in Handed(mainQ'[d])}
    BY DEF Outstanding, Handed
  <2>2. Replies(d)' = ToSet(answers'[d]) \cup Handed(mainQ'[d])
    BY DEF Replies
  <2>3. QED BY <1>1, <1>2, <2>1, <2>2 DEF ToSet
<1>4. Agree(o, o) /\ UNCHANGED dbVars /\ usedIds' = usedIds
  BY <1>1 DEF Agree, histVars
<1>5. screen \in GoodScreens /\ screen.load = NewLoad /\ ScreenOwned(o, usedIds, screen)
  BY <1>1, NewScreenIsOwned DEF NewScreens
<1>6. CASE outbox'[d] = << >> /\ stack'[d] = <<screen>>
  <2>1. Outstanding(d)' = {}
    BY <1>3, <1>6 DEF ToSet
  <2> HIDE DEF screen
  <2>2. QED BY <1>2, <1>3, <1>4, <1>5, <1>6, <2>1, OwnedByNews
<1>7. CASE user[d] \in Users /\ op \in GoodRequests /\ outbox'[d] = <<op>> /\ stack'[d] = <<home>>
  <2>1. op.kind = "readIndex" /\ op.user = user[d] /\ op.src = 1
    BY DEF ReadIndex, Request
  <2>2. /\ home \in GoodScreens /\ home.no = screen.no /\ home.user = user[d]
        /\ home.kind = screen.kind /\ home.event = screen.event
        /\ home.rows = screen.rows /\ home.load = AskIndex(NewLoad)
    BY <1>5, <1>7, LoadingIs
  <2>3. screen.rows = {} /\ EventsIn(<< >>) = {}
    BY <1>1 DEF NewScreens, EventsIn
  <2>4. home.load.eventArray = << >> /\ home.load.eventS = << >>
    BY <2>2 DEF AskIndex, NewLoad
  <2> HIDE DEF op, home, screen
  <2>5. ScreenOwned(o, usedIds', home)
    BY <1>1, <2>2, <2>3, <2>4 DEF ScreenOwned, EventsOwned
  <2>6. \A r \in Outstanding(d)' : r = op
    BY <1>3, <1>7 DEF ToSet
  <2>7. OpOwned(o, usedIds', torn', op) /\ ReadOwned(o, op, home)
    BY <2>1, <2>2 DEF OpOwned, ReadOwned
  <2>8. \A i \in DOMAIN stack'[d] : stack'[d][i] = home
    BY <1>7
  <2>9. QED BY <1>2, <1>3, <1>4, <2>5, <2>6, <2>7, <2>8, OwnedByNews
<1> HIDE DEF op, home, screen
<1>8. QED BY <1>1, <1>6, <1>7
(* The keys asked for are those of the list that was answered.             *)
LEMMA OnReadIndexIsOwned ==
    ASSUME Shape, NEW o, OwnedBy(o), NEW d \in Devices, Apart(d), OnReadIndex(d)
    PROVE  OwnedBy(o)'
<1> DEFINE a == Head(mainQ[d])
           q == mainQ[d]
<1>1. /\ a \in GoodAnswers /\ a.op \in GoodRequests /\ a.op.kind = "readIndex"
      /\ a.keys \in SUBSET Ids /\ q # << >> /\ a.do = "answer"
      /\ UNCHANGED <<dbVars, online, answers, histVars, built, usedIds>>
      /\ \E sent \in Seq(GoodRequests), found \in Seq(GoodAnswers) :
            /\ outbox'[d] = outbox[d] \o sent
            /\ mainQ'[d] = Tail(q) \o found
            /\ OneReadPerKey(d, a, sent, found)
  BY KeysAnswered
<1>2. PICK sent \in Seq(GoodRequests), found \in Seq(GoodAnswers) :
            /\ outbox'[d] = outbox[d] \o sent
            /\ mainQ'[d] = Tail(q) \o found
            /\ OneReadPerKey(d, a, sent, found)
  BY <1>1
<1>3. /\ q \in Seq(GoodTasks) /\ outbox[d] \in Seq(GoodRequests) /\ stack[d] \in Seq(GoodScreens)
      /\ Outstanding(d) = ToSet(outbox[d]) \cup {t.op : t \in Handed(q)}
      /\ Outstanding(d)' = ToSet(outbox'[d]) \cup {t.op : t \in Handed(mainQ'[d])}
  BY OutstandingIs DEF Outstanding, Handed
<1>4. /\ Tail(q) \in Seq(GoodTasks) /\ Handed(q) = Handed(Tail(q)) \cup {a}
      /\ Pushed(Tail(q)) \subseteq Pushed(q)
  BY <1>1, <1>3, QueueShrinks
<1>5. /\ Handed(mainQ'[d]) = Handed(Tail(q)) \cup ToSet(found)
      /\ Pushed(mainQ'[d]) \subseteq Pushed(q)
  BY <1>2, <1>4, QueueGrowsByAnswers
<1>6. ToSet(outbox'[d]) = ToSet(outbox[d]) \cup ToSet(sent)
  BY <1>2, <1>3, MembersOfSeq
<1>7. /\ \A op \in ToSet(sent) : Reading(op, a)
      /\ \A t \in ToSet(found) : Reading(t.op, a)
  BY <1>2 DEF OneReadPerKey, ToSet
<1>8. \A op \in Outstanding(d)' : op \in Outstanding(d) \/ Reading(op, a)
  BY <1>3, <1>4, <1>5, <1>6, <1>7
<1>9. a.op \in Outstanding(d) /\ a \in Replies(d)
  BY <1>3, <1>4 DEF Replies
<1>10. KeysOwned(o, usedIds, a)
  BY <1>9 DEF OwnedBy
<1>11. /\ SameScreens(d)
       /\ \A i \in DOMAIN stack[d] :
             /\ stack'[d][i].rows = stack[d][i].rows
             /\ stack'[d][i].load \in {stack[d][i].load, IndexFailed(stack[d][i].load),
                        IndexIsNull(stack[d][i].load), IndexFound(stack[d][i].load, a.keys)}
  BY KeysAreLoaded
<1>12. ASSUME NEW i \in DOMAIN stack'[d]
       PROVE  /\ i \in DOMAIN stack[d]
              /\ stack'[d][i].no = stack[d][i].no /\ stack'[d][i].user = stack[d][i].user
              /\ ScreenOwned(o, usedIds', stack'[d][i])
  <2>1. /\ i \in DOMAIN stack[d] /\ stack'[d][i].no = stack[d][i].no
        /\ stack'[d][i].kind = stack[d][i].kind /\ stack'[d][i].user = stack[d][i].user
        /\ stack'[d][i].event = stack[d][i].event
    BY <1>11 DEF SameScreens
  <2>2. ScreenOwned(o, usedIds', stack[d][i]) /\ stack[d][i].load \in AnyLoads
    BY <1>1, <2>1, ShownScreen DEF OwnedBy
  <2> DEFINE l == stack[d][i].load
             m == stack'[d][i].load
  <2>3. m.eventArray = l.eventArray /\ m.eventS = l.eventS
    <3>1. m = l \/ m \in {IndexFailed(l), IndexIsNull(l), IndexFound(l, a.keys)}
      BY <1>11, <2>1
    <3> HIDE DEF l, m
    <3>2. l \in AnyLoads
      BY <2>2 DEF l
    <3>3. QED BY <3>1, <3>2, LoadsCollect
  <2>4. QED BY <1>11, <2>1, <2>2, <2>3, ScreenStaysOwned
<1>13. ASSUME NEW op \in Outstanding(d)', Reading(op, a)
       PROVE  /\ OpOwned(o, usedIds', torn', op)
              /\ \A i \in DOMAIN stack'[d] : ReadOwned(o, op, stack'[d][i])
  <2>1. op.kind = "readEvent" /\ op.src = a.op.src /\ op.id \in usedIds /\ o[op.id] = a.op.user
    BY <1>1, <1>10, <1>13 DEF Reading, KeysOwned
  <2>2. OpOwned(o, usedIds', torn', op)
    BY <1>1, <2>1 DEF OpOwned
  <2>3. \A i \in DOMAIN stack[d] : ReadOwned(o, a.op, stack[d][i])
    BY <1>9 DEF OwnedBy
  <2>4. QED BY <1>1, <1>12, <2>1, <2>2, <2>3 DEF ReadOwned, IsRead, Reads
<1>14. \A r \in Replies(d)' : r \in Replies(d) \/ KeysOwned(o, usedIds', r)
  <2>1. Replies(d)' = ToSet(answers[d]) \cup Handed(mainQ'[d])
    BY <1>1 DEF Replies
  <2>2. \A t \in ToSet(found) : KeysOwned(o, usedIds', t)
    BY <1>7 DEF KeysOwned, Reading
  <2>3. QED BY <1>4, <1>5, <2>1, <2>2 DEF Replies
<1>15. Agree(o, o) /\ UNCHANGED dbVars
  BY <1>1 DEF Agree, histVars
<1>16. \A op : Same(op, op)
  BY DEF Same
<1>17. QED BY <1>5, <1>8, <1>12, <1>13, <1>14, <1>15, <1>16, OwnedByNews

(* Answers under way are only moved or lost, but for the server's and for  *)
(* the failed reads: these have no keys.                                   *)
LEMMA NetworkMovesReplies ==
    ASSUME Shape, NEW d \in Devices,
           ServerRefuses(d) \/ Receive(d) \/ Disconnect(d) \/ Reconnect(d) \/ GetTimesOut(d)
    PROVE  \A a \in Replies(d)' : a \in Replies(d) \/ (a.keys = {} /\ ~ a.ok /\ a.text = None)
<1>1. /\ answers \in [Devices -> Seq(GoodAnswers)] /\ outbox \in [Devices -> Seq(GoodRequests)]
      /\ mainQ \in [Devices -> Seq(GoodTasks)]
  BY DEF Shape, Types
<1>2. \A op : /\ Refused(op).keys = {} /\ ~ Refused(op).ok /\ Refused(op).do = "answer"
              /\ Refused(op).text = None
  BY DEF Refused, Answer
<1>3. CASE ServerRefuses(d)
  <2>1. /\ answers'[d] = Append(answers[d], Refused(NextRequest(d))) /\ mainQ' = mainQ
        /\ NextRequest(d) \in GoodRequests
    BY <1>1, <1>3, UnprocessedIs DEF ServerRefuses
  <2>2. Refused(NextRequest(d)) \in GoodAnswers
    BY <2>1, AnswerIsGood DEF Refused
  <2>3. ToSet(answers'[d]) = ToSet(answers[d]) \cup {Refused(NextRequest(d))}
    BY <1>1, <2>1, <2>2, MembersOfSeq
  <2>4. QED BY <1>2, <2>1, <2>3 DEF Replies
<1>4. CASE Receive(d)
  <2>1. /\ answers[d] # << >> /\ answers'[d] = Tail(answers[d])
        /\ mainQ'[d] = Append(mainQ[d], Head(answers[d]))
    BY <1>1, <1>4 DEF Receive
  <2>2. Head(answers[d]) \in GoodAnswers /\ Head(answers[d]) \in GoodTasks
    BY <1>1, <2>1 DEF GoodTasks
  <2>3. ToSet(answers[d]) = ToSet(answers'[d]) \cup {Head(answers[d])}
    BY <1>1, <2>1, MembersOfSeq
  <2>4. Handed(mainQ'[d]) \subseteq Handed(mainQ[d]) \cup {Head(answers[d])}
    BY <1>1, <2>1, <2>2, QueueGrows
  <2>5. QED BY <2>3, <2>4 DEF Replies
<1>5. CASE Disconnect(d)
  <2>1. answers'[d] = << >> /\ mainQ' = mainQ
    BY <1>1, <1>5 DEF Disconnect
  <2>2. QED BY <2>1 DEF Replies, ToSet
<1>6. CASE Reconnect(d)
  BY <1>6 DEF Reconnect, Replies
<1>7. CASE GetTimesOut(d)
  <2>1. PICK i \in DOMAIN outbox[d] :
           mainQ'[d] = Append(mainQ[d], Refused(outbox[d][i])) /\ answers' = answers
    BY <1>1, <1>7 DEF GetTimesOut
  <2>2. outbox[d][i] \in GoodRequests
    BY <1>1
  <2>3. Refused(outbox[d][i]) \in GoodTasks
    BY <2>2, AnswerIsGood DEF Refused, GoodTasks
  <2>4. Handed(mainQ'[d]) \subseteq Handed(mainQ[d]) \cup {Refused(outbox[d][i])}
    BY <1>1, <2>1, <2>3, QueueGrows
  <2>5. QED BY <1>2, <2>1, <2>4 DEF Replies
<1>8. QED BY <1>3, <1>4, <1>5, <1>6, <1>7

(* The network carries requests and answers as they are.                   *)
LEMMA NetworkIsOwned ==
    ASSUME Shape, NEW o, OwnedBy(o), NEW d \in Devices, Apart(d), UNCHANGED appVars,
           ServerRefuses(d) \/ Receive(d) \/ Disconnect(d) \/ Reconnect(d) \/ GetTimesOut(d)
    PROVE  OwnedBy(o)'
<1>1. /\ UNCHANGED dbVars /\ torn \subseteq torn'
  BY DEF ServerRefuses, Receive, Disconnect, Reconnect, GetTimesOut, histVars
<1>2. usedIds' = usedIds /\ stack' = stack
  BY DEF appVars, screenVars, budgetVars
<1>3. /\ \A op \in Outstanding(d)' : \E p \in Outstanding(d) : Same(op, p)
      /\ mainQ'[d] = mainQ[d] \/ \E a \in GoodAnswers : mainQ'[d] = Append(mainQ[d], a)
  BY NetworkMovesRequests
<1>4. Pushed(mainQ'[d]) = Pushed(mainQ[d])
  <2>1. ASSUME NEW a \in GoodAnswers PROVE Pushed(Append(mainQ[d], a)) = Pushed(mainQ[d])
    <3>1. a \in GoodTasks /\ a.do = "answer" /\ mainQ[d] \in Seq(GoodTasks)
      BY OutstandingIs DEF GoodTasks, GoodAnswers, Answers
    <3>2. QED BY <3>1, QueueGrows
  <2>2. CASE mainQ'[d] # mainQ[d]
    <3>1. PICK a \in GoodAnswers : mainQ'[d] = Append(mainQ[d], a)
      BY <1>3, <2>2
    <3>2. QED BY <2>1, <3>1
  <2>3. QED BY <2>2
<1>5. \A a \in Replies(d)' : a \in Replies(d) \/ KeysOwned(o, usedIds', a)
  BY NetworkMovesReplies DEF KeysOwned
<1>6. Agree(o, o)
  BY <1>1, <1>2 DEF Agree
<1>7. QED BY <1>1, <1>2, <1>3, <1>4, <1>5, <1>6, OwnedByNews

(* The server's answer: a saved key is listed by its owner, an event that  *)
(* is written has a key that was made, and a list is told as it is.        *)
LEMMA GrantIsOwned ==
    ASSUME Shape, NEW o, OwnedBy(o), NEW d \in Devices, Apart(d), UNCHANGED appVars, ServerGrants(d)
    PROVE  OwnedBy(o)'
<1> DEFINE op == NextRequest(d)
<1>1. /\ op \in GoodRequests /\ answers[d] \in Seq(GoodAnswers) /\ outbox[d] \in Seq(GoodRequests)
      /\ Len(answers[d]) + 1 \in 1 .. Len(outbox[d]) /\ op = outbox[d][Len(answers[d]) + 1]
  BY UnprocessedIs DEF ServerGrants
<1>2. /\ index' = IndexAfter(op) /\ events' = EventsAfter(op) /\ outbox' = outbox /\ mainQ' = mainQ
      /\ answers'[d] = Append(answers[d], Granted(op)) /\ torn' = torn
  BY DEF ServerGrants, Shape, Types
<1>3. usedIds' = usedIds /\ stack' = stack
  BY DEF appVars, screenVars, budgetVars
<1>4. op \in Outstanding(d)
  BY <1>1, OutstandingIs DEF ToSet
<1>5. OpOwned(o, usedIds, torn, op)
  BY <1>4 DEF OwnedBy
<1>6. index \in [Users -> SUBSET Ids] /\ events \in [Ids -> Texts \cup {None}]
  BY DEF Shape, Types
<1>7. \A u \in Users : \A id \in index'[u] : id \in usedIds' /\ o[id] = u
  <2>1. \A u \in Users : \A id \in index[u] : id \in usedIds /\ o[id] = u
    BY DEF OwnedBy
  <2>2. CASE op.kind = "saveIndex"
    <3>1. index' = [index EXCEPT ![op.user] = @ \cup {op.id}]
      BY <1>2, <2>2 DEF IndexAfter
    <3>2. op.id \in usedIds /\ o[op.id] = op.user
      BY <1>5, <2>2 DEF OpOwned
    <3> HIDE DEF op
    <3>3. QED BY <1>3, <1>6, <2>1, <3>1, <3>2
  <2>3. CASE op.kind # "saveIndex"
    <3>1. index' = index \/ index' = [index EXCEPT ![op.user] = @ \ {op.id}]
      BY <1>2, <2>3 DEF IndexAfter
    <3> HIDE DEF op
    <3>2. QED BY <1>3, <1>6, <2>1, <3>1
  <2>4. QED BY <2>2, <2>3
<1>8. \A id \in Ids : events'[id] # None => id \in usedIds'
  <2>1. \A id \in Ids : events[id] # None => id \in usedIds
    BY DEF OwnedBy
  <2>2. \/ events' = events
        \/ op.id \in usedIds /\ (\E text : events' = [events EXCEPT ![op.id] = text])
    <3>1. CASE op.kind \in {"saveEvent", "updateEvent", "deleteEvent"}
      <4>1. \E text : events' = [events EXCEPT ![op.id] = text]
        BY <1>2, <3>1 DEF EventsAfter
      <4>2. QED BY <1>5, <3>1, <4>1 DEF OpOwned
    <3>2. CASE op.kind \notin {"saveEvent", "updateEvent", "deleteEvent"}
      BY <1>2, <3>2 DEF EventsAfter
    <3>3. QED BY <3>1, <3>2
  <2> HIDE DEF op
  <2>3. QED BY <1>3, <1>6, <2>1, <2>2
<1>9. Outstanding(d)' = Outstanding(d)
  BY <1>2 DEF Outstanding
<1>10. Granted(op) \in GoodAnswers
  <2>1. op.kind = "readIndex" => index[op.user] \in SUBSET Ids
    BY <1>1, <1>6 DEF GoodRequests
  <2>2. op.kind = "readEvent" => events[op.id] \in Texts \cup {None}
    BY <1>1, <1>6 DEF GoodRequests
  <2> HIDE DEF op
  <2>3. QED BY <1>1, <2>1, <2>2, AnswerIsGood DEF Granted
<1>11. \A a \in Replies(d)' : a \in Replies(d) \/ a = Granted(op)
  BY <1>1, <1>2, <1>10, MembersOfSeq DEF Replies
<1>12. KeysOwned(o, usedIds, Granted(op))
  <2>1. Granted(op).op = op /\ (op.kind = "readIndex" => Granted(op).keys = index[op.user])
    BY DEF Granted, Answer
  <2>2. op.kind = "readIndex" => op.user \in Users
    BY <1>1 DEF GoodRequests
  <2> HIDE DEF op
  <2>3. QED BY <2>1, <2>2 DEF KeysOwned, OwnedBy
<1>13. Agree(o, o)
  BY <1>2, <1>3 DEF Agree
<1> HIDE DEF op
<1>14. /\ \A r \in Outstanding(d)' : OpOwned(o, usedIds', torn', r)
       /\ \A r \in Outstanding(d)' : \A i \in DOMAIN stack'[d] : ReadOwned(o, r, stack'[d][i])
       /\ \A i \in DOMAIN stack'[d] : ScreenOwned(o, usedIds', stack'[d][i])
       /\ \A s \in Pushed(mainQ'[d]) : ScreenOwned(o, usedIds', s)
  BY <1>2, <1>3, <1>9 DEF OwnedBy
<1>15. \A a \in Replies(d)' : KeysOwned(o, usedIds', a)
  BY <1>3, <1>11, <1>12 DEF OwnedBy
<1>16. QED BY <1>7, <1>8, <1>13, <1>14, <1>15, OwnedStays

(* At first a key belongs to the account that lists it.                    *)
LEMMA OwnedInit == Init => Owned
<1> SUFFICES ASSUME Init PROVE Owned
  OBVIOUS
<1> DEFINE o == [id \in Ids |-> IF \E u \in Users : id \in Saved[u]
                                THEN CHOOSE u \in Users : id \in Saved[u] ELSE None]
<1>1. o \in [Ids -> Users \cup {None}]
  OBVIOUS
<1>2. index = Saved /\ usedIds = UNION {Saved[u] : u \in Users}
  BY DEF Init
<1>3. \A u \in Users : \A id \in index[u] : id \in usedIds /\ o[id] = u
  <2>1. TAKE u \in Users
  <2>2. TAKE id \in index[u]
  <2>3. id \in usedIds /\ id \in Ids /\ id \in Saved[u]
    BY <1>2, SavedType
  <2>4. \A v \in Users : id \in Saved[v] => v = u
    BY <2>3, SavedType
  <2>5. QED BY <2>3, <2>4
<1>4. \A id \in Ids : events[id] # None => id \in usedIds
  BY <1>2, NoneIsNothing DEF Init
<1>5. \A d \in Devices : /\ Outstanding(d) = {} /\ Replies(d) = {} /\ DOMAIN stack[d] = {}
                         /\ Pushed(mainQ[d]) = {}
  BY DEF Init, ClientInit, Outstanding, Replies, Handed, Pushed, ToSet
<1> HIDE DEF o
<1>6. OwnedBy(o)
  BY <1>3, <1>4, <1>5 DEF OwnedBy
<1>7. QED BY <1>1, <1>6 DEF Owned

(* Every step keeps each key with the account it was made for.             *)
LEMMA OwnedStep ==
    ASSUME Shape, Shape', Numbered, Owned, NEW d \in Devices, StepOf(d)
    PROVE  Owned'
<1>1. PICK o \in [Ids -> Users \cup {None}] : OwnedBy(o)
  BY DEF Owned
<1>2. Apart(d)
  BY StepIsApart
<1>3. ASSUME OwnedBy(o)' PROVE Owned'
  BY <1>3 DEF Owned
<1>4. CASE \/ DidTapLogOut(d) \/ DidCancelLogOut(d) \/ DidTapLogIn(d) \/ SignInAnswered(d)
           \/ DidTapBack(d)
           \/ OnAlert(d) \/ OnDeleteIndex(d) \/ (OnSaved(d) /\ ~ Head(mainQ[d]).ok)
  BY <1>1, <1>2, <1>3, <1>4, QuietStepsAreOwned
<1>5. CASE \/ DidTapAddEvent(d) \/ DidTapEdit(d) \/ DidConfirmLogOut(d) \/ OnSignedIn(d)
           \/ (OnSaved(d) /\ Head(mainQ[d]).ok)
  BY <1>1, <1>2, <1>3, <1>5, NavigatingStepsAreOwned
<1>6. CASE Launch(d) \/ Notify(d) \/ RunPush(d) \/ OnReadEvent(d) \/ OnReadIndex(d)
  BY <1>1, <1>2, <1>3, <1>6, LaunchIsOwned, NotifyIsOwned, RunPushIsOwned, OnReadEventIsOwned,
     OnReadIndexIsOwned
<1>7. CASE Kill(d) \/ (DidTapSaveEvent(d) /\ Top(d).user = None)
  <2>1. \E why : Stop(d, why)
    BY <1>7 DEF Kill, DidTapSaveEvent, Trap
  <2>2. QED BY <1>1, <1>3, <2>1, StopIsOwned
<1>8. CASE DidTapSaveEvent(d) /\ Top(d).user # None
  BY <1>1, <1>2, <1>8, DidTapSaveEventIsOwned
<1>9. CASE DidTapDelete(d) \/ DidTapUpdate(d) \/ OnSaveIndex(d) \/ OnDeleteEvent(d)
  BY <1>1, <1>2, <1>3, <1>9, DidTapDeleteIsOwned, DidTapUpdateIsOwned, ContinuingIsOwned
<1>10. CASE \/ (ServerGrants(d) /\ UNCHANGED appVars) \/ (ServerRefuses(d) /\ UNCHANGED appVars)
            \/ (Receive(d) /\ UNCHANGED appVars) \/ (Disconnect(d) /\ UNCHANGED appVars)
            \/ (Reconnect(d) /\ UNCHANGED appVars) \/ (GetTimesOut(d) /\ UNCHANGED appVars)
  BY <1>1, <1>2, <1>3, <1>10, GrantIsOwned, NetworkIsOwned
<1>11. QED BY <1>4, <1>5, <1>6, <1>7, <1>8, <1>9, <1>10 DEF StepOf
-----------------------------------------------------------------------------
(* The requests after the first n, which are the ones with an answer.      *)
Unanswered(out, n) == {out[i] : i \in {j \in DOMAIN out : j > n}}

Live(d) == Unanswered(outbox[d], Len(answers[d]))

(* A half-done write of a device will be finished, or will be called torn. *)
Closes(a) == a.ok /\ a.op.kind \in {"saveIndex", "deleteEvent"}

\* A write that closes the gap at a key: under way, or owed by an answer.
Covers(d, id) ==
    \/ \E op \in Live(d) : Cuts(op) /\ op.id = id
    \/ \E a \in Replies(d) : Closes(a) /\ a.op.id = id

Covered ==
    \A u \in Users, id \in Ids :
        Dangling(u, id) => id \in torn \/ \E d \in Devices : Covers(d, id)

(* What is without an answer, as requests are sent and answered.           *)
LEMMA UnansweredGrows ==
    ASSUME NEW S, NEW s \in Seq(S), NEW n \in Nat
    PROVE  /\ \A x \in S : /\ Unanswered(s, n) \subseteq Unanswered(Append(s, x), n)
                           /\ n <= Len(s) => x \in Unanswered(Append(s, x), n)
           /\ \A t \in Seq(S) : Unanswered(s, n) \subseteq Unanswered(s \o t, n)
           /\ Unanswered(s, 0) = ToSet(s)
           /\ n + 1 \in 1 .. Len(s) => Unanswered(s, n) = Unanswered(s, n + 1) \cup {s[n + 1]}
           /\ s # << >> => Unanswered(Tail(s), n) = Unanswered(s, n + 1)
<1>1. ASSUME NEW x \in S
      PROVE  /\ Unanswered(s, n) \subseteq Unanswered(Append(s, x), n)
             /\ n <= Len(s) => x \in Unanswered(Append(s, x), n)
  <2> DEFINE t == Append(s, x)
  <2>1. /\ Len(t) = Len(s) + 1 /\ DOMAIN t = 1 .. Len(t) /\ DOMAIN s = 1 .. Len(s) /\ Len(s) \in Nat
        /\ \A i \in 1 .. Len(s) : t[i] = s[i]
        /\ t[Len(s) + 1] = x
    BY AppendProperties, LenProperties
  <2> HIDE DEF t
  <2>2. QED BY <2>1 DEF Unanswered
<1>2. ASSUME NEW t \in Seq(S)
      PROVE  Unanswered(s, n) \subseteq Unanswered(s \o t, n)
  <2> DEFINE c == s \o t
  <2>1. /\ Len(c) = Len(s) + Len(t) /\ DOMAIN c = 1 .. Len(c) /\ DOMAIN s = 1 .. Len(s)
        /\ Len(s) \in Nat /\ Len(t) \in Nat
        /\ \A i \in 1 .. Len(s) : c[i] = s[i]
    BY ConcatProperties, LenProperties
  <2> HIDE DEF c
  <2>2. QED BY <2>1 DEF Unanswered
<1>3. Unanswered(s, 0) = ToSet(s)
  BY LenProperties DEF Unanswered, ToSet
<1>4. n + 1 \in 1 .. Len(s) => Unanswered(s, n) = Unanswered(s, n + 1) \cup {s[n + 1]}
  BY LenProperties DEF Unanswered
<1>5. s # << >> => Unanswered(Tail(s), n) = Unanswered(s, n + 1)
  <2> SUFFICES ASSUME s # << >> PROVE Unanswered(Tail(s), n) = Unanswered(s, n + 1)
    OBVIOUS
  <2> DEFINE t == Tail(s)
  <2>1. /\ Len(t) = Len(s) - 1 /\ DOMAIN t = 1 .. Len(t) /\ DOMAIN s = 1 .. Len(s)
        /\ Len(s) \in Nat \ {0} /\ \A i \in 1 .. Len(t) : t[i] = s[i + 1]
    BY HeadTailProperties, LenProperties, EmptySeq
  <2> HIDE DEF t
  <2>2. Unanswered(t, n) \subseteq Unanswered(s, n + 1)
    <3>1. ASSUME NEW i \in DOMAIN t, i > n PROVE i + 1 \in DOMAIN s /\ i + 1 > n + 1 /\ s[i + 1] = t[i]
      BY <2>1, <3>1
    <3>2. QED BY <3>1 DEF Unanswered
  <2>3. Unanswered(s, n + 1) \subseteq Unanswered(t, n)
    <3>1. ASSUME NEW i \in DOMAIN s, i > n + 1 PROVE i - 1 \in DOMAIN t /\ i - 1 > n /\ t[i - 1] = s[i]
      BY <2>1, <3>1
    <3>2. QED BY <3>1 DEF Unanswered
  <2>4. QED BY <2>2, <2>3 DEF t
<1>6. QED BY <1>1, <1>2, <1>3, <1>4, <1>5

(* What covers a gap is a write that is half done.                         *)
LEMMA CoversIsHalfDone ==
    ASSUME Shape, NEW d \in Devices, NEW id, Covers(d, id)
    PROVE  id \in HalfDone(d)
<1>1. /\ Outstanding(d) = ToSet(outbox[d]) \cup {t.op : t \in Handed(mainQ[d])}
      /\ outbox[d] \in Seq(GoodRequests) /\ answers[d] \in Seq(GoodAnswers)
  BY OutstandingIs
<1>2. CASE \E op \in Live(d) : Cuts(op) /\ op.id = id
  <2>1. PICK op \in Live(d) : Cuts(op) /\ op.id = id
    BY <1>2
  <2>2. op \in Outstanding(d)
    BY <1>1, <2>1 DEF Live, Unanswered, ToSet
  <2>3. QED BY <2>1, <2>2 DEF HalfDone, Cuts
<1>3. CASE \E a \in Replies(d) : Closes(a) /\ a.op.id = id
  <2>1. PICK a \in Replies(d) : Closes(a) /\ a.op.id = id
    BY <1>3
  <2>2. a.op \in Outstanding(d)
    <3>1. CASE a \in ToSet(answers[d])
      <4>1. PICK i \in 1 .. Len(answers[d]) : a = answers[d][i]
        BY <1>1, <3>1 DEF ToSet
      <4>2. a.op = outbox[d][i] /\ i \in DOMAIN outbox[d]
        BY <1>1, <4>1 DEF Shape, Answering
      <4>3. QED BY <1>1, <4>2 DEF ToSet
    <3>2. CASE a \in Handed(mainQ[d])
      BY <1>1, <3>2
    <3>3. QED BY <2>1, <3>1, <3>2 DEF Replies
  <2>3. QED BY <2>1, <2>2 DEF HalfDone, Closes
<1>4. QED BY <1>2, <1>3 DEF Covers

(* It is enough to look at the device that takes the step.                 *)
LEMMA CoveredStays ==
    ASSUME Covered, NEW d \in Devices, Apart(d), UNCHANGED dbVars, torn \subseteq torn',
           \A id : Covers(d, id) => Covers(d, id)' \/ id \in torn'
    PROVE  Covered'
<1>1. ASSUME NEW e \in Devices, e # d, NEW id PROVE Covers(e, id)' = Covers(e, id)
  <2>1. outbox'[e] = outbox[e] /\ answers'[e] = answers[e] /\ mainQ'[e] = mainQ[e]
    BY <1>1 DEF Apart
  <2>2. Live(e)' = Live(e) /\ Replies(e)' = Replies(e)
    BY <2>1 DEF Live, Replies
  <2>3. QED BY <2>2 DEF Covers
<1>2. ASSUME NEW u \in Users, NEW id \in Ids, Dangling(u, id)'
      PROVE  id \in torn' \/ \E e \in Devices : Covers(e, id)'
  <2>1. Dangling(u, id)
    BY <1>2 DEF Dangling, dbVars
  <2>2. CASE id \in torn
    BY <2>2
  <2>3. CASE \E e \in Devices : Covers(e, id)
    <3>1. PICK e \in Devices : Covers(e, id)
      BY <2>3
    <3>2. CASE e = d
      BY <3>1, <3>2
    <3>3. CASE e # d
      <4>1. Covers(e, id)'
        BY <1>1, <3>1, <3>3
      <4>2. QED BY <4>1
    <3>4. QED BY <3>2, <3>3
  <2>4. QED BY <2>1, <2>2, <2>3 DEF Covered
<1>3. QED BY <1>2 DEF Covered

(* A step that keeps the requests and the answers that close a gap.        *)
LEMMA CoversByKeeping ==
    ASSUME Covered, NEW d \in Devices, Apart(d), UNCHANGED dbVars, torn \subseteq torn',
           Live(d) \subseteq Live(d)', answers'[d] = answers[d],
           \A a \in Handed(mainQ[d]) : Closes(a) => \/ a \in Handed(mainQ'[d])
                                                    \/ Covers(d, a.op.id)'
    PROVE  Covered'
<1>1. ASSUME NEW id, Covers(d, id) PROVE Covers(d, id)'
  <2>1. CASE \E op \in Live(d) : Cuts(op) /\ op.id = id
    BY <2>1 DEF Covers
  <2>2. CASE \E a \in Replies(d) : Closes(a) /\ a.op.id = id
    <3>1. PICK a \in Replies(d) : Closes(a) /\ a.op.id = id
      BY <2>2
    <3>2. CASE a \in Replies(d)'
      BY <3>1, <3>2 DEF Covers
    <3>3. CASE a \notin Replies(d)'
      <4>1. a \in Handed(mainQ[d]) /\ a \notin Handed(mainQ'[d])
        BY <3>1, <3>3 DEF Replies
      <4>2. Covers(d, a.op.id)'
        BY <3>1, <4>1
      <4>3. QED BY <3>1, <4>2
    <3>4. QED BY <3>2, <3>3
  <2>3. QED BY <1>1, <2>1, <2>2 DEF Covers
<1>2. QED BY <1>1, CoveredStays
(* What a queue hands over is kept when a block is queued, and when one    *)
(* that is not an answer to a first write is taken.                        *)
LEMMA QueueKeepsClosing ==
    ASSUME NEW q \in Seq(GoodTasks), NEW r,
           \/ r = q
           \/ /\ q # << >> /\ r = Tail(q)
              /\ Head(q).do = "answer" => Head(q).op.kind \notin {"saveIndex", "deleteEvent"},
           NEW next, next = r \/ \E t : next = Append(r, t)
    PROVE  \A a \in Handed(q) : Closes(a) => a \in Handed(next)
<1>1. r \in Seq(GoodTasks) /\ \A a \in Handed(q) : Closes(a) => a \in Handed(r)
  BY QueueShrinks DEF Closes
<1>2. CASE \E t : next = Append(r, t)
  <2>1. PICK t : next = Append(r, t)
    BY <1>2
  <2>2. /\ Len(next) = Len(r) + 1 /\ DOMAIN next = 1 .. Len(next) /\ DOMAIN r = 1 .. Len(r)
        /\ Len(r) \in Nat /\ \A i \in 1 .. Len(r) : next[i] = r[i]
    BY <1>1, <2>1, AppendProperties, LenProperties
  <2>3. ToSet(r) \subseteq ToSet(next)
    BY <2>2 DEF ToSet
  <2>4. QED BY <1>1, <2>3 DEF Handed
<1>3. QED BY <1>1, <1>2

(* Taps that send nothing touch neither the network nor the database.      *)
LEMMA TapsOnlyQueue ==
    ASSUME Shape, NEW d \in Devices,
           \/ DidTapLogOut(d) \/ DidCancelLogOut(d) \/ DidTapLogIn(d) \/ SignInAnswered(d)
           \/ DidTapBack(d) \/ Notify(d)
           \/ DidTapAddEvent(d) \/ DidTapEdit(d) \/ DidConfirmLogOut(d)
    PROVE  /\ UNCHANGED <<dbVars, netVars, histVars>>
           /\ mainQ'[d] = mainQ[d] \/ \E t : t.do # "answer" /\ mainQ'[d] = Append(mainQ[d], t)
<1>1. mainQ \in [Devices -> Seq(GoodTasks)]
  BY DEF Shape, Types
<1>2. ASSUME NEW t, Post(d, t) PROVE mainQ'[d] = Append(mainQ[d], t)
  BY <1>1, <1>2 DEF Post
<1>3. CASE DidTapLogOut(d) \/ DidCancelLogOut(d)
  BY <1>2, <1>3 DEF DidTapLogOut, DidCancelLogOut
<1>4. CASE DidTapLogIn(d) \/ DidTapBack(d) \/ Notify(d)
  BY <1>4 DEF DidTapLogIn, DidTapBack, Notify
<1>5. CASE SignInAnswered(d)
  BY <1>2, <1>5 DEF SignInAnswered
<1>6. CASE DidTapAddEvent(d) \/ DidTapEdit(d) \/ DidConfirmLogOut(d)
  BY <1>2, <1>6 DEF DidTapAddEvent, DidTapEdit, DidConfirmLogOut, Navigate, Push
<1>7. QED BY <1>3, <1>4, <1>5, <1>6

(* Blocks that are not the first half of a save or a delete take only      *)
(* their own answer.                                                       *)
LEMMA BlocksTakeTheirs ==
    ASSUME Shape, NEW d \in Devices,
           OnAlert(d) \/ OnSignedIn(d) \/ OnSaved(d) \/ OnDeleteIndex(d) \/ OnReadEvent(d)
    PROVE  /\ UNCHANGED <<dbVars, netVars, histVars>> /\ mainQ[d] # << >>
           /\ Head(mainQ[d]).do = "answer" => Head(mainQ[d]).op.kind \notin {"saveIndex", "deleteEvent"}
           /\ \/ mainQ'[d] = Tail(mainQ[d])
              \/ \E t : t.do # "answer" /\ mainQ'[d] = Append(Tail(mainQ[d]), t)
<1>1. mainQ \in [Devices -> Seq(GoodTasks)]
  BY DEF Shape, Types
<1>2. Handled(d) => mainQ'[d] = Tail(mainQ[d])
  BY <1>1 DEF Handled
<1>3. ASSUME NEW no, NavigateToHome(d, no)
      PROVE  \E t : t.do # "answer" /\ mainQ'[d] = Append(Tail(mainQ[d]), t)
  BY <1>1, <1>3 DEF NavigateToHome, Push
<1>4. CASE OnAlert(d) \/ OnSignedIn(d)
  BY <1>2, <1>3, <1>4 DEF OnAlert, OnSignedIn, Handling
<1>5. CASE OnSaved(d)
  BY <1>2, <1>3, <1>5 DEF OnSaved, Answered, Handling
<1>6. CASE OnDeleteIndex(d) \/ OnReadEvent(d)
  BY <1>2, <1>6 DEF OnDeleteIndex, OnReadEvent, Answered, Handling
<1>7. QED BY <1>4, <1>5, <1>6

(* So neither kind opens a gap or loses what closes one.                   *)
LEMMA QuietStepsAreCovered ==
    ASSUME Shape, Covered, NEW d \in Devices, Apart(d),
           \/ DidTapLogOut(d) \/ DidCancelLogOut(d) \/ DidTapLogIn(d) \/ SignInAnswered(d)
           \/ DidTapBack(d) \/ Notify(d)
           \/ DidTapAddEvent(d) \/ DidTapEdit(d) \/ DidConfirmLogOut(d)
           \/ OnAlert(d) \/ OnSignedIn(d) \/ OnSaved(d) \/ OnDeleteIndex(d) \/ OnReadEvent(d)
    PROVE  Covered'
<1>1. UNCHANGED <<dbVars, netVars, histVars>>
  BY TapsOnlyQueue, BlocksTakeTheirs
<1>2. /\ UNCHANGED dbVars /\ torn' = torn /\ answers' = answers /\ Live(d)' = Live(d)
  BY <1>1 DEF netVars, histVars, Live
<1>3. mainQ[d] \in Seq(GoodTasks)
  BY OutstandingIs
<1>4. \A a \in Handed(mainQ[d]) : Closes(a) => a \in Handed(mainQ'[d])
  BY <1>3, TapsOnlyQueue, BlocksTakeTheirs, QueueKeepsClosing
<1>5. QED BY <1>2, <1>4, CoversByKeeping

(* A request more closes no gap and opens none.                            *)
LEMMA SendingIsCovered ==
    ASSUME Shape, Covered, NEW d \in Devices, Apart(d),
           DidTapDelete(d) \/ DidTapUpdate(d) \/ (DidTapSaveEvent(d) /\ Top(d).user # None)
    PROVE  Covered'
<1>1. /\ UNCHANGED dbVars /\ torn \subseteq torn' /\ answers' = answers /\ mainQ' = mainQ
      /\ \E op \in GoodRequests : outbox'[d] = Append(outbox[d], op)
  <2>1. CASE DidTapDelete(d)
    BY <2>1, DeleteTakesRow
  <2>2. CASE DidTapUpdate(d)
    BY <2>2, SendingTaps DEF histVars
  <2>3. CASE DidTapSaveEvent(d) /\ Top(d).user # None
    BY <2>3, SendingTaps DEF histVars
  <2>4. QED BY <2>1, <2>2, <2>3
<1>2. Live(d) \subseteq Live(d)'
  <2>1. Len(answers[d]) \in Nat /\ outbox[d] \in Seq(GoodRequests)
    BY OutstandingIs
  <2>2. QED BY <1>1, <2>1, UnansweredGrows DEF Live
<1>3. QED BY <1>1, <1>2, CoversByKeeping

(* The end of a process marks every key it had half done.                  *)
LEMMA StopIsCovered ==
    ASSUME Shape, Covered, NEW d \in Devices, NEW why, Stop(d, why)
    PROVE  Covered'
<1>1. torn' = torn \cup HalfDone(d) /\ UNCHANGED dbVars
  BY StopEmpties
<1>2. \A id : Covers(d, id) => id \in torn'
  BY <1>1, CoversIsHalfDone
<1>3. QED BY <1>1, <1>2, StopIsApart, CoveredStays

(* The callback of a first write: the second write closes what it closed.  *)
LEMMA ContinuingIsCovered ==
    ASSUME Shape, Covered, NEW d \in Devices, Apart(d), OnSaveIndex(d) \/ OnDeleteEvent(d)
    PROVE  Covered'
<1>1. PICK a \in GoodAnswers : a = Head(mainQ[d]) /\ a.op \in GoodRequests
  BY ContinuingSteps
<1> DEFINE kind == IF a.op.kind = "saveIndex" THEN "saveEvent" ELSE "deleteIndex"
           op == [a.op EXCEPT !.kind = kind, !.redo = FALSE]
<1>2. /\ Handed(mainQ[d]) = Handed(Tail(mainQ[d])) \cup {a}
      /\ \/ \E why : Stop(d, why)
         \/ /\ mainQ'[d] = Tail(mainQ[d])
            /\ UNCHANGED <<dbVars, online, answers, histVars, stack, built, usedIds>>
            /\ IF a.ok THEN op \in GoodRequests /\ outbox'[d] = Append(outbox[d], op)
                       ELSE outbox'[d] = outbox[d]
  BY <1>1, ContinuingSteps
<1>3. op.kind \in {"saveEvent", "deleteIndex"} /\ op.id = a.op.id
  BY <1>1 DEF GoodRequests, Requests
<1> HIDE DEF op
<1>4. CASE \E why : Stop(d, why)
  BY <1>4, StopIsCovered
<1>5. CASE /\ mainQ'[d] = Tail(mainQ[d])
           /\ UNCHANGED <<dbVars, online, answers, histVars, stack, built, usedIds>>
           /\ IF a.ok THEN op \in GoodRequests /\ outbox'[d] = Append(outbox[d], op)
                      ELSE outbox'[d] = outbox[d]
  <2>1. /\ UNCHANGED dbVars /\ torn' = torn /\ answers' = answers
    BY <1>5 DEF histVars
  <2>2. Len(answers[d]) \in Nat /\ outbox[d] \in Seq(GoodRequests) /\ Len(answers[d]) <= Len(outbox[d])
    BY OutstandingIs DEF Shape, Answering
  <2>3. CASE ~ a.ok
    <3>1. Live(d)' = Live(d)
      BY <1>5, <2>1, <2>3 DEF Live
    <3>2. \A b \in Handed(mainQ[d]) : Closes(b) => b \in Handed(mainQ'[d])
      BY <1>2, <1>5, <2>3 DEF Closes
    <3>3. QED BY <2>1, <3>1, <3>2, CoversByKeeping
  <2>4. CASE a.ok
    <3>1. op \in GoodRequests /\ outbox'[d] = Append(outbox[d], op)
      BY <1>5, <2>4
    <3>2. Live(d)' = Unanswered(Append(outbox[d], op), Len(answers[d]))
      BY <2>1, <3>1 DEF Live
    <3>3. Live(d) \subseteq Live(d)' /\ op \in Live(d)'
      BY <2>2, <3>1, <3>2, UnansweredGrows DEF Live
    <3>4. Covers(d, a.op.id)'
      BY <1>3, <3>3 DEF Covers, Cuts
    <3>5. \A b \in Handed(mainQ[d]) : Closes(b) => b \in Handed(mainQ'[d]) \/ Covers(d, b.op.id)'
      BY <1>2, <1>5, <3>4
    <3>6. QED BY <2>1, <3>3, <3>5, CoversByKeeping
  <2>5. QED BY <2>3, <2>4
<1>6. QED BY <1>2, <1>4, <1>5
(* Requests that join the others leave those without an answer without.    *)
LEMMA LiveGrows ==
    ASSUME Shape, NEW d \in Devices, answers'[d] = answers[d],
           \/ outbox'[d] = outbox[d]
           \/ \E op \in GoodRequests : outbox'[d] = Append(outbox[d], op)
           \/ \E sent \in Seq(GoodRequests) : outbox'[d] = outbox[d] \o sent
    PROVE  Live(d) \subseteq Live(d)'
<1> DEFINE s == outbox[d]
           n == Len(answers[d])
<1>1. s \in Seq(GoodRequests) /\ n \in Nat
  BY OutstandingIs, LenProperties
<1>2. Live(d) = Unanswered(s, n) /\ Live(d)' = Unanswered(outbox'[d], n)
  BY DEF Live
<1> HIDE DEF s, n
<1>3. CASE outbox'[d] = s
  BY <1>2, <1>3
<1>4. CASE \E op \in GoodRequests : outbox'[d] = Append(s, op)
  BY <1>1, <1>2, <1>4, UnansweredGrows
<1>5. CASE \E sent \in Seq(GoodRequests) : outbox'[d] = s \o sent
  BY <1>1, <1>2, <1>5, UnansweredGrows
<1>6. QED BY <1>3, <1>4, <1>5 DEF s

(* Reads open no gap.                                                      *)
LEMMA LoadingIsCovered ==
    ASSUME Shape, Covered, NEW d \in Devices, Apart(d), Launch(d) \/ RunPush(d) \/ OnReadIndex(d)
    PROVE  Covered'
<1>1. /\ mainQ[d] \in Seq(GoodTasks) /\ outbox[d] \in Seq(GoodRequests)
      /\ answers[d] \in Seq(GoodAnswers) /\ Len(answers[d]) \in Nat
  BY OutstandingIs, LenProperties
<1>2. CASE Launch(d)
  <2>1. /\ outbox[d] = << >> /\ answers[d] = << >> /\ mainQ[d] = << >>
        /\ UNCHANGED <<dbVars, online, answers, histVars, usedIds>>
    BY <1>2, LaunchingStep
  <2>2. UNCHANGED dbVars /\ torn' = torn
    BY <2>1 DEF histVars
  <2>3. \A id : ~ Covers(d, id)
    BY <2>1 DEF Covers, Live, Unanswered, Replies, Handed, ToSet
  <2>4. QED BY <2>2, <2>3, CoveredStays
<1>3. CASE RunPush(d)
  <2> DEFINE task == Head(mainQ[d])
             op == ReadIndex(user[d], task.screen.no)
  <2>1. /\ mainQ[d] # << >> /\ IsPush(task)
        /\ \/ \E why \in Traps : Stop(d, why)
           \/ /\ mainQ'[d] = Tail(mainQ[d])
              /\ UNCHANGED <<dbVars, online, answers, histVars, built, usedIds>>
              /\ \/ outbox'[d] = outbox[d]
                 \/ op \in GoodRequests /\ outbox'[d] = Append(outbox[d], op)
    BY <1>3, PushingStep
  <2>2. CASE \E why \in Traps : Stop(d, why)
    BY <2>2, StopIsCovered
  <2>3. CASE /\ mainQ'[d] = Tail(mainQ[d])
             /\ UNCHANGED <<dbVars, online, answers, histVars, built, usedIds>>
             /\ \/ outbox'[d] = outbox[d]
                \/ op \in GoodRequests /\ outbox'[d] = Append(outbox[d], op)
    <3>1. UNCHANGED dbVars /\ torn' = torn /\ answers' = answers
      BY <2>3 DEF histVars
    <3>2. Live(d) \subseteq Live(d)'
      BY <2>3, <3>1, LiveGrows
    <3>3. \A a \in Handed(mainQ[d]) : Closes(a) => a \in Handed(mainQ'[d])
      BY <1>1, <2>1, <2>3, QueueShrinks DEF IsPush
    <3>4. QED BY <3>1, <3>2, <3>3, CoversByKeeping
  <2> HIDE DEF op
  <2>4. QED BY <2>1, <2>2, <2>3
<1>4. CASE OnReadIndex(d)
  <2> DEFINE a == Head(mainQ[d])
  <2>1. /\ a.op.kind = "readIndex" /\ mainQ[d] # << >>
        /\ UNCHANGED <<dbVars, online, answers, histVars, built, usedIds>>
        /\ \E sent \in Seq(GoodRequests), found \in Seq(GoodAnswers) :
              /\ outbox'[d] = outbox[d] \o sent
              /\ mainQ'[d] = Tail(mainQ[d]) \o found
    BY <1>4, KeysAnswered
  <2>2. PICK sent \in Seq(GoodRequests), found \in Seq(GoodAnswers) :
              outbox'[d] = outbox[d] \o sent /\ mainQ'[d] = Tail(mainQ[d]) \o found
    BY <2>1
  <2>3. UNCHANGED dbVars /\ torn' = torn /\ answers' = answers
    BY <2>1 DEF histVars
  <2>4. Live(d) \subseteq Live(d)'
    BY <2>2, <2>3, LiveGrows
  <2>5. Tail(mainQ[d]) \in Seq(GoodTasks) /\ Handed(mainQ[d]) \subseteq Handed(Tail(mainQ[d])) \cup {a}
    BY <1>1, <2>1, QueueShrinks
  <2>6. Handed(mainQ'[d]) = Handed(Tail(mainQ[d])) \cup ToSet(found)
    BY <2>2, <2>5, QueueGrowsByAnswers
  <2>7. \A b \in Handed(mainQ[d]) : Closes(b) => b \in Handed(mainQ'[d])
    BY <2>1, <2>5, <2>6 DEF Closes
  <2>8. QED BY <2>3, <2>4, <2>7, CoversByKeeping
<1>5. QED BY <1>2, <1>3, <1>4

(* An answer that reaches the device still closes what it closed.          *)
LEMMA ReceiveIsCovered ==
    ASSUME Shape, Covered, NEW d \in Devices, Apart(d), Receive(d)
    PROVE  Covered'
<1>1. /\ answers \in [Devices -> Seq(GoodAnswers)] /\ outbox \in [Devices -> Seq(GoodRequests)]
      /\ mainQ \in [Devices -> Seq(GoodTasks)] /\ Len(answers[d]) <= Len(outbox[d])
  BY DEF Shape, Types, Answering
<1>2. /\ answers[d] # << >> /\ outbox'[d] = Tail(outbox[d]) /\ answers'[d] = Tail(answers[d])
      /\ mainQ'[d] = Append(mainQ[d], Head(answers[d])) /\ UNCHANGED dbVars /\ torn' = torn
  BY <1>1 DEF Receive, histVars
<1>3. Live(d)' = Live(d)
  <2>1. /\ Len(answers[d]) \in Nat \ {0} /\ Len(answers'[d]) = Len(answers[d]) - 1
        /\ outbox[d] # << >>
    BY <1>1, <1>2
  <2>2. Unanswered(Tail(outbox[d]), Len(answers[d]) - 1) = Unanswered(outbox[d], Len(answers[d]))
    <3>1. Len(answers[d]) - 1 \in Nat /\ (Len(answers[d]) - 1) + 1 = Len(answers[d])
      BY <2>1
    <3>2. outbox[d] \in Seq(GoodRequests)
      BY <1>1
    <3>3. QED BY <2>1, <3>1, <3>2, UnansweredGrows
  <2>3. QED BY <1>2, <2>1, <2>2 DEF Live
<1>4. Replies(d)' = Replies(d)
  <2>1. Head(answers[d]) \in GoodAnswers /\ Head(answers[d]) \in GoodTasks
        /\ Head(answers[d]).do = "answer"
    <3>1. Head(answers[d]) \in GoodAnswers
      BY <1>1, <1>2
    <3>2. QED BY <3>1 DEF GoodTasks, GoodAnswers, Answers
  <2>2. ToSet(answers[d]) = ToSet(answers'[d]) \cup {Head(answers[d])}
    BY <1>1, <1>2, MembersOfSeq
  <2>3. Handed(mainQ'[d]) = Handed(mainQ[d]) \cup {Head(answers[d])}
    BY <1>1, <1>2, <2>1, QueueGrows
  <2>4. QED BY <2>2, <2>3 DEF Replies
<1>5. QED BY <1>2, <1>3, <1>4, CoveredStays DEF Covers

(* A lost connection: every write is sent again, and then closes its gap.  *)
LEMMA DisconnectIsCovered ==
    ASSUME Shape, Covered, NEW d \in Devices, Apart(d), Disconnect(d)
    PROVE  Covered'
<1> DEFINE kept == Only(outbox[d], Writes)
           again == [i \in DOMAIN kept |-> [kept[i] EXCEPT !.redo = TRUE]]
<1>1. /\ answers \in [Devices -> Seq(GoodAnswers)] /\ outbox \in [Devices -> Seq(GoodRequests)]
  BY DEF Shape, Types
<1>2. /\ outbox'[d] = again /\ answers'[d] = << >> /\ mainQ' = mainQ
      /\ UNCHANGED dbVars /\ torn' = torn
  BY <1>1 DEF Disconnect
<1>3. /\ kept \in Seq(GoodRequests) /\ ToSet(kept) = {op \in ToSet(outbox[d]) : op.kind \in Writes}
  BY <1>1, OnlyMembers
<1>4. ASSUME NEW op \in ToSet(outbox[d]), op.kind \in {"saveIndex", "saveEvent", "deleteEvent", "deleteIndex"}
      PROVE  Covers(d, op.id)'
  <2>1. PICK i \in DOMAIN kept : kept[i] = op
    BY <1>3, <1>4 DEF Writes, ToSet
  <2>2. op \in Requests
    <3>1. outbox[d] \in Seq(GoodRequests)
      BY <1>1
    <3>2. op \in GoodRequests
      BY <1>4, <3>1, MembersOfSeq
    <3>3. QED BY <3>2 DEF GoodRequests
  <2>3. again[i] = [op EXCEPT !.redo = TRUE] /\ i \in DOMAIN again
    BY <2>1
  <2>4. again[i].kind = op.kind /\ again[i].id = op.id /\ again[i].redo
    BY <2>2, <2>3 DEF Requests
  <2>5. Len(answers'[d]) = 0 /\ DOMAIN again = 1 .. Len(kept)
    BY <1>2, <1>3, LenProperties
  <2> HIDE DEF again
  <2>6. again[i] \in Live(d)'
    <3>1. Live(d)' = Unanswered(again, 0)
      BY <1>2, <2>5 DEF Live
    <3>2. i \in DOMAIN again /\ i > 0
      BY <2>3, <2>5
    <3>3. QED BY <3>1, <3>2 DEF Unanswered
  <2>7. PICK r \in Live(d)' : r.kind = op.kind /\ r.id = op.id /\ r.redo
    BY <2>4, <2>6
  <2>8. QED BY <1>4, <2>7 DEF Covers, Cuts
<1>5. ASSUME NEW id, Covers(d, id) PROVE Covers(d, id)'
  <2>1. CASE \E op \in Live(d) : Cuts(op) /\ op.id = id
    <3>1. PICK op \in Live(d) : Cuts(op) /\ op.id = id
      BY <2>1
    <3>2. /\ op \in ToSet(outbox[d])
          /\ op.kind \in {"saveIndex", "saveEvent", "deleteEvent", "deleteIndex"}
      BY <3>1 DEF Live, Unanswered, ToSet, Cuts
    <3>3. QED BY <1>4, <3>1, <3>2
  <2>2. CASE \E a \in Replies(d) : Closes(a) /\ a.op.id = id
    <3>1. PICK a \in Replies(d) : Closes(a) /\ a.op.id = id
      BY <2>2
    <3>2. CASE a \in Handed(mainQ[d])
      BY <1>2, <3>1, <3>2 DEF Covers, Replies
    <3>3. CASE a \in ToSet(answers[d])
      <4>1. PICK i \in 1 .. Len(answers[d]) : a = answers[d][i]
        BY <1>1, <3>3 DEF ToSet
      <4>2. a.op = outbox[d][i] /\ i \in DOMAIN outbox[d]
        BY <1>1, <4>1 DEF Shape, Answering
      <4>3. a.op \in ToSet(outbox[d]) /\ a.op.kind \in {"saveIndex", "deleteEvent"}
        BY <3>1, <4>2 DEF ToSet, Closes
      <4>4. QED BY <1>4, <3>1, <4>3
    <3>4. QED BY <3>1, <3>2, <3>3 DEF Replies
  <2>3. QED BY <1>5, <2>1, <2>2 DEF Covers
<1>6. QED BY <1>2, <1>5, CoveredStays

(* Without a connection nothing is answered, and no write is lost.         *)
LEMMA OfflineIsCovered ==
    ASSUME Shape, Shape', Covered, NEW d \in Devices, Apart(d), Reconnect(d) \/ GetTimesOut(d)
    PROVE  Covered'
<1>1. /\ answers[d] = << >> /\ outbox \in [Devices -> Seq(GoodRequests)]
      /\ mainQ \in [Devices -> Seq(GoodTasks)]
  BY DEF Shape, Types, Answering, Reconnect, GetTimesOut
<1>2. /\ answers' = answers /\ UNCHANGED dbVars /\ torn' = torn
  BY DEF Reconnect, GetTimesOut, histVars
<1>3. Live(d) = ToSet(outbox[d]) /\ Live(d)' = ToSet(outbox'[d]) /\ outbox[d] \in Seq(GoodRequests)
  <2>1. outbox[d] \in Seq(GoodRequests)
    BY <1>1
  <2>2. Len(answers[d]) = 0 /\ Len(answers'[d]) = 0
    BY <1>1, <1>2
  <2>3. outbox'[d] \in Seq(GoodRequests)
    BY DEF Shape, Types
  <2>4. QED BY <2>1, <2>2, <2>3, UnansweredGrows DEF Live
<1>4. \A a \in Handed(mainQ[d]) : Closes(a) => a \in Handed(mainQ'[d])
  <2>1. mainQ'[d] = mainQ[d] \/ \E t : mainQ'[d] = Append(mainQ[d], t)
    BY <1>1 DEF Reconnect, GetTimesOut
  <2>2. mainQ[d] \in Seq(GoodTasks)
    BY <1>1
  <2>3. QED BY <2>1, <2>2, QueueKeepsClosing
<1>5. \A op \in ToSet(outbox[d]) : op.kind \notin Reads => op \in ToSet(outbox'[d])
  <2>1. CASE Reconnect(d)
    <3>1. outbox'[d] = Only(outbox[d], Writes) \o Only(outbox[d], Reads)
      BY <1>1, <2>1 DEF Reconnect
    <3>2. \A kinds : /\ Only(outbox[d], kinds) \in Seq(GoodRequests)
                     /\ ToSet(Only(outbox[d], kinds)) = {op \in ToSet(outbox[d]) : op.kind \in kinds}
      BY <1>3, OnlyMembers
    <3>3. ToSet(outbox'[d]) = ToSet(Only(outbox[d], Writes)) \cup ToSet(Only(outbox[d], Reads))
      BY <3>1, <3>2, MembersOfSeq
    <3>4. \A op \in ToSet(outbox[d]) : op.kind \in Writes \cup Reads
      BY <1>3 DEF ToSet, GoodRequests, Requests
    <3>5. QED BY <3>2, <3>3, <3>4
  <2>2. CASE GetTimesOut(d)
    <3>1. PICK i \in DOMAIN outbox[d] : IsRead(outbox[d][i]) /\ outbox'[d] = RemoveAt(outbox[d], i)
      BY <1>1, <2>2 DEF GetTimesOut
    <3>2. i \in 1 .. Len(outbox[d])
      BY <1>3
    <3>3. ToSet(outbox[d]) = ToSet(outbox'[d]) \cup {outbox[d][i]}
      BY <1>3, <3>1, <3>2, MembersOfSeq
    <3>4. QED BY <3>1, <3>3 DEF IsRead
  <2>3. QED BY <2>1, <2>2
<1>6. ASSUME NEW id, Covers(d, id) PROVE Covers(d, id)'
  <2>1. CASE \E op \in Live(d) : Cuts(op) /\ op.id = id
    <3>1. PICK op \in Live(d) : Cuts(op) /\ op.id = id
      BY <2>1
    <3>2. op.kind \notin Reads
      BY <3>1 DEF Cuts, Reads
    <3>3. op \in Live(d)'
      BY <1>3, <1>5, <3>1, <3>2
    <3>4. QED BY <3>1, <3>3 DEF Covers
  <2>2. CASE \E a \in Replies(d) : Closes(a) /\ a.op.id = id
    <3>1. PICK a \in Replies(d) : Closes(a) /\ a.op.id = id
      BY <2>2
    <3>2. a \in Replies(d)'
      BY <1>2, <1>4, <3>1 DEF Replies
    <3>3. QED BY <3>1, <3>2 DEF Covers
  <2>3. QED BY <1>6, <2>1, <2>2 DEF Covers
<1>7. QED BY <1>2, <1>6, CoveredStays
(* The first request without an answer leaves the ones without.            *)
LEMMA LiveAnswered ==
    ASSUME Shape, NEW d \in Devices, Unprocessed(d), outbox'[d] = outbox[d],
           NEW a \in GoodAnswers, answers'[d] = Append(answers[d], a), mainQ'[d] = mainQ[d]
    PROVE  /\ Live(d) = Live(d)' \cup {NextRequest(d)}
           /\ Replies(d)' = Replies(d) \cup {a}
<1> DEFINE s == outbox[d]
           n == Len(answers[d])
<1>1. /\ s \in Seq(GoodRequests) /\ n \in Nat /\ n + 1 \in 1 .. Len(s)
      /\ answers[d] \in Seq(GoodAnswers) /\ NextRequest(d) = s[n + 1]
  BY UnprocessedIs
<1>2. Len(answers'[d]) = n + 1
  BY <1>1, AppendProperties
<1>3. Live(d)' = Unanswered(s, n + 1)
  BY <1>2 DEF Live
<1>4. Live(d) = Unanswered(s, n)
  BY DEF Live
<1>5. ToSet(answers'[d]) = ToSet(answers[d]) \cup {a}
  BY <1>1, MembersOfSeq
<1>6. Replies(d)' = Replies(d) \cup {a}
  BY <1>5 DEF Replies
<1> HIDE DEF s, n
<1>7. Unanswered(s, n) = Unanswered(s, n + 1) \cup {s[n + 1]}
  BY <1>1, UnansweredGrows
<1>8. QED BY <1>1, <1>3, <1>4, <1>6, <1>7

(* A refused write leaves a gap open only where the key is marked.         *)
LEMMA RefusalIsCovered ==
    ASSUME Shape, Covered, NEW d \in Devices, Apart(d), ServerRefuses(d)
    PROVE  Covered'
<1>1. PICK op \in GoodRequests : op = NextRequest(d)
  BY UnprocessedIs DEF ServerRefuses
<1>2. /\ answers'[d] = Append(answers[d], Refused(op)) /\ outbox' = outbox /\ mainQ' = mainQ
      /\ UNCHANGED dbVars /\ torn' = torn \cup (IF Cuts(op) THEN {op.id} ELSE {})
  BY <1>1 DEF ServerRefuses, Shape, Types
<1>3. Refused(op) \in GoodAnswers
  BY AnswerIsGood DEF Refused
<1>4. Live(d) = Live(d)' \cup {op} /\ Replies(d) \subseteq Replies(d)'
  BY <1>1, <1>2, <1>3, LiveAnswered DEF ServerRefuses
<1>5. ASSUME NEW id, Covers(d, id) PROVE Covers(d, id)' \/ id \in torn'
  BY <1>2, <1>4, <1>5 DEF Covers
<1>6. QED BY <1>2, <1>5, CoveredStays

(* The server applies a write: a first write opens a gap that its answer   *)
(* closes, a second write closes one, of its own account or of a row that  *)
(* was another's.                                                          *)
LEMMA GrantIsCovered ==
    ASSUME Shape, Owned, Covered, NEW d \in Devices, Apart(d), ServerGrants(d)
    PROVE  Covered'
<1>1. PICK op \in GoodRequests : op = NextRequest(d)
  BY UnprocessedIs DEF ServerGrants
<1>2. PICK a : a = Granted(op)
  OBVIOUS
<1>3. /\ index' = IndexAfter(op) /\ events' = EventsAfter(op) /\ outbox' = outbox /\ mainQ' = mainQ
      /\ answers'[d] = Append(answers[d], a) /\ torn' = torn
  BY <1>1, <1>2 DEF ServerGrants, Shape, Types
<1>4. index \in [Users -> SUBSET Ids] /\ events \in [Ids -> Texts \cup {None}]
  BY DEF Shape, Types
<1>5. a \in GoodAnswers
  <2>1. op.kind = "readIndex" => index[op.user] \in SUBSET Ids
    BY <1>1, <1>4 DEF GoodRequests
  <2>2. op.kind = "readEvent" => events[op.id] \in Texts \cup {None}
    BY <1>1, <1>4 DEF GoodRequests
  <2>3. QED BY <1>2, <2>1, <2>2, AnswerIsGood DEF Granted
<1>6. Live(d) = Live(d)' \cup {op} /\ Replies(d)' = Replies(d) \cup {a}
  BY <1>1, <1>3, <1>5, LiveAnswered DEF ServerGrants
<1>7. a.ok /\ a.op = op
  BY <1>2 DEF Granted, Answer
<1>8. op \in Outstanding(d)
  <2>1. Unprocessed(d)
    BY DEF ServerGrants
  <2>2. op \in ToSet(outbox[d])
    <3>1. PICK i \in 1 .. Len(outbox[d]) : op = outbox[d][i]
      BY <1>1, <2>1, UnprocessedIs
    <3>2. i \in DOMAIN outbox[d]
      BY <2>1, UnprocessedIs
    <3>3. QED BY <3>1, <3>2 DEF ToSet
  <2>3. QED BY <2>2, OutstandingIs
<1>9. ASSUME NEW e \in Devices, NEW id, Covers(e, id)
      PROVE  Covers(e, id)' \/ (e = d /\ Cuts(op) /\ op.id = id)
  <2>1. CASE e = d
    BY <1>6, <1>9, <2>1 DEF Covers
  <2>2. CASE e # d
    <3>1. outbox'[e] = outbox[e] /\ answers'[e] = answers[e] /\ mainQ'[e] = mainQ[e]
      BY <2>2 DEF Apart
    <3>2. Live(e)' = Live(e) /\ Replies(e)' = Replies(e)
      BY <3>1 DEF Live, Replies
    <3>3. QED BY <1>9, <3>2 DEF Covers
  <2>3. QED BY <2>1, <2>2
<1>10. op.kind \in {"saveIndex", "deleteEvent"} => Covers(d, op.id)'
  BY <1>6, <1>7 DEF Covers, Closes
<1>11. ASSUME NEW u \in Users, NEW id \in Ids, Dangling(u, id)'
       PROVE  id \in torn' \/ \E e \in Devices : Covers(e, id)'
  <2>1. id \in index'[u] /\ events'[id] = None
    BY <1>11 DEF Dangling
  <2>2. CASE op.kind \in {"saveIndex", "deleteEvent"} /\ op.id = id
    BY <1>10, <2>2
  <2>3. CASE ~ (op.kind \in {"saveIndex", "deleteEvent"} /\ op.id = id)
    <3>1. id \in index[u]
      <4>1. CASE op.kind = "saveIndex"
        <5>1. index' = [index EXCEPT ![op.user] = @ \cup {op.id}] /\ op.id # id
          BY <1>3, <2>3, <4>1 DEF IndexAfter
        <5>2. QED BY <1>4, <2>1, <5>1
      <4>2. CASE op.kind # "saveIndex"
        <5>1. index' = index \/ index' = [index EXCEPT ![op.user] = @ \ {op.id}]
          BY <1>3, <4>2 DEF IndexAfter
        <5>2. QED BY <1>4, <2>1, <5>1
      <4>3. QED BY <4>1, <4>2
    <3>2. events[id] = None /\ ~ (op.kind \in {"saveEvent", "updateEvent"} /\ op.id = id)
      <4>1. CASE op.kind \in {"saveEvent", "updateEvent"}
        <5>1. events' = [events EXCEPT ![op.id] = op.text] /\ op.text \in Texts /\ op.text # None
          BY <1>1, <1>3, <4>1, NoneIsNothing DEF EventsAfter, GoodRequests
        <5>2. QED BY <1>4, <2>1, <5>1
      <4>2. CASE op.kind = "deleteEvent"
        <5>1. events' = [events EXCEPT ![op.id] = None] /\ op.id # id
          BY <1>3, <2>3, <4>2 DEF EventsAfter
        <5>2. QED BY <1>4, <2>1, <4>2, <5>1
      <4>3. CASE op.kind \notin {"saveEvent", "updateEvent", "deleteEvent"}
        BY <1>3, <2>1, <4>3 DEF EventsAfter
      <4>4. QED BY <4>1, <4>2, <4>3
    <3>3. CASE id \in torn
      BY <1>3, <3>3
    <3>4. CASE \E e \in Devices : Covers(e, id)
      <4>1. PICK e \in Devices : Covers(e, id)
        BY <3>4
      <4>2. CASE Cuts(op) /\ op.id = id
        <5>1. op.kind = "deleteIndex"
          BY <2>3, <3>2, <4>2 DEF Cuts
        <5>2. op.user # u
          <6>1. index' = [index EXCEPT ![op.user] = @ \ {op.id}]
            BY <1>3, <5>1 DEF IndexAfter
          <6>2. QED BY <1>4, <2>1, <4>2, <6>1
        <5>3. PICK o \in [Ids -> Users \cup {None}] : OwnedBy(o)
          BY DEF Owned
        <5>4. o[id] = u /\ OpOwned(o, usedIds, torn, op)
          BY <1>8, <3>1, <5>3 DEF OwnedBy
        <5>5. id \in torn
          BY <4>2, <5>1, <5>2, <5>4 DEF OpOwned
        <5>6. QED BY <1>3, <5>5
      <4>3. CASE ~ (Cuts(op) /\ op.id = id)
        <5>1. Covers(e, id)'
          BY <1>9, <4>1, <4>3
        <5>2. QED BY <5>1
      <4>4. QED BY <4>2, <4>3
    <3>5. Dangling(u, id)
      BY <3>1, <3>2 DEF Dangling
    <3>6. QED BY <3>3, <3>4, <3>5 DEF Covered
  <2>4. QED BY <2>2, <2>3
<1>12. QED BY <1>11 DEF Covered

(* At first every listed key has its event.                                *)
LEMMA CoveredInit == Init => Covered
<1> SUFFICES ASSUME Init, NEW u \in Users, NEW id \in Ids PROVE ~ Dangling(u, id)
  BY DEF Covered
<1>1. PICK text \in Texts :
         events = [i \in Ids |-> IF \E v \in Users : i \in Saved[v] THEN text ELSE None]
  BY DEF Init
<1>2. index = Saved /\ text # None
  BY NoneIsNothing DEF Init
<1>3. QED BY <1>1, <1>2 DEF Dangling

(* Every step keeps each gap covered by a write under way or a mark.       *)
LEMMA CoveredStep ==
    ASSUME Shape, Shape', Owned, Covered, NEW d \in Devices, StepOf(d)
    PROVE  Covered'
<1>1. Apart(d)
  BY StepIsApart
<1>2. CASE \/ DidTapLogOut(d) \/ DidCancelLogOut(d) \/ DidTapLogIn(d) \/ SignInAnswered(d)
           \/ DidTapBack(d) \/ Notify(d)
           \/ DidTapAddEvent(d) \/ DidTapEdit(d) \/ DidConfirmLogOut(d)
           \/ OnAlert(d) \/ OnSignedIn(d) \/ OnSaved(d) \/ OnDeleteIndex(d) \/ OnReadEvent(d)
  BY <1>1, <1>2, QuietStepsAreCovered
<1>3. CASE Launch(d) \/ RunPush(d) \/ OnReadIndex(d)
  BY <1>1, <1>3, LoadingIsCovered
<1>4. CASE Kill(d) \/ (DidTapSaveEvent(d) /\ Top(d).user = None)
  <2>1. \E why : Stop(d, why)
    BY <1>4 DEF Kill, DidTapSaveEvent, Trap
  <2>2. QED BY <2>1, StopIsCovered
<1>5. CASE DidTapDelete(d) \/ DidTapUpdate(d) \/ (DidTapSaveEvent(d) /\ Top(d).user # None)
  BY <1>1, <1>5, SendingIsCovered
<1>6. CASE OnSaveIndex(d) \/ OnDeleteEvent(d)
  BY <1>1, <1>6, ContinuingIsCovered
<1>7. CASE ServerGrants(d) \/ ServerRefuses(d) \/ Receive(d) \/ Disconnect(d)
  BY <1>1, <1>7, GrantIsCovered, RefusalIsCovered, ReceiveIsCovered, DisconnectIsCovered
<1>8. CASE Reconnect(d) \/ GetTimesOut(d)
  BY <1>1, <1>8, OfflineIsCovered
<1>9. QED BY <1>2, <1>3, <1>4, <1>5, <1>6, <1>7, <1>8 DEF StepOf
-----------------------------------------------------------------------------
AppInv == Shape /\ Numbered /\ Owned /\ Covered

(* The inductive invariant of the app, for any number of devices, accounts *)
(* and keys, and any number of writes, lost connections and faults.        *)
THEOREM AppInvariant == Spec => []AppInv
<1>1. Init => AppInv
  BY ShapeInit, NumberedInit, OwnedInit, CoveredInit DEF AppInv
<1>2. AppInv /\ [Next]_vars => AppInv'
  <2> SUFFICES ASSUME AppInv, [Next]_vars PROVE AppInv'
    OBVIOUS
  <2>1. Shape'
    BY ShapeStep DEF AppInv
  <2>2. CASE Next
    <3>1. PICK d \in Devices : StepOf(d)
      BY <2>2, StepCases
    <3>2. QED BY <2>1, <3>1, NumberedStep, OwnedStep, CoveredStep DEF AppInv
  <2>3. CASE UNCHANGED vars
    <3>1. Numbered'
      BY <2>3 DEF AppInv, Numbered, Outstanding, vars, netVars, appVars, screenVars
    <3>2. PICK o \in [Ids -> Users \cup {None}] : OwnedBy(o)
      BY DEF AppInv, Owned
    <3>3. /\ dbVars' = dbVars /\ usedIds' = usedIds /\ torn' = torn /\ outbox' = outbox
          /\ answers' = answers /\ mainQ' = mainQ /\ stack' = stack
      BY <2>3 DEF vars, netVars, histVars, appVars, screenVars, budgetVars
    <3>4. OwnedBy(o)'
      BY <3>2, <3>3 DEF OwnedBy, Outstanding, Replies, dbVars
    <3>5. Covered'
      BY <3>3 DEF AppInv, Covered, Covers, Live, Replies, Dangling, dbVars
    <3>6. QED BY <2>1, <3>1, <3>4, <3>5 DEF AppInv, Owned
  <2>4. QED BY <2>2, <2>3
<1>3. QED BY <1>1, <1>2, PTL DEF Spec

(* A listed key whose event is missing is always explained (Home's load    *)
(* fails on it): a save or a delete of it is half done on some device, or  *)
(* was cut in half by a refusal, by the end of its process, or by a delete *)
(* of a row of another account (EventService.swift, HomeService.swift).    *)
THEOREM GapsAreExplained == Spec => []DanglingExplained
<1>1. AppInv => DanglingExplained
  BY CoversIsHalfDone DEF AppInv, Covered, DanglingExplained
<1>2. QED BY <1>1, AppInvariant, PTL
=============================================================================
