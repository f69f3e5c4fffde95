----------------------------- MODULE EventFetch -----------------------------
(***************************************************************************)
(* What HomePresenterImpl.getData relies on (HomePresenter.swift:170): the *)
(* call it makes ends with the account's whole list or with a failure, and *)
(* at most one of the two is ever delivered.  The list has one event for   *)
(* each key the account's index held at one moment.                        *)
(***************************************************************************)
EXTENDS FiniteSets

CONSTANTS Ids, Texts

VARIABLES progress,  \* "idle", "asking", "listed" or "failed"
          keys,      \* the keys of the account, once learned
          list       \* the events delivered

vars == <<progress, keys, list>>

Init == progress = "idle" /\ keys = {} /\ list = {}

Ask == progress = "idle" /\ progress' = "asking" /\ UNCHANGED <<keys, list>>

Learn == /\ progress = "asking" /\ keys = {}
         /\ keys' \in (SUBSET Ids) \ {{}}
         /\ UNCHANGED <<progress, list>>

OneEventPerKey(events, ids) ==
    /\ events \subseteq [id : ids, text : Texts]
    /\ \A id \in ids : \E e \in events : e.id = id
    /\ \A e, f \in events : e.id = f.id => e = f

Deliver == /\ progress = "asking" /\ keys # {}
           /\ progress' = "listed"
           /\ list' \in SUBSET [id : Ids, text : Texts]
           /\ OneEventPerKey(list', keys)
           /\ UNCHANGED keys

Fail == progress = "asking" /\ progress' = "failed" /\ UNCHANGED <<keys, list>>

Next == Ask \/ Learn \/ Deliver \/ Fail

Spec == Init /\ [][Next]_vars
=============================================================================
