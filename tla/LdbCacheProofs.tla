----------------------------- MODULE LdbCacheProofs -----------------------------
(***************************************************************************)
(* Proofs about LdbCache, for all finite sets of entries and clients, all  *)
(* keys, charges and capacities: the assertions of the cache hold, and     *)
(* nothing that a client holds is freed.                                   *)
(***************************************************************************)
EXTENDS LdbCache, FiniteSetTheorems, TLAPS

-----------------------------------------------------------------------------
\* Lists without duplicates.

InList(list, e) == \E i \in DOMAIN list : list[i] = e

NoTwice(list) == \A i, j \in DOMAIN list : i # j => list[i] # list[j]

(* LRU_Remove takes off the entry and nothing else.                        *)
LEMMA WithoutOf ==
    ASSUME NEW list \in Seq(Entries), NoTwice(list), NEW e
    PROVE  /\ Without(list, e) \in Seq(Entries) /\ NoTwice(Without(list, e))
           /\ \A x : InList(Without(list, e), x) <=> InList(list, x) /\ x # e
<1>1. CASE \A i \in DOMAIN list : list[i] # e
  BY <1>1 DEF Without, InList
<1>2. CASE ~ \A i \in DOMAIN list : list[i] # e
  <2> DEFINE p == CHOOSE i \in DOMAIN list : list[i] = e
             short == RemovedAt(list, p)
  <2>1. p \in 1 .. Len(list) /\ list[p] = e
    BY <1>2
  <2> HIDE DEF p
  <2>2. Without(list, e) = short
    BY <1>2 DEF Without, p
  <2>3. /\ short \in Seq(Entries) /\ DOMAIN short = 1 .. Len(list) - 1
        /\ \A j \in 1 .. Len(list) - 1 :
              short[j] = IF j < p THEN list[j] ELSE list[j + 1]
    <3>1. Len(list) - 1 \in Nat
      BY <2>1
    <3>2. \A j \in 1 .. Len(list) - 1 :
             (IF j < p THEN list[j] ELSE list[j + 1]) \in Entries
      BY <2>1
    <3>3. QED BY <3>1, <3>2 DEF RemovedAt
  <2> HIDE DEF short
  <2>4. NoTwice(short)
    <3> DEFINE from(j) == IF j < p THEN j ELSE j + 1
    <3>1. \A j \in DOMAIN short : /\ from(j) \in DOMAIN list
                                  /\ short[j] = list[from(j)]
      BY <2>1, <2>3
    <3>2. \A i, j \in DOMAIN short : i # j => from(i) # from(j)
      BY <2>1, <2>3
    <3> HIDE DEF from
    <3>3. QED BY <3>1, <3>2 DEF NoTwice
  <2>5. ASSUME NEW x, InList(short, x) PROVE InList(list, x) /\ x # e
    <3>1. PICK j \in 1 .. Len(list) - 1 : short[j] = x
      BY <2>3, <2>5 DEF InList
    <3>2. CASE j < p
      BY <2>1, <2>3, <3>1, <3>2 DEF InList, NoTwice
    <3>3. CASE ~ (j < p)
      <4>1. j + 1 \in DOMAIN list /\ j + 1 # p /\ list[j + 1] = x
        BY <2>1, <2>3, <3>1, <3>3
      <4>2. QED BY <2>1, <4>1 DEF InList, NoTwice
    <3>4. QED BY <3>2, <3>3
  <2>6. ASSUME NEW x, InList(list, x), x # e PROVE InList(short, x)
    <3>1. PICK i \in 1 .. Len(list) : list[i] = x
      BY <2>6 DEF InList
    <3>2. CASE i < p
      <4>1. i \in 1 .. Len(list) - 1 /\ short[i] = x
        BY <2>1, <2>3, <3>1, <3>2
      <4>2. QED BY <2>3, <4>1 DEF InList
    <3>3. CASE ~ (i < p)
      <4>1. i - 1 \in 1 .. Len(list) - 1 /\ ~ (i - 1 < p) /\ (i - 1) + 1 = i
        BY <2>1, <2>6, <3>1, <3>3
      <4>2. QED BY <2>3, <3>1, <4>1 DEF InList
    <3>4. QED BY <3>2, <3>3
  <2>7. QED BY <2>2, <2>3, <2>4, <2>5, <2>6
<1>3. QED BY <1>1, <1>2

(* LRU_Append adds an entry that is not in the list.                       *)
LEMMA AppendOf ==
    ASSUME NEW list \in Seq(Entries), NoTwice(list), NEW e \in Entries,
           ~ InList(list, e)
    PROVE  /\ Append(list, e) \in Seq(Entries) /\ NoTwice(Append(list, e))
           /\ \A x : InList(Append(list, e), x) <=> InList(list, x) \/ x = e
<1> DEFINE long == Append(list, e)
<1>1. /\ long \in Seq(Entries) /\ DOMAIN long = 1 .. Len(list) + 1
      /\ DOMAIN list = 1 .. Len(list) /\ Len(list) \in Nat
      /\ long[Len(list) + 1] = e
  OBVIOUS
<1>2. \A i \in 1 .. Len(list) : long[i] = list[i]
  OBVIOUS
<1> HIDE DEF long
<1>3. NoTwice(long)
  BY <1>1, <1>2 DEF NoTwice, InList
<1>4. \A x : InList(long, x) <=> InList(list, x) \/ x = e
  BY <1>1, <1>2 DEF InList
<1>5. QED BY <1>1, <1>3, <1>4 DEF long
-----------------------------------------------------------------------------
\* Who holds an entry.

(* The holders of an entry are counted by a number, 0 if there is none.    *)
LEMMA HoldersAreCounted ==
    ASSUME NEW e
    PROVE  /\ IsFiniteSet(Holders(e)) /\ Cardinality(Holders(e)) \in Nat
           /\ Cardinality(Holders(e)) = 0 <=> Holders(e) = {}
<1>1. IsFiniteSet(Holders(e))
  BY SetsAreFinite, FS_Subset DEF Holders
<1>2. QED BY <1>1, FS_CardinalityType, FS_EmptySet

(* A client that held nothing takes an entry: it has one holder more.      *)
LEMMA OneHolderMore ==
    ASSUME NEW c \in Clients, NEW e \in Entries, TypeOK,
           client[c].handle = None,
           NEW new, new.handle = e,
           client' = [client EXCEPT ![c] = new]
    PROVE  \A x \in Entries : Cardinality(Holders(x)') =
              Cardinality(Holders(x)) + IF x = e THEN 1 ELSE 0
<1>1. /\ client'[c] = new /\ \A d \in Clients \ {c} : client'[d] = client[d]
  BY DEF TypeOK
<1>2. ASSUME NEW x \in Entries PROVE c \notin Holders(x)
  BY <1>2, NoneIsNoEntry DEF Holders
<1>3. Holders(e)' = Holders(e) \cup {c}
  BY <1>1, <1>2 DEF Holders
<1>4. \A x \in Entries \ {e} : Holders(x)' = Holders(x)
  BY <1>1, <1>2 DEF Holders
<1>5. Cardinality(Holders(e) \cup {c}) = Cardinality(Holders(e)) + 1
  BY <1>2, HoldersAreCounted, FS_AddElement
<1>6. QED BY <1>3, <1>4, <1>5, HoldersAreCounted

(* A client lets go of its entry: it has one holder less.                  *)
LEMMA OneHolderLess ==
    ASSUME NEW c \in Clients, NEW e \in Entries, TypeOK,
           client[c].handle = e, client' = [client EXCEPT ![c] = Idle]
    PROVE  /\ \A x \in Entries : Cardinality(Holders(x)') =
              Cardinality(Holders(x)) - IF x = e THEN 1 ELSE 0
           /\ Cardinality(Holders(e)) > 0
<1>1. /\ client'[c] = Idle /\ \A d \in Clients \ {c} : client'[d] = client[d]
  BY DEF TypeOK
<1>2. Idle.handle = None
  BY DEF Idle
<1>3. Holders(e)' = Holders(e) \ {c}
  BY <1>1, <1>2, NoneIsNoEntry DEF Holders
<1>4. \A x \in Entries \ {e} : Holders(x)' = Holders(x)
  BY <1>1, <1>2, NoneIsNoEntry DEF Holders
<1>5. c \in Holders(e)
  BY DEF Holders
<1>6. Cardinality(Holders(e) \ {c}) = Cardinality(Holders(e)) - 1
  BY <1>5, HoldersAreCounted, FS_RemoveElement
<1>7. Cardinality(Holders(e)) \in Nat /\ Cardinality(Holders(e)) # 0
  BY <1>5, HoldersAreCounted
<1>8. \A x \in Entries : Cardinality(Holders(x)) \in Nat
  BY HoldersAreCounted
<1>9. \A x \in Entries : Cardinality(Holders(x)') =
         Cardinality(Holders(x)) - IF x = e THEN 1 ELSE 0
  <2>1. Cardinality(Holders(e)') = Cardinality(Holders(e)) - 1
    BY <1>3, <1>6
  <2>2. \A x \in Entries \ {e} : Cardinality(Holders(x)') = Cardinality(Holders(x)) - 0
    BY <1>4, <1>8
  <2>3. QED BY <2>1, <2>2
<1>10. QED BY <1>7, <1>9

(* A client that holds no entry before or after: nobody's count changes.   *)
LEMMA SameHolders ==
    ASSUME NEW c \in Clients, TypeOK, client[c].handle = None,
           NEW new, new.handle = None, client' = [client EXCEPT ![c] = new]
    PROVE  \A x \in Entries : Holders(x)' = Holders(x)
<1>1. /\ client'[c] = new /\ \A d \in Clients \ {c} : client'[d] = client[d]
  BY DEF TypeOK
<1>2. QED BY <1>1, NoneIsNoEntry DEF Holders
-----------------------------------------------------------------------------
\* The inductive invariant: ListsAgree in its parts, the counts, and the
\* key of what a client holds.

InUseAgrees == inUse = {e \in Entries : inCache[e] /\ refs[e] > 1}

LruAgrees ==
    /\ NoTwice(lru)
    /\ \A e \in Entries : InList(lru, e) <=> inCache[e] /\ refs[e] = 1

TableAgrees ==
    /\ \A e \in Entries : inCache[e] => keyOf[e] \in Keys /\ table[keyOf[e]] = e
    /\ \A k \in Keys : table[k] # None => inCache[table[k]] /\ keyOf[table[k]] = k

KeysAgree ==
    \A c \in Clients : client[c].pc = "holds" => keyOf[client[c].handle] = client[c].key

IInv == /\ TypeOK /\ RefsAreCounted /\ InUseAgrees /\ LruAgrees
        /\ TableAgrees /\ KeysAgree

LEMMA ListsAgreeInParts == IInv => ListsAgree
  BY DEF IInv, InUseAgrees, LruAgrees, TableAgrees, ListsAgree, InList, NoTwice

(* What the program counter says of a client's key and handle.             *)
LEMMA KindsOfClients ==
    ASSUME TypeOK, NEW c \in Clients
    PROVE  /\ client[c].pc = "idle" => client[c] = Idle
           /\ client[c].pc = "missed" => client[c].key \in Keys /\ client[c].handle = None
           /\ client[c].pc = "holds" => client[c].key \in Keys /\ client[c].handle \in Entries
           /\ client[c].handle \in Entries => client[c].pc = "holds"
<1>1. client[c] \in Client
  BY DEF TypeOK
<1>2. QED BY <1>1, NoneIsNoEntry DEF Client, Idle

(* A freed entry is nowhere; an entry in the cache has a reference.        *)
LEMMA FreedIsNowhere ==
    ASSUME IInv, NEW e \in Entries
    PROVE  /\ refs[e] = 0 => /\ ~ inCache[e] /\ Holders(e) = {}
                             /\ ~ InList(lru, e) /\ e \notin inUse
           /\ inCache[e] => refs[e] >= 1
<1>1. refs[e] = Cardinality(Holders(e)) + (IF inCache[e] THEN 1 ELSE 0)
  BY DEF IInv, RefsAreCounted
<1>2. inCache[e] \in BOOLEAN
  BY DEF IInv, TypeOK
<1>3. QED
  BY <1>1, <1>2, HoldersAreCounted DEF IInv, InUseAgrees, LruAgrees

LEMMA InitIInv == Init => IInv
<1> SUFFICES ASSUME Init PROVE IInv
  OBVIOUS
<1>1. TypeOK
  <2>1. Idle \in Client
    BY DEF Idle, Client
  <2>2. QED BY <2>1 DEF Init, TypeOK
<1>2. \A e \in Entries : Holders(e) = {}
  BY NoneIsNoEntry DEF Init, Holders, Idle
<1>3. RefsAreCounted
  <2>1. \A e \in Entries : Cardinality(Holders(e)) = 0
    BY <1>2, FS_EmptySet
  <2>2. \A e \in Entries : refs[e] = 0 /\ inCache[e] = FALSE
    BY DEF Init
  <2>3. QED BY <2>1, <2>2 DEF RefsAreCounted
<1>4. InUseAgrees /\ LruAgrees /\ TableAgrees /\ KeysAgree
  BY DEF Init, InUseAgrees, LruAgrees, TableAgrees, KeysAgree, InList, NoTwice, Idle
<1>5. QED BY <1>1, <1>3, <1>4 DEF IInv

(* An entry that is in the cache is taken out of the table and the lists.  *)
LEMMA StepOutOfCache ==
    ASSUME IInv, NEW e \in Entries, inCache[e],
           table' = [table EXCEPT ![keyOf[e]] = None], FinishErase(e),
           client' = client, loop' = loop
    PROVE  IInv'
<1> DEFINE n == Cardinality(Holders(e))
<1>t. TypeOK /\ keyOf[e] \in Keys /\ table[keyOf[e]] = e
  BY DEF IInv, TableAgrees
<1>1. refs[e] = n + 1 /\ n \in Nat
  BY HoldersAreCounted DEF IInv, RefsAreCounted
<1>2. /\ refs' = [refs EXCEPT ![e] = @ - 1] /\ inCache' = [inCache EXCEPT ![e] = FALSE]
      /\ keyOf' = keyOf /\ charge' = charge /\ inUse' = inUse \ {e}
      /\ lru' = Without(lru, e) /\ usage' = usage - charge[e]
  BY DEF FinishErase, CacheLets, UsageWithout
<1>3. /\ lru' \in Seq(Entries) /\ NoTwice(lru')
      /\ \A x : InList(lru', x) <=> InList(lru, x) /\ x # e
  BY <1>2, WithoutOf DEF IInv, TypeOK, LruAgrees
<1>4. refs'[e] = n /\ \A x \in Entries \ {e} : refs'[x] = refs[x]
  BY <1>1, <1>2 DEF IInv, TypeOK
<1>5. ~ inCache'[e] /\ \A x \in Entries \ {e} : inCache'[x] = inCache[x]
  BY <1>2, <1>t DEF TypeOK
<1>6. TypeOK'
  <2>1. refs' \in [Entries -> Nat]
    BY <1>1, <1>2, <1>t DEF TypeOK
  <2>2. usage' \in Int
    BY <1>2, <1>t DEF TypeOK
  <2>3. QED BY <1>2, <1>3, <1>t, <2>1, <2>2 DEF TypeOK
<1>7. RefsAreCounted'
  <2>1. \A x : Holders(x)' = Holders(x)
    BY DEF Holders
  <2>2. QED BY <1>1, <1>4, <1>5, <2>1 DEF IInv, RefsAreCounted
<1>8. InUseAgrees'
  BY <1>2, <1>4, <1>5 DEF IInv, InUseAgrees
<1>9. LruAgrees'
  BY <1>3, <1>4, <1>5 DEF IInv, LruAgrees
<1>10. TableAgrees'
  BY <1>2, <1>5, <1>t, NoneIsNoEntry DEF IInv, TableAgrees, TypeOK
<1>11. KeysAgree'
  BY <1>2 DEF IInv, KeysAgree
<1>12. QED BY <1>6, <1>7, <1>8, <1>9, <1>10, <1>11 DEF IInv

LEMMA StepLookup ==
    ASSUME IInv, NEW c \in Clients, NEW k \in Keys, Lookup(c, k)
    PROVE  IInv'
<1>t. TypeOK /\ client[c] = Idle /\ Idle.handle = None
  BY KindsOfClients DEF IInv, Lookup, Idle
<1>u. UNCHANGED <<inCache, keyOf, charge, table, usage, loop>>
  BY DEF Lookup
<1>1. CASE table[k] = None
  <2> DEFINE new == [Idle EXCEPT !.pc = "missed", !.key = k]
  <2>1. /\ client' = [client EXCEPT ![c] = new] /\ UNCHANGED <<refs, lru, inUse>>
    BY <1>1 DEF Lookup
  <2>2. new.handle = None /\ new.pc = "missed" /\ new \in Client
    BY DEF Idle, Client
  <2>3. \A x \in Entries : Holders(x)' = Holders(x)
    BY <1>t, <2>1, <2>2, SameHolders
  <2>4. TypeOK'
    BY <1>t, <1>u, <2>1, <2>2 DEF TypeOK
  <2>5. RefsAreCounted'
    BY <1>u, <2>1, <2>3 DEF IInv, RefsAreCounted
  <2>6. InUseAgrees' /\ LruAgrees' /\ TableAgrees'
    BY <1>u, <2>1 DEF IInv, InUseAgrees, LruAgrees, TableAgrees, InList, NoTwice
  <2>7. KeysAgree'
    BY <1>t, <1>u, <2>1, <2>2 DEF IInv, KeysAgree, TypeOK
  <2>8. QED BY <2>4, <2>5, <2>6, <2>7 DEF IInv
<1>2. CASE table[k] # None
  <2> DEFINE e == table[k]
             new == [pc |-> "holds", key |-> k, handle |-> e]
  <2>1. e \in Entries /\ inCache[e] /\ keyOf[e] = k
    BY <1>2, <1>t DEF IInv, TableAgrees, TypeOK
  <2>2. /\ client' = [client EXCEPT ![c] = new] /\ Ref(e)
    BY <1>2 DEF Lookup
  <2>3. new \in Client /\ new.handle = e
    BY <2>1 DEF Client
  <2>4. \A x \in Entries : Cardinality(Holders(x)') =
           Cardinality(Holders(x)) + IF x = e THEN 1 ELSE 0
    BY <1>t, <2>1, <2>2, <2>3, OneHolderMore
  <2>5. /\ refs' = [refs EXCEPT ![e] = @ + 1] /\ refs[e] \in Nat /\ refs[e] >= 1
        /\ refs' \in [Entries -> Nat]
    BY <1>t, <2>1, <2>2, FreedIsNowhere DEF Ref, TypeOK
  <2>6. refs'[e] = refs[e] + 1 /\ \A x \in Entries \ {e} : refs'[x] = refs[x]
    BY <1>t, <2>1, <2>5 DEF TypeOK
  <2>7. InUseAgrees' /\ LruAgrees' /\ lru' \in Seq(Entries) /\ inUse' \subseteq Entries
    <3>1. CASE refs[e] = 1
      <4>1. lru' = Without(lru, e) /\ inUse' = inUse \cup {e}
        BY <2>1, <2>2, <3>1 DEF Ref
      <4>2. /\ lru' \in Seq(Entries) /\ NoTwice(lru')
            /\ \A x : InList(lru', x) <=> InList(lru, x) /\ x # e
        BY <4>1, <1>t, WithoutOf DEF IInv, TypeOK, LruAgrees
      <4>3. InUseAgrees'
        BY <1>u, <2>1, <2>6, <3>1, <4>1 DEF IInv, InUseAgrees
      <4>4. LruAgrees'
        BY <1>u, <2>1, <2>6, <3>1, <4>2 DEF IInv, LruAgrees
      <4>5. lru' \in Seq(Entries) /\ inUse' \subseteq Entries
        BY <1>t, <2>1, <4>1, <4>2 DEF TypeOK
      <4>6. QED BY <4>3, <4>4, <4>5
    <3>2. CASE refs[e] # 1
      <4>1. UNCHANGED <<lru, inUse>>
        BY <2>2, <3>2 DEF Ref
      <4>2. InUseAgrees'
        BY <1>u, <2>1, <2>5, <2>6, <3>2, <4>1 DEF IInv, InUseAgrees
      <4>3. LruAgrees'
        BY <1>u, <2>1, <2>5, <2>6, <3>2, <4>1 DEF IInv, LruAgrees
      <4>4. QED BY <1>t, <4>1, <4>2, <4>3 DEF TypeOK
    <3>3. QED BY <3>1, <3>2
  <2>8. TypeOK'
    BY <1>t, <1>u, <2>2, <2>3, <2>5, <2>7 DEF TypeOK
  <2>9. RefsAreCounted'
    <3>1. ASSUME NEW x \in Entries
          PROVE refs'[x] = Cardinality(Holders(x)') + IF inCache'[x] THEN 1 ELSE 0
      <4>1. /\ refs[x] = Cardinality(Holders(x)) + (IF inCache[x] THEN 1 ELSE 0)
            /\ Cardinality(Holders(x)) \in Nat
        BY HoldersAreCounted DEF IInv, RefsAreCounted
      <4>2. CASE x = e
        BY <1>u, <2>1, <2>4, <2>6, <4>1, <4>2
      <4>3. CASE x # e
        <5>1. refs'[x] = refs[x] /\ Cardinality(Holders(x)') = Cardinality(Holders(x)) + 0
          BY <2>4, <2>6, <4>3
        <5>2. QED BY <1>u, <4>1, <5>1
      <4>4. QED BY <4>2, <4>3
    <3>2. QED BY <3>1 DEF RefsAreCounted
  <2>10. TableAgrees'
    BY <1>u DEF IInv, TableAgrees
  <2>11. KeysAgree'
    BY <1>t, <1>u, <2>1, <2>2 DEF IInv, KeysAgree, TypeOK
  <2>12. QED BY <2>7, <2>8, <2>9, <2>10, <2>11 DEF IInv
<1>3. QED BY <1>1, <1>2

LEMMA StepGiveUp ==
    ASSUME IInv, NEW c \in Clients, GiveUp(c)
    PROVE  IInv'
<1>1. /\ client[c].handle = None /\ client' = [client EXCEPT ![c] = Idle]
      /\ UNCHANGED <<entryVars, table, lru, inUse, usage, loop>> /\ TypeOK
  BY KindsOfClients DEF IInv, GiveUp
<1>2. Idle \in Client /\ Idle.handle = None /\ Idle.pc = "idle"
  BY DEF Idle, Client
<1>3. \A x \in Entries : Holders(x)' = Holders(x)
  BY <1>1, <1>2, SameHolders
<1>4. TypeOK'
  BY <1>1, <1>2 DEF TypeOK, entryVars
<1>5. RefsAreCounted'
  BY <1>1, <1>3 DEF IInv, RefsAreCounted, entryVars
<1>6. InUseAgrees' /\ LruAgrees' /\ TableAgrees'
  BY <1>1 DEF IInv, InUseAgrees, LruAgrees, TableAgrees, InList, NoTwice, entryVars
<1>7. KeysAgree'
  BY <1>1, <1>2 DEF IInv, KeysAgree, TypeOK, entryVars
<1>8. QED BY <1>4, <1>5, <1>6, <1>7 DEF IInv

(* What an insertion does before it looks for an entry with the same key.  *)
LEMMA InsertedEntry ==
    ASSUME IInv, NEW c \in Clients, client[c].pc = "missed",
           NEW e \in Entries, NEW size \in Charges, refs[e] = 0, Holds(c, e),
           keyOf' = [keyOf EXCEPT ![e] = client[c].key],
           charge' = [charge EXCEPT ![e] = size]
    PROVE  /\ client[c].key \in Keys
           /\ client' \in [Clients -> Client]
           /\ keyOf' \in [Entries -> Keys \cup {None}]
           /\ charge' \in [Entries -> Nat]
           /\ keyOf'[e] = client[c].key
           /\ \A x \in Entries \ {e} : keyOf'[x] = keyOf[x]
           /\ Cardinality(Holders(e)') = 1
           /\ \A x \in Entries \ {e} : Cardinality(Holders(x)') = Cardinality(Holders(x))
           /\ KeysAgree'
<1> DEFINE k == client[c].key
           new == [pc |-> "holds", key |-> k, handle |-> e]
<1>t. TypeOK /\ k \in Keys /\ client[c].handle = None
  BY KindsOfClients DEF IInv
<1>1. client' = [client EXCEPT ![c] = new] /\ new \in Client /\ new.handle = e
  BY <1>t DEF Holds, Client
<1>2. client' \in [Clients -> Client] /\ keyOf' \in [Entries -> Keys \cup {None}]
  BY <1>t, <1>1 DEF TypeOK
<1>3. charge' \in [Entries -> Nat]
  BY <1>t, SizesAreNat DEF TypeOK
<1>4. keyOf'[e] = k /\ \A x \in Entries \ {e} : keyOf'[x] = keyOf[x]
  BY <1>t DEF TypeOK
<1>5. \A x \in Entries : Cardinality(Holders(x)') =
         Cardinality(Holders(x)) + IF x = e THEN 1 ELSE 0
  BY <1>t, <1>1, OneHolderMore
<1>6. Holders(e) = {} /\ Cardinality(Holders(e)) = 0
  BY FreedIsNowhere, FS_EmptySet
<1>7. Cardinality(Holders(e)') = 1
  BY <1>5, <1>6
<1>8. \A x \in Entries \ {e} : Cardinality(Holders(x)') = Cardinality(Holders(x))
  <2>1. \A x \in Entries : Cardinality(Holders(x)) \in Nat
    BY HoldersAreCounted
  <2>2. \A x \in Entries \ {e} : Cardinality(Holders(x)') = Cardinality(Holders(x)) + 0
    BY <1>5
  <2>3. QED BY <2>1, <2>2
<1>9. KeysAgree'
  <2>1. SUFFICES ASSUME NEW d \in Clients, client'[d].pc = "holds"
                 PROVE keyOf'[client'[d].handle] = client'[d].key
    BY DEF KeysAgree
  <2>2. CASE d = c
    BY <1>t, <1>1, <1>4, <2>2 DEF TypeOK
  <2>3. CASE d # c
    <3>1. client'[d] = client[d] /\ client[d].handle \in Entries
      BY <1>t, <1>1, <2>1, <2>3, KindsOfClients DEF TypeOK
    <3>2. client[d].handle # e
      BY <1>6 DEF Holders
    <3>3. QED BY <1>4, <2>1, <3>1, <3>2 DEF IInv, KeysAgree
  <2>4. QED BY <2>2, <2>3
<1>10. QED BY <1>t, <1>2, <1>3, <1>4, <1>7, <1>8, <1>9

LEMMA StepInsert ==
    ASSUME IInv, NEW c \in Clients, Insert(c)
    PROVE  IInv'
<1>1. PICK e \in Entries, size \in Charges :
         /\ refs[e] = 0 /\ Holds(c, e)
         /\ keyOf' = [keyOf EXCEPT ![e] = client[c].key]
         /\ charge' = [charge EXCEPT ![e] = size]
         /\ InsertUncached(c, e) \/ InsertCached(c, e)
  BY DEF Insert
<1> DEFINE k == client[c].key
<1>t. TypeOK /\ client[c].pc = "missed"
  BY DEF IInv, Insert
<1>2. /\ k \in Keys /\ client' \in [Clients -> Client]
      /\ keyOf' \in [Entries -> Keys \cup {None}] /\ charge' \in [Entries -> Nat]
      /\ keyOf'[e] = k /\ \A x \in Entries \ {e} : keyOf'[x] = keyOf[x]
      /\ Cardinality(Holders(e)') = 1
      /\ \A x \in Entries \ {e} : Cardinality(Holders(x)') = Cardinality(Holders(x))
      /\ KeysAgree'
  BY <1>1, <1>t, InsertedEntry
<1>3. ~ inCache[e] /\ ~ InList(lru, e) /\ e \notin inUse
  BY <1>1, FreedIsNowhere
<1>4. \A x \in Entries : /\ refs[x] = Cardinality(Holders(x)) + (IF inCache[x] THEN 1 ELSE 0)
                         /\ Cardinality(Holders(x)) \in Nat /\ inCache[x] \in BOOLEAN
  BY <1>t, HoldersAreCounted DEF IInv, RefsAreCounted, TypeOK
<1>5. CASE InsertUncached(c, e)
  <2>1. /\ refs' = [refs EXCEPT ![e] = 1] /\ inCache' = [inCache EXCEPT ![e] = FALSE]
        /\ UNCHANGED <<table, lru, inUse, usage, loop>>
    BY <1>5 DEF InsertUncached
  <2>2. /\ refs'[e] = 1 /\ ~ inCache'[e]
        /\ \A x \in Entries \ {e} : refs'[x] = refs[x] /\ inCache'[x] = inCache[x]
    BY <1>t, <2>1 DEF TypeOK
  <2>3. TypeOK'
    BY <1>t, <1>2, <2>1 DEF TypeOK
  <2>4. RefsAreCounted'
    BY <1>2, <1>4, <2>2 DEF RefsAreCounted
  <2>5. InUseAgrees' /\ LruAgrees'
    BY <1>3, <2>1, <2>2 DEF IInv, InUseAgrees, LruAgrees, InList, NoTwice
  <2>6. TableAgrees'
    BY <1>2, <1>3, <1>t, <2>1, <2>2 DEF IInv, TableAgrees, TypeOK
  <2>7. QED BY <1>2, <2>3, <2>4, <2>5, <2>6 DEF IInv
<1>6. CASE InsertCached(c, e) /\ table[k] = None
  <2>1. /\ refs' = [refs EXCEPT ![e] = 2] /\ inCache' = [inCache EXCEPT ![e] = TRUE]
        /\ table' = [table EXCEPT ![k] = e] /\ inUse' = inUse \cup {e}
        /\ usage' = usage + charge'[e] /\ lru' = lru /\ loop' = "evict"
    BY <1>6 DEF InsertCached
  <2>2. /\ refs'[e] = 2 /\ inCache'[e]
        /\ \A x \in Entries \ {e} : refs'[x] = refs[x] /\ inCache'[x] = inCache[x]
    BY <1>t, <2>1 DEF TypeOK
  <2>3. TypeOK'
    <3>1. usage' \in Int
      BY <1>t, <1>2, <2>1 DEF TypeOK
    <3>2. QED BY <1>t, <1>2, <2>1, <3>1 DEF TypeOK
  <2>4. RefsAreCounted'
    BY <1>2, <1>4, <2>2 DEF RefsAreCounted
  <2>5. InUseAgrees' /\ LruAgrees'
    BY <1>3, <2>1, <2>2 DEF IInv, InUseAgrees, LruAgrees, InList, NoTwice
  <2>6. TableAgrees'
    BY <1>2, <1>3, <1>6, <1>t, <2>1, <2>2, NoneIsNoEntry DEF IInv, TableAgrees, TypeOK
  <2>7. QED BY <1>2, <2>3, <2>4, <2>5, <2>6 DEF IInv
<1>7. CASE InsertCached(c, e) /\ table[k] # None
  <2> DEFINE old == table[k]
  <2>1. /\ old \in Entries /\ inCache[old] /\ keyOf[old] = k /\ old # e
        /\ refs[old] >= 1
    BY <1>2, <1>3, <1>7, <1>t, FreedIsNowhere DEF IInv, TableAgrees, TypeOK
  <2>2. /\ refs' = [[refs EXCEPT ![e] = 2] EXCEPT ![old] = @ - 1]
        /\ inCache' = [inCache EXCEPT ![e] = TRUE, ![old] = FALSE]
        /\ table' = [table EXCEPT ![k] = e] /\ inUse' = (inUse \cup {e}) \ {old}
        /\ usage' = (usage - charge[old]) + charge'[e] /\ lru' = Without(lru, old)
        /\ loop' = "evict"
    BY <1>7 DEF InsertCached, CacheLets, UsageWithout
  <2>3. /\ refs'[e] = 2 /\ inCache'[e] /\ refs'[old] = refs[old] - 1 /\ ~ inCache'[old]
        /\ \A x \in Entries \ {e, old} : refs'[x] = refs[x] /\ inCache'[x] = inCache[x]
    BY <1>t, <2>1, <2>2 DEF TypeOK
  <2>4. /\ lru' \in Seq(Entries) /\ NoTwice(lru')
        /\ \A x : InList(lru', x) <=> InList(lru, x) /\ x # old
    BY <1>t, <2>2, WithoutOf DEF IInv, TypeOK, LruAgrees
  <2>5. TypeOK'
    <3>1. usage' \in Int
      BY <1>t, <1>2, <2>1, <2>2 DEF TypeOK
    <3>2. refs[old] - 1 \in Nat
      BY <1>t, <2>1 DEF TypeOK
    <3>3. refs' \in [Entries -> Nat]
      BY <1>t, <2>1, <2>2, <3>2 DEF TypeOK
    <3>4. QED BY <1>t, <1>2, <2>1, <2>2, <2>4, <3>1, <3>3 DEF TypeOK
  <2>6. RefsAreCounted'
    BY <1>2, <1>4, <2>1, <2>3 DEF RefsAreCounted
  <2>7. InUseAgrees'
    <3>1. \A x \in Entries \ {e, old} : x \in inUse' <=> inCache'[x] /\ refs'[x] > 1
      BY <2>2, <2>3 DEF IInv, InUseAgrees
    <3>2. e \in inUse' /\ old \notin inUse' /\ inUse' \subseteq Entries
      BY <1>t, <2>1, <2>2 DEF TypeOK
    <3>3. \A x \in Entries : x \in inUse' <=> inCache'[x] /\ refs'[x] > 1
      BY <2>3, <3>1, <3>2
    <3>4. QED BY <3>2, <3>3 DEF InUseAgrees
  <2>8. LruAgrees'
    BY <1>3, <2>1, <2>3, <2>4 DEF IInv, LruAgrees
  <2>9. TableAgrees'
    <3>1. table'[k] = e /\ \A q \in Keys \ {k} : table'[q] = table[q]
      BY <1>t, <1>2, <2>2 DEF TypeOK
    <3>2. \A x \in Entries : inCache[x] => keyOf[x] \in Keys /\ table[keyOf[x]] = x
      BY DEF IInv, TableAgrees
    <3>3. \A x \in Entries : inCache'[x] => keyOf'[x] \in Keys /\ table'[keyOf'[x]] = x
      BY <1>2, <2>1, <2>3, <3>1, <3>2
    <3>4. ASSUME NEW q \in Keys, table'[q] # None
          PROVE  inCache'[table'[q]] /\ keyOf'[table'[q]] = q
      <4>1. CASE q = k
        BY <1>2, <2>3, <3>1, <4>1
      <4>2. CASE q # k
        <5>1. /\ table'[q] = table[q] /\ table[q] \in Entries
              /\ inCache[table[q]] /\ keyOf[table[q]] = q
          BY <1>t, <3>1, <3>4, <4>2 DEF IInv, TableAgrees, TypeOK
        <5>2. table[q] # e /\ table[q] # old
          BY <1>3, <2>1, <4>2, <5>1
        <5>3. QED BY <1>2, <2>3, <5>1, <5>2
      <4>3. QED BY <4>1, <4>2
    <3>5. QED BY <3>3, <3>4 DEF TableAgrees
  <2>10. QED BY <1>2, <2>5, <2>6, <2>7, <2>8, <2>9 DEF IInv
<1>8. QED BY <1>1, <1>5, <1>6, <1>7

LEMMA StepEvictOne == IInv /\ EvictOne => IInv'
<1> SUFFICES ASSUME IInv, EvictOne PROVE IInv'
  OBVIOUS
<1> DEFINE e == Head(lru)
<1>1. lru \in Seq(Entries) /\ lru # << >> /\ FinishErase(e)
      /\ table' = [table EXCEPT ![keyOf[e]] = None] /\ client' = client /\ loop' = loop
  BY DEF IInv, TypeOK, EvictOne, GoesOn
<1>2. e \in Entries /\ 1 \in DOMAIN lru /\ lru[1] = e
  BY <1>1
<1>3. inCache[e]
  BY <1>2 DEF IInv, LruAgrees, InList
<1> HIDE DEF e
<1>4. QED BY <1>1, <1>2, <1>3, StepOutOfCache

LEMMA StepErase ==
    ASSUME IInv, NEW k \in Keys, Erase(k)
    PROVE  IInv'
<1> DEFINE e == table[k]
<1>1. /\ e # None /\ FinishErase(e) /\ table' = [table EXCEPT ![k] = None]
      /\ client' = client /\ loop' = loop
  BY DEF Erase, OutOfTable
<1>2. e \in Entries /\ inCache[e] /\ keyOf[e] = k
  BY <1>1 DEF IInv, TypeOK, TableAgrees
<1> HIDE DEF e
<1>3. QED BY <1>1, <1>2, StepOutOfCache

LEMMA StepRelease ==
    ASSUME IInv, NEW c \in Clients, Release(c)
    PROVE  IInv'
<1> DEFINE e == client[c].handle
<1>t. TypeOK /\ e \in Entries
  BY KindsOfClients DEF IInv, Release
<1>1. /\ Unref(e) /\ client' = [client EXCEPT ![c] = Idle]
      /\ UNCHANGED <<inCache, keyOf, charge, table, usage, loop>>
  BY DEF Release
<1>2. Idle \in Client /\ Idle.handle = None /\ Idle.pc = "idle"
  BY DEF Idle, Client
<1>3. /\ \A x \in Entries : Cardinality(Holders(x)') =
            Cardinality(Holders(x)) - IF x = e THEN 1 ELSE 0
      /\ Cardinality(Holders(e)) > 0
  <2> HIDE DEF e
  <2>1. client[c].handle = e
    BY DEF e
  <2>2. QED BY <1>t, <1>1, <2>1, OneHolderLess
<1>4. \A x \in Entries : /\ refs[x] = Cardinality(Holders(x)) + (IF inCache[x] THEN 1 ELSE 0)
                         /\ Cardinality(Holders(x)) \in Nat /\ inCache[x] \in BOOLEAN
  BY <1>t, HoldersAreCounted DEF IInv, RefsAreCounted, TypeOK
<1> HIDE DEF e
<1>5. /\ refs' = [refs EXCEPT ![e] = @ - 1] /\ refs[e] - 1 \in Nat
      /\ inCache[e] => refs[e] >= 2
  BY <1>t, <1>1, <1>3, <1>4 DEF Unref
<1>6. refs'[e] = refs[e] - 1 /\ \A x \in Entries \ {e} : refs'[x] = refs[x]
  BY <1>t, <1>5 DEF TypeOK
<1>7. InUseAgrees' /\ LruAgrees' /\ lru' \in Seq(Entries) /\ inUse' \subseteq Entries
  <2>1. CASE refs[e] = 2 /\ inCache[e]
    <3>1. lru' = Append(Without(lru, e), e) /\ inUse' = inUse \ {e}
      BY <1>1, <2>1 DEF Unref
    <3>2. /\ Without(lru, e) \in Seq(Entries) /\ NoTwice(Without(lru, e))
          /\ \A x : InList(Without(lru, e), x) <=> InList(lru, x) /\ x # e
      BY <1>t, WithoutOf DEF IInv, TypeOK, LruAgrees
    <3>3. /\ lru' \in Seq(Entries) /\ NoTwice(lru')
          /\ \A x : InList(lru', x) <=> (InList(lru, x) /\ x # e) \/ x = e
      BY <1>t, <3>1, <3>2, AppendOf
    <3>4. InUseAgrees'
      BY <1>1, <1>6, <2>1, <3>1 DEF IInv, InUseAgrees
    <3>5. LruAgrees'
      BY <1>1, <1>6, <2>1, <3>3 DEF IInv, LruAgrees
    <3>6. QED BY <1>t, <3>1, <3>3, <3>4, <3>5 DEF TypeOK
  <2>2. CASE ~ (refs[e] = 2 /\ inCache[e])
    <3>1. UNCHANGED <<lru, inUse>>
      BY <1>1, <2>2 DEF Unref
    <3>2. inCache[e] => refs[e] > 2 /\ refs'[e] > 1
      BY <1>t, <1>5, <1>6, <2>2 DEF TypeOK
    <3>3. InUseAgrees'
      <4>1. \A x \in Entries : inCache[x] /\ refs[x] > 1 <=> inCache'[x] /\ refs'[x] > 1
        BY <1>1, <1>4, <1>5, <1>6, <3>2
      <4>2. QED BY <3>1, <4>1 DEF IInv, InUseAgrees
    <3>4. LruAgrees'
      BY <1>1, <1>6, <3>1, <3>2 DEF IInv, LruAgrees
    <3>5. QED BY <1>t, <3>1, <3>3, <3>4 DEF TypeOK
  <2>3. QED BY <2>1, <2>2
<1>8. TypeOK'
  BY <1>t, <1>1, <1>2, <1>5, <1>7 DEF TypeOK
<1>9. RefsAreCounted'
  <2>1. ASSUME NEW x \in Entries
        PROVE refs'[x] = Cardinality(Holders(x)') + IF inCache'[x] THEN 1 ELSE 0
    <3>1. CASE x = e
      <4>1. Cardinality(Holders(x)') = Cardinality(Holders(x)) - 1
        BY <1>3, <3>1
      <4>2. QED BY <1>1, <1>4, <1>6, <3>1, <4>1
    <3>2. CASE x # e
      <4>1. Cardinality(Holders(x)') = Cardinality(Holders(x)) - 0 /\ refs'[x] = refs[x]
        BY <1>3, <1>6, <3>2
      <4>2. QED BY <1>1, <1>4, <4>1
    <3>3. QED BY <3>1, <3>2
  <2>2. QED BY <2>1 DEF RefsAreCounted
<1>10. TableAgrees'
  BY <1>1 DEF IInv, TableAgrees
<1>11. KeysAgree'
  BY <1>t, <1>1, <1>2 DEF IInv, KeysAgree, TypeOK
<1>12. QED BY <1>7, <1>8, <1>9, <1>10, <1>11 DEF IInv

(* Prune, and the end of a loop, change only who has the mutex.            *)
LEMMA StepLoop ==
    ASSUME IInv, loop' \in {"none", "evict", "prune"},
           UNCHANGED <<entryVars, table, lru, inUse, usage, client>>
    PROVE  IInv'
<1>1. TypeOK'
  BY DEF IInv, TypeOK, entryVars
<1>2. RefsAreCounted'
  BY DEF IInv, RefsAreCounted, Holders, entryVars
<1>3. InUseAgrees' /\ LruAgrees' /\ TableAgrees' /\ KeysAgree'
  BY DEF IInv, InUseAgrees, LruAgrees, TableAgrees, KeysAgree, InList, NoTwice, entryVars
<1>4. QED BY <1>1, <1>2, <1>3 DEF IInv

LEMMA NextIInv == IInv /\ [Next]_vars => IInv'
<1> SUFFICES ASSUME IInv, [Next]_vars PROVE IInv'
  OBVIOUS
<1>1. ASSUME NEW c \in Clients, NEW k \in Keys, Lookup(c, k) PROVE IInv'
  BY <1>1, StepLookup
<1>2. ASSUME NEW c \in Clients, GiveUp(c) \/ Insert(c) \/ Release(c) PROVE IInv'
  BY <1>2, StepGiveUp, StepInsert, StepRelease
<1>3. CASE EvictOne
  BY <1>3, StepEvictOne
<1>4. CASE Evicted \/ Prune
  BY <1>4, StepLoop DEF Evicted, Prune
<1>5. ASSUME NEW k \in Keys, Erase(k) PROVE IInv'
  BY <1>5, StepErase
<1>6. CASE UNCHANGED vars
  BY <1>6, StepLoop DEF vars, IInv, TypeOK
<1>7. QED BY <1>1, <1>2, <1>3, <1>4, <1>5, <1>6 DEF Next
-----------------------------------------------------------------------------
\* The results.

LEMMA InvariantHolds == Spec => []IInv
<1>1. Init => IInv
  BY InitIInv
<1>2. IInv /\ [Next]_vars => IInv'
  BY NextIInv
<1>3. QED BY <1>1, <1>2, PTL DEF Spec

(* The variables keep their types; so no count of references falls below 0 *)
(* (assert(e->refs > 0) in Unref).                                         *)
THEOREM TypeCorrect == Spec => []TypeOK
<1>1. IInv => TypeOK
  BY DEF IInv
<1>2. QED BY <1>1, InvariantHolds, PTL

(* An entry has a reference for each client that holds it and one for the  *)
(* cache: it is freed exactly when nobody has it.                          *)
THEOREM ReferencesAreCounted == Spec => []RefsAreCounted
<1>1. IInv => RefsAreCounted
  BY DEF IInv
<1>2. QED BY <1>1, InvariantHolds, PTL

(* What a client holds is alive and is what it looked for, whatever other  *)
(* clients insert over it, erase or evict.                                 *)
THEOREM WhatIsHeldIsAlive == Spec => []HeldIsAlive
<1>1. ASSUME IInv PROVE HeldIsAlive
  <2>1. SUFFICES ASSUME NEW c \in Clients, client[c].pc = "holds"
                 PROVE  /\ refs[client[c].handle] > 0
                        /\ keyOf[client[c].handle] = client[c].key
    BY DEF HeldIsAlive
  <2>2. client[c].handle \in Entries /\ TypeOK
    BY <1>1, <2>1, KindsOfClients DEF IInv
  <2>3. c \in Holders(client[c].handle)
    BY DEF Holders
  <2>4. refs[client[c].handle] \in Nat /\ refs[client[c].handle] # 0
    BY <1>1, <2>2, <2>3, FreedIsNowhere DEF TypeOK
  <2>5. QED BY <1>1, <2>1, <2>4 DEF IInv, KeysAgree
<1>2. QED BY <1>1, InvariantHolds, PTL

(* Each entry of the cache is in just one of the two lists, the one that   *)
(* its references call for, and the table finds just these entries.        *)
THEOREM ListsAgreeWithTable == Spec => []ListsAgree
  BY ListsAgreeInParts, InvariantHolds, PTL
=============================================================================
