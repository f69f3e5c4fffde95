-------------------------------- MODULE LdbCache --------------------------------
(***************************************************************************)
(* One shard of the LRU cache, and the clients that look a key up in it,   *)
(* read the table or block if it is not there, and insert it: TableCache   *)
(* and Table::BlockReader.  Every operation holds the mutex; the rounds of *)
(* the loops that evict entries are steps, and the mutex is kept between   *)
(* them.  The hash table is a function from keys to entries.               *)
(***************************************************************************)
EXTENDS Integers, Sequences, FiniteSets

CONSTANTS Keys, Clients,
          Entries,   \* memory for entries: LRUHandle
          Charges,   \* that an entry may have
          Capacity,
          None       \* a null pointer

ASSUME NoneIsNoEntry == None \notin Entries
ASSUME SetsAreFinite == IsFiniteSet(Entries) /\ IsFiniteSet(Clients)
ASSUME SizesAreNat == Charges \subseteq Nat /\ Capacity \in Nat

VARIABLES refs, inCache, keyOf, charge,  \* of an entry; refs = 0: it is freed
          table,                         \* table_
          lru,                           \* lru_, the oldest first
          inUse,                         \* in_use_
          usage,                         \* usage_
          loop,                          \* "none", or the loop that holds the mutex
          client                         \* a client: its key and its handle

entryVars == <<refs, inCache, keyOf, charge>>
vars == <<entryVars, table, lru, inUse, usage, loop, client>>

Idle == [pc |-> "idle", key |-> None, handle |-> None]

Init ==
    /\ refs = [e \in Entries |-> 0] /\ inCache = [e \in Entries |-> FALSE]
    /\ keyOf = [e \in Entries |-> None] /\ charge = [e \in Entries |-> 0]
    /\ table = [k \in Keys |-> None] /\ lru = << >> /\ inUse = {} /\ usage = 0
    /\ loop = "none" /\ client = [c \in Clients |-> Idle]
-----------------------------------------------------------------------------
\* LRU_Remove.
RemovedAt(list, i) ==
    [j \in 1 .. Len(list) - 1 |-> IF j < i THEN list[j] ELSE list[j + 1]]
Without(list, e) ==
    IF \A i \in DOMAIN list : list[i] # e THEN list
    ELSE RemovedAt(list, CHOOSE i \in DOMAIN list : list[i] = e)

\* A slip: an entry that nobody uses stays in the list of those.
RefInPlace(e) == refs' = [refs EXCEPT ![e] = @ + 1] /\ UNCHANGED <<lru, inUse>>

Ref(e) ==
    /\ refs' = [refs EXCEPT ![e] = @ + 1]
    /\ IF refs[e] = 1 /\ inCache[e]
       THEN lru' = Without(lru, e) /\ inUse' = inUse \cup {e}
       ELSE UNCHANGED <<lru, inUse>>

\* Deallocated without references, and in the LRU list with the cache's only.
Unref(e) ==
    /\ refs' = [refs EXCEPT ![e] = @ - 1]
    /\ IF refs[e] = 2 /\ inCache[e]
       THEN lru' = Append(Without(lru, e), e) /\ inUse' = inUse \ {e}
       ELSE UNCHANGED <<lru, inUse>>

\* A slip: the cache gives the memory back, whoever uses it.
FreeAtOnce(e, r) == [r EXCEPT ![e] = 0]

\* A slip: the cache's own reference is not given up.
CacheKeeps(e, r) == r

\* Unref of the cache's own reference.
CacheLets(e, r) == [r EXCEPT ![e] = @ - 1]

\* A slip: only an entry that is freed is taken off.
UsageIfFreed(e) == IF refs[e] = 1 THEN usage - charge[e] ELSE usage

UsageWithout(e) == usage - charge[e]

\* FinishErase, of an entry that is out of the table already.
FinishErase(e) ==
    /\ inCache' = [inCache EXCEPT ![e] = FALSE] /\ refs' = CacheLets(e, refs)
    /\ lru' = Without(lru, e) /\ inUse' = inUse \ {e} /\ usage' = UsageWithout(e)
    /\ UNCHANGED <<keyOf, charge>>

Lookup(c, k) ==
    /\ loop = "none" /\ client[c].pc = "idle"
    /\ IF table[k] = None
       THEN /\ client' = [client EXCEPT ![c] = [Idle EXCEPT !.pc = "missed", !.key = k]]
            /\ UNCHANGED <<refs, lru, inUse>>
       ELSE /\ client' = [client EXCEPT ![c] = [pc |-> "holds", key |-> k, handle |-> table[k]]]
            /\ Ref(table[k])
    /\ UNCHANGED <<inCache, keyOf, charge, table, usage, loop>>

\* The file cannot be opened, or the block not be read.
GiveUp(c) ==
    /\ client[c].pc = "missed" /\ client' = [client EXCEPT ![c] = Idle]
    /\ UNCHANGED <<entryVars, table, lru, inUse, usage, loop>>

Holds(c, e) ==
    client' = [client EXCEPT ![c] = [pc |-> "holds", key |-> client[c].key, handle |-> e]]

\* A capacity of 0 turns caching off.
InsertUncached(c, e) ==
    /\ refs' = [refs EXCEPT ![e] = 1] /\ inCache' = [inCache EXCEPT ![e] = FALSE]
    /\ UNCHANGED <<table, lru, inUse, usage, loop>>

\* An entry with the same key goes out of the cache.
InsertCached(c, e) ==
    /\ loop' = "evict"
    /\ LET k == client[c].key
           old == table[k]
           added == [refs EXCEPT ![e] = 2]
       IN /\ table' = [table EXCEPT ![k] = e]
          /\ IF old = None
             THEN /\ refs' = added /\ inCache' = [inCache EXCEPT ![e] = TRUE]
                  /\ inUse' = inUse \cup {e} /\ usage' = usage + charge'[e] /\ UNCHANGED lru
             ELSE /\ refs' = CacheLets(old, added)
                  /\ inCache' = [inCache EXCEPT ![e] = TRUE, ![old] = FALSE]
                  /\ inUse' = (inUse \cup {e}) \ {old} /\ lru' = Without(lru, old)
                  /\ usage' = UsageWithout(old) + charge'[e]

Insert(c) ==
    /\ loop = "none" /\ client[c].pc = "missed"
    /\ \E e \in Entries, size \in Charges :
          /\ refs[e] = 0 /\ Holds(c, e)
          /\ keyOf' = [keyOf EXCEPT ![e] = client[c].key]
          /\ charge' = [charge EXCEPT ![e] = size]
          /\ IF Capacity > 0 THEN InsertCached(c, e) ELSE InsertUncached(c, e)

\* A round of the loop in Insert, or in Prune.
GoesOn == lru # << >> /\ (loop = "evict" => usage > Capacity)

EvictOne ==
    /\ loop # "none" /\ GoesOn
    /\ table' = [table EXCEPT ![keyOf[Head(lru)]] = None]
    /\ FinishErase(Head(lru)) /\ UNCHANGED <<loop, client>>

Evicted ==
    /\ loop # "none" /\ ~ GoesOn /\ loop' = "none"
    /\ UNCHANGED <<entryVars, table, lru, inUse, usage, client>>

Release(c) ==
    /\ loop = "none" /\ client[c].pc = "holds"
    /\ Unref(client[c].handle) /\ client' = [client EXCEPT ![c] = Idle]
    /\ UNCHANGED <<inCache, keyOf, charge, table, usage, loop>>

OutOfTable(k) == [table EXCEPT ![k] = None]

Erase(k) ==
    /\ loop = "none" /\ table[k] # None
    /\ table' = OutOfTable(k) /\ FinishErase(table[k])
    /\ UNCHANGED <<loop, client>>

Prune ==
    /\ loop = "none" /\ loop' = "prune"
    /\ UNCHANGED <<entryVars, table, lru, inUse, usage, client>>

Next ==
    \/ \E c \in Clients : (\E k \in Keys : Lookup(c, k)) \/ GiveUp(c) \/ Insert(c) \/ Release(c)
    \/ EvictOne \/ Evicted \/ Prune
    \/ \E k \in Keys : Erase(k)

Spec == Init /\ [][Next]_vars
-----------------------------------------------------------------------------
Client == [pc : {"idle"}, key : {None}, handle : {None}]
          \cup [pc : {"missed"}, key : Keys, handle : {None}]
          \cup [pc : {"holds"}, key : Keys, handle : Entries]

TypeOK ==
    /\ refs \in [Entries -> Nat] /\ inCache \in [Entries -> BOOLEAN]
    /\ keyOf \in [Entries -> Keys \cup {None}] /\ charge \in [Entries -> Nat]
    /\ table \in [Keys -> Entries \cup {None}] /\ lru \in Seq(Entries)
    /\ inUse \subseteq Entries /\ usage \in Int
    /\ loop \in {"none", "evict", "prune"} /\ client \in [Clients -> Client]

Holders(e) == {c \in Clients : client[c].handle = e}

\* References are counted: an entry is freed when, and only when, neither
\* the cache nor a client has it (the assertions in Unref).
RefsAreCounted ==
    \A e \in Entries : refs[e] = Cardinality(Holders(e)) + IF inCache[e] THEN 1 ELSE 0

\* What a client holds is not freed, and is what it looked for, whatever is
\* inserted over it, evicted or erased meanwhile.
HeldIsAlive ==
    \A c \in Clients : client[c].pc = "holds" =>
        refs[client[c].handle] > 0 /\ keyOf[client[c].handle] = client[c].key

\* "Items in the cache are in one list or the other, and never both": in the
\* LRU list if only the cache has them; and the table finds just these.
ListsAgree ==
    /\ inUse = {e \in Entries : inCache[e] /\ refs[e] > 1}
    /\ \A e \in Entries : (\E i \in DOMAIN lru : lru[i] = e) <=> inCache[e] /\ refs[e] = 1
    /\ \A i, j \in DOMAIN lru : i # j => lru[i] # lru[j]
    /\ \A e \in Entries : inCache[e] => keyOf[e] \in Keys /\ table[keyOf[e]] = e
    /\ \A k \in Keys : table[k] # None => inCache[table[k]] /\ keyOf[table[k]] = k
=============================================================================
