----------------------------- MODULE TieredCache -----------------------------
(* CacheManager over a CompositeCache of core_engine/cache/manager.py: a      *)
(* bounded LRU in memory, a Redis that answered the ping of initialize, and a *)
(* directory of files.  Memory and disk are accessed without an await, so a   *)
(* step runs from one Redis command, or one call of a loader, to the next.    *)
EXTENDS Integers, Sequences, FiniteSets

CONSTANTS
    Tasks,       \* the asyncio tasks that use the cache
    Keys,        \* the namespaced keys that are followed through the tiers
    Others,      \* keys followed in memory only, where they evict and are evicted
    Values,      \* cached values
    MaxSize,     \* config.max_size
    DefaultTTL,  \* config.default_ttl_seconds, in ticks
    TTLs,        \* the ttl_seconds that set is called with
    None

ASSUME CacheAssumption ==
    /\ IsFiniteSet(Tasks) /\ MaxSize \in Nat \ {0} /\ DefaultTTL \in Nat \ {0}
    /\ TTLs \subseteq Nat \ {0} /\ DefaultTTL \in TTLs
    /\ \E n \in TTLs : \A m \in TTLs : m <= n
    /\ None \notin Values \cup Keys \cup Others /\ Keys \cap Others = {}

VARIABLES
    memory,  \* _store of MemoryLRUBackend, least recently used first
    redis,   \* the Redis keyspace: an entry or Missing for each key
    disk,    \* the files: an entry or Missing for each key
    op,      \* op[t]: the call task t is in
    last     \* last[k]: what the last set or delete of k wrote and its age, or
             \* Unknown where that write failed in a tier or met another call

cacheVars == <<memory, redis, disk, op, last>>

(* An entry keeps the ticks left until it expires - negative when it has - and *)
(* the ticks its value has rested in caches since it was written.             *)
LongestTTL == CHOOSE n \in TTLs : \A m \in TTLs : m <= n
StaleBound == LET n == LongestTTL + DefaultTTL
              IN IF n > 3 * DefaultTTL THEN n ELSE 3 * DefaultTTL
Entry == [value : Values, left : -1..LongestTTL, rest : 0..StaleBound + 1]
Missing == [value |-> None, left |-> -1, rest |-> 0]
Unknown == [value |-> None, age |-> -1]

Idle == [kind |-> "idle", key |-> None, at |-> "out", served |-> FALSE,
         value |-> None, rest |-> 0, ttl |-> DefaultTTL, found |-> {}, alone |-> FALSE]

Init == /\ memory = <<>>
        /\ redis = [k \in Keys |-> Missing] /\ disk = [k \in Keys |-> Missing]
        /\ op = [t \in Tasks |-> Idle]
        /\ last = [k \in Keys |-> [value |-> None, age |-> 0]]

-----------------------------------------------------------------------------
(* The tiers.                                                                 *)

\* What a sequence has at the positions I, in its order.
Kept(m, I) == [n \in 1..Cardinality(I) |->
                 m[CHOOSE i \in I : Cardinality({j \in I : j <= i}) = n]]
Drop(m, k) == Kept(m, {i \in DOMAIN m : m[i].key # k})
Holds(m, k) == \E i \in DOMAIN m : m[i].key = k
EntryOf(m, k) == m[CHOOSE i \in DOMAIN m : m[i].key = k]

\* A bug: an expired entry is a hit.
Live_Ever(e) == e # Missing
\* time.time() > expiry is false.
Live(e) == e.left >= 0

\* The least recently used entry makes room for a new key.
Evict(m, k) == IF ~Holds(m, k) /\ Len(m) >= MaxSize THEN Tail(m) ELSE m

\* MemoryLRUBackend.set; each hundredth set purges what has expired, and which
\* one that is is left open.
MemorySets(m, k, v, ttl, rest) ==
    LET new == Append(Drop(Evict(m, k), k),
                      [key |-> k, value |-> v, left |-> ttl, rest |-> rest])
    IN {new, Kept(new, {i \in DOMAIN new : new[i].left > 0})}

Stored(v, ttl, rest) == [value |-> v, left |-> ttl, rest |-> rest]
-----------------------------------------------------------------------------
(* The calls in flight.                                                       *)

OnKey(k) == {u \in Tasks : op[u].key = k \/ op[u].kind = "clear"}

\* Task t starts a call; calls on one key disturb each other, two gets excepted.
Start(t, o) ==
    LET apart(u) == o.kind = "get" /\ op[u].kind = "get"
    IN op' = [u \in Tasks |->
                IF u = t THEN [o EXCEPT !.alone =
                     \A w \in Tasks \ {t} :
                       op[w] # Idle /\ (w \in OnKey(o.key) \/ o.kind = "clear") => apart(w)]
                ELSE IF u \in OnKey(o.key) \/ o.kind = "clear"
                     THEN [op[u] EXCEPT !.alone = @ /\ apart(u)]
                     ELSE op[u]]

Becomes(t, o) == op' = [op EXCEPT ![t] = o]
At(o, label) == [o EXCEPT !.at = label, !.served = FALSE]
Gives(o, v, rest) == [o EXCEPT !.at = "returned", !.served = FALSE, !.value = v,
                               !.rest = rest]

(* A call of get or get_or_load looks in memory.                              *)
MemoryHit(t, kind, k) ==
    /\ Holds(memory, k) /\ Live(EntryOf(memory, k))
    /\ LET e == EntryOf(memory, k) IN
         /\ memory' = Append(Drop(memory, k), e)
         /\ Start(t, Gives([Idle EXCEPT !.kind = kind, !.key = k], e.value, e.rest))

MemoryMiss(t, kind, k) ==
    /\ ~(Holds(memory, k) /\ Live(EntryOf(memory, k)))
    /\ memory' = Drop(memory, k)
    /\ Start(t, [Idle EXCEPT !.kind = kind, !.key = k, !.at = "lookup"])

BeginGet(t) ==
    /\ op[t] = Idle
    /\ \E kind \in {"get", "load"}, k \in Keys :
         MemoryHit(t, kind, k) \/ MemoryMiss(t, kind, k)
    /\ UNCHANGED <<redis, disk, last>>

\* Redis had it: the value is put in memory with the default ttl.
RedisHit(t) ==
    LET o == op[t] IN
    /\ o.at = "lookup" /\ o.served /\ o.value # None
    /\ memory' \in MemorySets(memory, o.key, o.value, DefaultTTL, o.rest)
    /\ Becomes(t, Gives(o, o.value, o.rest))
    /\ UNCHANGED <<redis, disk, last>>

\* The disk has it: it is put in memory, then in Redis.
DiskHit(t) ==
    LET o == op[t] IN
    /\ o.at = "lookup" /\ o.served /\ o.value = None
    /\ Live(disk[o.key])
    /\ LET e == disk[o.key] IN
         /\ memory' \in MemorySets(memory, o.key, e.value, DefaultTTL, e.rest)
         /\ Becomes(t, At([o EXCEPT !.value = e.value, !.rest = e.rest], "promote"))
    /\ UNCHANGED <<redis, disk, last>>

\* A miss in every tier, an unreadable file included; get_or_load calls its loader.
MissEverywhere(t) ==
    LET o == op[t] IN
    /\ o.at = "lookup" /\ o.served /\ o.value = None
    /\ \/ ~Live(disk[o.key]) /\ disk' = [disk EXCEPT ![o.key] = Missing]
                             /\ Becomes(t, At(o, IF o.kind = "get" THEN "returned"
                                                                   ELSE "loading"))
       \/ Live(disk[o.key]) /\ UNCHANGED disk
                            /\ Becomes(t, At([o EXCEPT !.alone = FALSE],
                                             IF o.kind = "get" THEN "returned"
                                                               ELSE "loading"))
    /\ UNCHANGED <<memory, redis, last>>

Promoted(t) ==
    /\ op[t].at = "promote" /\ op[t].served
    /\ Becomes(t, At(op[t], "returned"))
    /\ UNCHANGED <<memory, redis, disk, last>>

-----------------------------------------------------------------------------
(* set, delete and the second half of get_or_load.                            *)

\* The write of v, None for a delete, starts with memory and asks Redis.
Write(k, v, ttl) ==
    /\ memory' \in IF v = None THEN {Drop(memory, k)}
                               ELSE MemorySets(memory, k, v, ttl, 0)
    /\ last' = [last EXCEPT ![k] = Unknown]
    /\ UNCHANGED <<redis, disk>>

BeginSet(t) ==
    /\ op[t] = Idle
    /\ \E k \in Keys, v \in Values, ttl \in TTLs :
         /\ Write(k, v, ttl)
         /\ Start(t, [Idle EXCEPT !.kind = "set", !.key = k, !.at = "store",
                                  !.value = v, !.ttl = ttl])

BeginDelete(t) ==
    /\ op[t] = Idle
    /\ \E k \in Keys :
         /\ Write(k, None, DefaultTTL)
         /\ Start(t, [Idle EXCEPT !.kind = "delete", !.key = k, !.at = "store"])

LoaderGives(t) ==
    LET o == op[t] IN
    /\ o.at = "loading"
    /\ \E v \in Values, ttl \in TTLs :
         /\ Write(o.key, v, ttl)
         /\ Becomes(t, [o EXCEPT !.at = "store", !.value = v, !.ttl = ttl])

\* The loader gives None; nothing is stored.
LoaderGivesNone(t) ==
    /\ op[t].at = "loading"
    /\ Becomes(t, Idle)
    /\ UNCHANGED <<memory, redis, disk, last>>

\* A bug: a delete leaves the file.
Filed_DeleteKept(k, v) ==
    [disk EXCEPT ![k] = IF v = None THEN @ ELSE Stored(v, DefaultTTL, 0)]
\* What the disk tier holds for k after v was written.
Filed(k, v) == [disk EXCEPT ![k] = IF v = None THEN Missing
                                   ELSE Stored(v, DefaultTTL, 0)]

\* The ttl is lost on disk, where the default is the age a file may have.
WriteDisk(t) ==
    LET o == op[t] IN
    /\ o.at = "store" /\ o.served
    /\ disk' = Filed(o.key, o.value)
    /\ last' = IF o.alone THEN [last EXCEPT ![o.key] = [value |-> o.value, age |-> 0]]
               ELSE last
    /\ Becomes(t, Idle)
    /\ UNCHANGED <<memory, redis>>

\* The disk fails: the old file is left, or a file nothing can be read from.
WriteDiskFails(t) ==
    LET o == op[t] IN
    /\ o.at = "store" /\ o.served
    /\ disk' \in {disk, [disk EXCEPT ![o.key] = Missing]}
    /\ Becomes(t, Idle)
    /\ UNCHANGED <<memory, redis, last>>

\* warm_namespace awaits its warmer and then sets what it gives.
BeginWarm(t) ==
    /\ op[t] = Idle
    /\ \E k \in Keys : Start(t, [Idle EXCEPT !.kind = "load", !.key = k, !.at = "loading"])
    /\ UNCHANGED <<memory, redis, disk, last>>

-----------------------------------------------------------------------------
(* clear: memory, then the keys that Redis lists, then the files.             *)

BeginClear(t) ==
    /\ op[t] = Idle
    /\ memory' = <<>>
    /\ last' = [k \in Keys |-> Unknown]
    /\ Start(t, [Idle EXCEPT !.kind = "clear", !.at = "keys"])
    /\ UNCHANGED <<redis, disk>>

\* KEYS; without any key nothing is deleted.
ServeKeys(t) ==
    /\ op[t].at = "keys"
    /\ LET found == {k \in Keys : redis[k] # Missing}
       IN Becomes(t, [op[t] EXCEPT !.found = found,
                                   !.at = IF found = {} THEN "files" ELSE "wipe"])
    /\ UNCHANGED <<memory, redis, disk, last>>

\* DEL of the keys that were listed; the reply may still be an error.
ServeWipe(t) ==
    /\ op[t].at = "wipe"
    /\ redis' = [k \in Keys |-> IF k \in op[t].found THEN Missing ELSE redis[k]]
    /\ \E ok \in BOOLEAN :
         Becomes(t, [op[t] EXCEPT !.at = "files", !.found = {}, !.alone = @ /\ ok])
    /\ UNCHANGED <<memory, disk, last>>

ClearFails(t) ==
    /\ op[t].at \in {"keys", "wipe"}
    /\ Becomes(t, [op[t] EXCEPT !.at = "files", !.found = {}, !.alone = FALSE])
    /\ UNCHANGED <<memory, redis, disk, last>>

\* An unlink that raises ends the clear of this tier, and is swallowed.
ClearFiles(t) ==
    /\ op[t].at = "files"
    /\ \E kept \in SUBSET {k \in Keys : disk[k] # Missing} :
         /\ disk' = [k \in Keys |-> IF k \in kept THEN disk[k] ELSE Missing]
         /\ last' = IF op[t].alone /\ kept = {}
                      THEN [k \in Keys |-> [value |-> None, age |-> 0]] ELSE last
    /\ Becomes(t, Idle)
    /\ UNCHANGED <<memory, redis>>

-----------------------------------------------------------------------------
(* Redis.                                                                     *)

PutTTL(o) == IF o.at = "promote" THEN DefaultTTL ELSE o.ttl

Answer(t) == [op[t] EXCEPT !.served = TRUE]

\* GET
ServeLookup(t) ==
    LET e == redis[op[t].key] IN
    /\ op[t].at = "lookup" /\ ~op[t].served
    /\ Becomes(t, [Answer(t) EXCEPT !.value = e.value, !.rest = e.rest])
    /\ UNCHANGED <<memory, redis, disk, last>>

\* SET with EX, DEL; the reply may still be an error.
ServePut(t) ==
    LET o == op[t] IN
    /\ o.at \in {"promote", "store"} /\ ~o.served
    /\ redis' = [redis EXCEPT ![o.key] = IF o.value = None THEN Missing
                                         ELSE Stored(o.value, PutTTL(o), o.rest)]
    /\ \E ok \in BOOLEAN :
         Becomes(t, [Answer(t) EXCEPT !.alone = @ /\ (ok \/ o.at # "store")])
    /\ UNCHANGED <<memory, disk, last>>

\* An error, swallowed by the backend: a miss, or a write that was not made.
RedisFails(t) ==
    LET o == op[t] IN
    /\ o.at \in {"lookup", "promote", "store"} /\ ~o.served
    /\ Becomes(t, [Answer(t) EXCEPT !.alone = @ /\ o.at # "store"])
    /\ UNCHANGED <<memory, redis, disk, last>>

-----------------------------------------------------------------------------
\* A set, or a promotion, of a key that is not followed.
SetOther ==
    /\ \E k \in Others : memory' \in MemorySets(memory, k, None, DefaultTTL, 0)
    /\ UNCHANGED <<redis, disk, op, last>>

Return(t) ==
    /\ op[t].at = "returned"
    /\ Becomes(t, Idle)
    /\ UNCHANGED <<memory, redis, disk, last>>

\* CancelledError at an await.
Cancelled(t) ==
    /\ op[t].at \in {"lookup", "promote", "store", "loading", "keys", "wipe",
                   "files"}
    /\ Becomes(t, Idle)
    /\ UNCHANGED <<memory, redis, disk, last>>

Older(e) == [e EXCEPT !.left = IF @ > -1 THEN @ - 1 ELSE @,
                      !.rest = IF @ <= StaleBound THEN @ + 1 ELSE @]

\* Time passes.  Redis removes what has expired; the other tiers keep it.
Tick ==
    /\ memory' = [i \in DOMAIN memory |-> Older(memory[i])]
    /\ redis' = [k \in Keys |-> IF redis[k].left <= 1 THEN Missing ELSE Older(redis[k])]
    /\ disk' = [k \in Keys |-> IF disk[k] = Missing THEN Missing ELSE Older(disk[k])]
    /\ last' = [k \in Keys |-> IF last[k].value # None /\ last[k].age <= LongestTTL
                                THEN [last[k] EXCEPT !.age = @ + 1] ELSE last[k]]
    /\ UNCHANGED op

Serve(t) == ServeLookup(t) \/ ServePut(t) \/ RedisFails(t)
Resume(t) == \/ RedisHit(t) \/ DiskHit(t) \/ MissEverywhere(t) \/ Promoted(t)
             \/ WriteDisk(t) \/ WriteDiskFails(t)
Load(t) == LoaderGives(t) \/ LoaderGivesNone(t)
Begin(t) == BeginGet(t) \/ BeginSet(t) \/ BeginDelete(t) \/ BeginWarm(t) \/ BeginClear(t)
Clear(t) == ServeKeys(t) \/ ServeWipe(t) \/ ClearFails(t) \/ ClearFiles(t)

Next == \/ \E t \in Tasks : \/ Begin(t) \/ Serve(t) \/ Resume(t) \/ Load(t)
                            \/ Clear(t) \/ Return(t) \/ Cancelled(t)
        \/ SetOther \/ Tick

Spec == Init /\ [][Next]_cacheVars
-----------------------------------------------------------------------------
\* Every variable keeps its type, and memory keeps its size: at most max_size
\* entries, one for a key, whatever sets, promotions and deletes interleave.
TypeOK ==
    /\ memory \in Seq([key : Keys \cup Others, value : Values \cup {None}, left : -1..LongestTTL,
                       rest : 0..StaleBound + 1])
    /\ Len(memory) <= MaxSize
    /\ \A i, j \in DOMAIN memory : memory[i].key = memory[j].key => i = j
    /\ redis \in [Keys -> Entry \cup {Missing}]
    /\ disk \in [Keys -> Entry \cup {Missing}]
    /\ op \in [Tasks -> [kind : {"idle", "get", "load", "set", "delete", "clear"},
                         key : Keys \cup {None},
                         at : {"out", "lookup", "promote", "loading", "store", "returned",
                               "keys", "wipe", "files"},
                         served : BOOLEAN, value : Values \cup {None},
                         rest : 0..StaleBound + 1, ttl : TTLs,
                         found : SUBSET Keys, alone : BOOLEAN]]
    /\ last \in [Keys -> [value : Values \cup {None}, age : -1..LongestTTL + 1]]

InMemory(k) == {memory[i].value : i \in {j \in DOMAIN memory : memory[j].key = k}}

\* Write-through: after a set, delete or clear in which no tier failed and which met no
\* other call on its key, every tier that has the key has what was written, and
\* so has every later get under way, promotions and evictions notwithstanding.
WriteThrough ==
    \A k \in Keys : last[k] # Unknown =>
        /\ InMemory(k) \subseteq {last[k].value}
        /\ {redis[k].value, disk[k].value} \subseteq {last[k].value, None}
        /\ \A t \in OnKey(k) : op[t].value \in {last[k].value, None}

\* A get that meets no write gives what such a write left, also after an eviction
\* or with Redis failing; None only once the file's age is over the default ttl.
ReadsLastWrite ==
    \A t \in Tasks :
        LET o == op[t] IN
        o.kind = "get" /\ o.at = "returned" /\ o.alone /\ last[o.key] # Unknown =>
            \/ o.value = last[o.key].value
            \/ o.value = None /\ last[o.key].age > DefaultTTL

(* What holds between any two steps of gets, sets, deletes and loads: the     *)
(* variables are well typed, the tiers hold what was written last, and a get  *)
(* that meets no write reads it.                                              *)
Consistent == TypeOK /\ WriteThrough /\ ReadsLastWrite

\* Promotion renews the ttl of a value, yet no get gives one that rested longer
\* in the tiers than one ttl in each, or a set's ttl and one more promotion.
StaleForABoundedTime ==
    \A t \in Tasks : op[t].kind = "get" /\ op[t].at = "returned"
                       => op[t].rest <= StaleBound
=============================================================================
