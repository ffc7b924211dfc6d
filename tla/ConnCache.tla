------------------------------ MODULE ConnCache ------------------------------
(***************************************************************************)
(* The connection cache of a multi handle: ConnectionCache of               *)
(* src/safe/src/conn/cache.rs as add_handle and schedule_http2_pushes use   *)
(* it (src/safe/src/multi/mod.rs).  It maps what a transfer connects to,    *)
(* its key, to a connection id, and keeps the keys in the order of their    *)
(* last use to find the one to evict.                                      *)
(*                                                                         *)
(* All of it runs under the mutex of the multi handle: one transfer is one  *)
(* step.  get, len and remove of the cache have no caller and no action.    *)
(* A definition whose name extends that of the next one is a slip a change  *)
(* of the code could make; nothing uses it.                                *)
(***************************************************************************)
EXTENDS Integers, Sequences, FiniteSets, SequencesExt

CONSTANTS
    Key,        \* what transfers connect to (ConnectionCacheKey)
    Option,     \* the values CURLMOPT_MAXCONNECTS is set to
    EasyOption, \* those CURLOPT_MAXCONNECTS of a transfer has, 0 when not set
    MaxId       \* bound: no new connection when its id would exceed it

ASSUME OptionAssumption == Option \subseteq Int /\ EasyOption \subseteq Int
ASSUME BoundAssumption == MaxId \in Nat

VARIABLES
    entries,            \* the connection id of each key that is cached
    order,              \* the cached keys, the one used longest ago first
    next_connection_id,
    maxconnects         \* CURLMOPT_MAXCONNECTS of the multi handle, 0: no limit

vars == <<entries, order, next_connection_id, maxconnects>>

NoEntries == [k \in {} |-> 0]
Larger(a, b) == IF a > b THEN a ELSE b

Init ==
    /\ entries = NoEntries /\ order = <<>>
    /\ next_connection_id = 1
    /\ maxconnects = 0

\* CURLMOPT_MAXCONNECTS, which evicts nothing.
Clamped(n) == Larger(n, 0)
SetMaxConnects(n) ==
    /\ maxconnects' = Clamped(n)
    /\ UNCHANGED <<entries, order, next_connection_id>>

\* VecDeque::retain against one key, which is in the sequence at most once
\* (OrderIsEntries below).
Without(s, k) ==
    IF \E i \in DOMAIN s : s[i] = k
    THEN RemoveAt(s, CHOOSE i \in DOMAIN s : s[i] = k)
    ELSE s

\* remember of a key that is cached: it becomes the one used last.
ReuseTwice(k) ==
    /\ k \in DOMAIN entries
    /\ order' = Append(order, k)
    /\ UNCHANGED <<entries, next_connection_id, maxconnects>>
Reuse(k) ==
    /\ k \in DOMAIN entries
    /\ order' = Append(Without(order, k), k)
    /\ UNCHANGED <<entries, next_connection_id, maxconnects>>

\* How many keys are popped off a full cache: up to the first that is cached.
PoppedNotFull(limit) ==
    IF limit = 0 \/ Cardinality(DOMAIN entries) <= limit THEN 0 ELSE 1
Popped(limit) ==
    IF limit = 0 \/ Cardinality(DOMAIN entries) < limit THEN 0
    ELSE IF \E i \in DOMAIN order : order[i] \in DOMAIN entries
    THEN CHOOSE i \in DOMAIN order :
             /\ order[i] \in DOMAIN entries
             /\ \A j \in 1..(i - 1) : order[j] \notin DOMAIN entries
    ELSE Len(order)

\* remember of another key: a full cache loses one entry, then the key gets the
\* next id.
OpenSameId(k, limit) ==
    /\ k \notin DOMAIN entries
    /\ LET n == Popped(limit)
           kept == DOMAIN entries \ {order[i] : i \in 1..n}
       IN  /\ order' = Append(SubSeq(order, n + 1, Len(order)), k)
           /\ entries' = [x \in kept \cup {k} |->
                            IF x = k THEN next_connection_id ELSE entries[x]]
    /\ UNCHANGED <<next_connection_id, maxconnects>>
Open(k, limit) ==
    /\ k \notin DOMAIN entries
    /\ LET n == Popped(limit)
           kept == DOMAIN entries \ {order[i] : i \in 1..n}
       IN  /\ order' = Append(SubSeq(order, n + 1, Len(order)), k)
           /\ entries' = [x \in kept \cup {k} |->
                            IF x = k THEN next_connection_id ELSE entries[x]]
    /\ next_connection_id' = next_connection_id + 1
    /\ UNCHANGED maxconnects

\* A transfer to k: the larger of the two options is its limit.
Transfer(k, own) ==
    \/ Reuse(k)
    \/ /\ next_connection_id <= MaxId
       /\ Open(k, Larger(maxconnects, Clamped(own)))

Next ==
    \/ \E n \in Option : SetMaxConnects(n)
    \/ \E k \in Key, own \in EasyOption : Transfer(k, own)

Spec == Init /\ [][Next]_vars

-----------------------------------------------------------------------------
(* Properties.                                                               *)

\* Every variable has a value the code can give it; a negative option means
\* no limit and does not become a huge unsigned one.
TypeOK ==
    /\ DOMAIN entries \in SUBSET Key /\ IsFiniteSet(DOMAIN entries)
    /\ entries \in [DOMAIN entries -> Nat]
    /\ order \in Seq(Key)
    /\ next_connection_id \in Nat
    /\ maxconnects \in Nat

\* The two halves of the cache agree: order lists every cached key once and
\* nothing else.  Otherwise evictions would free nothing, or drop the wrong
\* entry.
OrderIsEntries ==
    /\ \A k \in DOMAIN entries : \E i \in DOMAIN order : order[i] = k
    /\ \A i \in DOMAIN order : order[i] \in DOMAIN entries
    /\ \A i, j \in DOMAIN order : order[i] = order[j] => i = j

\* No two keys have the same connection id, and the next id is none of them: a
\* transfer is never given the connection of another key.
IdsUnique ==
    /\ \A k \in DOMAIN entries : entries[k] < next_connection_id
    /\ \A k, l \in DOMAIN entries : entries[k] = entries[l] => k = l

\* The cache is a list of connections in the order of their last use, from
\* which a full one loses the first.
Connections == [i \in DOMAIN order |-> [key |-> order[i], id |-> entries[order[i]]]]
Limits == {Larger(maxconnects, Clamped(own)) : own \in EasyOption}
Lru == INSTANCE LruList WITH
    list <- Connections, issued <- next_connection_id - 1, limits <- Limits
LruSpec == Lru!Spec
=============================================================================
