--------------------------- MODULE ConnCache_proofs ---------------------------
(***************************************************************************)
(* The connection cache for any set of keys and any limits: its two halves  *)
(* agree, ids are unique, and it is the list of LruList.                   *)
(***************************************************************************)
EXTENDS ConnCache, RemoveAt_proofs, FunctionTheorems, FiniteSetTheorems,
        TLAPS

IInv == TypeOK /\ OrderIsEntries /\ IdsUnique

LEMMA LimitIsNat ==
    ASSUME NEW a \in Nat, NEW n \in Int
    PROVE  Clamped(n) \in Nat /\ Larger(a, Clamped(n)) \in Nat
BY DEF Clamped, Larger

LEMMA OwnIsInt == ASSUME NEW own \in EasyOption PROVE own \in Int
BY OptionAssumption

\* The queue is as long as the map is large.
LEMMA AsManyKeys ==
    ASSUME TypeOK, OrderIsEntries
    PROVE  /\ Len(order) \in Nat /\ DOMAIN order = 1..Len(order)
           /\ Cardinality(DOMAIN entries) = Len(order)
<1>1. Len(order) \in Nat /\ DOMAIN order = 1..Len(order)
  BY LenProperties DEF TypeOK
<1>2. order \in [1..Len(order) -> DOMAIN entries]
  <2>1. order = [i \in DOMAIN order |-> order[i]]
    BY LenProperties DEF TypeOK
  <2> QED BY <1>1, <2>1 DEF OrderIsEntries
<1>3. order \in Bijection(1..Len(order), DOMAIN entries)
  <2>1. \A i, j \in 1..Len(order) : order[i] = order[j] => i = j
    BY <1>1 DEF OrderIsEntries
  <2>2. \A k \in DOMAIN entries : \E i \in 1..Len(order) : order[i] = k
    BY <1>1 DEF OrderIsEntries
  <2> QED BY <1>2, <2>1, <2>2, Fun_IsBij
<1>4. ExistsBijection(1..Len(order), DOMAIN entries)
  BY <1>3 DEF ExistsBijection
<1> QED BY <1>1, <1>4, FS_CountingElements

\* The first key popped is always a cached one, so eviction is no loop.
LEMMA PopsOne ==
    ASSUME TypeOK, OrderIsEntries, NEW limit \in Nat
    PROVE  Popped(limit) = IF limit > 0 /\ Len(order) >= limit THEN 1 ELSE 0
<1>1. /\ Len(order) \in Nat /\ DOMAIN order = 1..Len(order)
      /\ Cardinality(DOMAIN entries) = Len(order)
  BY AsManyKeys
<1>2. CASE limit = 0 \/ Len(order) < limit
  BY <1>1, <1>2 DEF Popped
<1>3. CASE ~ (limit = 0 \/ Len(order) < limit)
  <2>1. 1 \in DOMAIN order /\ order[1] \in DOMAIN entries
    BY <1>1, <1>3 DEF OrderIsEntries
  <2> DEFINE First(i) == /\ order[i] \in DOMAIN entries
                         /\ \A j \in 1..(i - 1) : order[j] \notin DOMAIN entries
  <2>2. First(1)
    BY <2>1
  <2>3. \A i \in DOMAIN order : First(i) => i = 1
    BY <1>1, <2>1
  <2>4. (CHOOSE i \in DOMAIN order : First(i)) = 1
    BY <2>1, <2>2, <2>3
  <2>5. Popped(limit) = CHOOSE i \in DOMAIN order : First(i)
    BY <1>1, <1>3, <2>1 DEF Popped
  <2> QED BY <1>3, <2>4, <2>5, <1>1
<1> QED BY <1>2, <1>3

\* Reuse moves the key to the end of the queue.
LEMMA ReuseMoves ==
    ASSUME TypeOK, OrderIsEntries, NEW k \in Key, Reuse(k)
    PROVE  \E r \in 1..Len(order) :
              /\ order[r] = k
              /\ order' = [i \in 1..Len(order) |->
                             order[MovedFrom(r, Len(order), i)]]
              /\ order' \in Seq(Key)
<1>1. Len(order) \in Nat /\ DOMAIN order = 1..Len(order)
  BY AsManyKeys
<1>2. PICK r \in DOMAIN order : order[r] = k
  BY DEF Reuse, OrderIsEntries
<1>3. (CHOOSE i \in DOMAIN order : order[i] = k) = r
  BY <1>2 DEF OrderIsEntries
<1>4. Without(order, k) = RemoveAt(order, r)
  BY <1>2, <1>3 DEF Without
<1>5. order' = Append(RemoveAt(order, r), order[r])
  BY <1>2, <1>4 DEF Reuse
<1>6. order \in Seq(Key) /\ r \in 1..Len(order)
  BY <1>1, <1>2 DEF TypeOK
<1>7. /\ order' \in Seq(Key)
      /\ order' = [i \in 1..Len(order) |-> order[MovedFrom(r, Len(order), i)]]
  BY <1>5, <1>6, MovedToEnd
<1> QED BY <1>2, <1>6, <1>7

\* MovedFrom permutes the places of a sequence.
LEMMA MovedFromPermutes ==
    ASSUME NEW n \in Nat, NEW r \in 1..n
    PROVE  /\ \A i \in 1..n : MovedFrom(r, n, i) \in 1..n
           /\ \A i, j \in 1..n : MovedFrom(r, n, i) = MovedFrom(r, n, j) => i = j
           /\ \A j \in 1..n : \E i \in 1..n : MovedFrom(r, n, i) = j
<1>1. ASSUME NEW j \in 1..n PROVE \E i \in 1..n : MovedFrom(r, n, i) = j
  <2>1. CASE j < r
    BY <2>1 DEF MovedFrom
  <2>2. CASE j = r
    BY <2>2 DEF MovedFrom
  <2>3. CASE j > r
    <3>1. j - 1 \in 1..n /\ MovedFrom(r, n, j - 1) = j
      BY <2>3 DEF MovedFrom
    <3> QED BY <3>1
  <2> QED BY <2>1, <2>2, <2>3
<1> QED BY <1>1 DEF MovedFrom

LEMMA ReuseKeeps ==
    ASSUME IInv, NEW k \in Key, Reuse(k)
    PROVE  IInv'
<1> USE DEF IInv
<1>1. /\ Len(order) \in Nat /\ DOMAIN order = 1..Len(order)
  BY AsManyKeys
<1>2. PICK r \in 1..Len(order) :
         /\ order[r] = k
         /\ order' = [i \in 1..Len(order) |-> order[MovedFrom(r, Len(order), i)]]
         /\ order' \in Seq(Key)
  BY ReuseMoves
<1>3. UNCHANGED <<entries, next_connection_id, maxconnects>>
  BY DEF Reuse
<1>4. TypeOK'
  BY <1>2, <1>3 DEF TypeOK
<1>5. IdsUnique'
  BY <1>3 DEF IdsUnique
<1>6. DOMAIN order' = 1..Len(order)
      /\ \A i \in 1..Len(order) : order'[i] = order[MovedFrom(r, Len(order), i)]
  BY <1>2
<1>7. OrderIsEntries'
  <2>1. \A l \in DOMAIN entries' : \E i \in DOMAIN order' : order'[i] = l
    <3> TAKE l \in DOMAIN entries'
    <3>1. PICK j \in 1..Len(order) : order[j] = l
      BY <1>1, <1>3 DEF OrderIsEntries
    <3>2. PICK i \in 1..Len(order) : MovedFrom(r, Len(order), i) = j
      BY <1>1, MovedFromPermutes
    <3> QED BY <1>6, <3>1, <3>2
  <2>2. \A i \in DOMAIN order' : order'[i] \in DOMAIN entries'
    BY <1>1, <1>3, <1>6, MovedFromPermutes DEF OrderIsEntries
  <2>3. ASSUME NEW i \in DOMAIN order', NEW j \in DOMAIN order',
               order'[i] = order'[j]
        PROVE  i = j
    <3>1. MovedFrom(r, Len(order), i) = MovedFrom(r, Len(order), j)
      <4>1. /\ MovedFrom(r, Len(order), i) \in DOMAIN order
            /\ MovedFrom(r, Len(order), j) \in DOMAIN order
        BY <1>1, <1>6, MovedFromPermutes
      <4>2. order[MovedFrom(r, Len(order), i)] = order[MovedFrom(r, Len(order), j)]
        BY <1>6, <2>3
      <4> QED BY <4>1, <4>2 DEF OrderIsEntries
    <3> QED BY <1>1, <1>6, <3>1, MovedFromPermutes
  <2> QED BY <2>1, <2>2, <2>3 DEF OrderIsEntries
<1> QED BY <1>4, <1>5, <1>7

\* Open drops p keys, no more than the first, and appends the new one.
Evicted(limit) == IF limit > 0 /\ Len(order) >= limit THEN 1 ELSE 0

LEMMA OpenShape ==
    ASSUME IInv, NEW k \in Key, NEW limit \in Nat, Open(k, limit)
    PROVE  LET p == Evicted(limit) IN
           /\ p \in {0, 1} /\ Len(order) - p \in Nat
           /\ order' \in Seq(Key) /\ DOMAIN order' = 1..(Len(order) - p + 1)
           /\ \A i \in 1..(Len(order) - p) : order'[i] = order[p + i]
           /\ order'[Len(order) - p + 1] = k
           /\ DOMAIN entries'
                = (DOMAIN entries \ {order[i] : i \in 1..p}) \cup {k}
           /\ \A x \in DOMAIN entries' :
                 entries'[x] = IF x = k THEN next_connection_id ELSE entries[x]
           /\ next_connection_id' = next_connection_id + 1
           /\ maxconnects' = maxconnects
<1> USE DEF IInv
<1> DEFINE n == Len(order)
           p == Evicted(limit)
           s == SubSeq(order, p + 1, n)
<1>1. n \in Nat /\ DOMAIN order = 1..n
  BY AsManyKeys
<1>2. Popped(limit) = p
  BY PopsOne DEF Evicted
<1>3. p \in {0, 1} /\ n - p \in Nat
  BY <1>1 DEF Evicted
<1>4. \A i \in 1..n : order[i] \in Key
  BY <1>1, ElementOfSeq DEF TypeOK
<1>5. order' = Append(s, k)
  BY <1>2 DEF Open
<1>6. /\ DOMAIN entries' = (DOMAIN entries \ {order[i] : i \in 1..p}) \cup {k}
      /\ \A x \in DOMAIN entries' :
            entries'[x] = IF x = k THEN next_connection_id ELSE entries[x]
      /\ next_connection_id' = next_connection_id + 1
      /\ maxconnects' = maxconnects
  BY <1>2 DEF Open
<1> HIDE DEF n, p
<1>7. /\ s \in Seq(Key)
      /\ Len(s) = n - p
      /\ \A i \in 1..(n - p) : s[i] = order[p + i]
  <2>1. \A i \in (p + 1)..n : order[i] \in Key
    BY <1>1, <1>3, <1>4
  <2>2. /\ s \in Seq(Key)
        /\ Len(s) = IF p + 1 <= n THEN n - (p + 1) + 1 ELSE 0
        /\ \A i \in 1..(n - (p + 1) + 1) : s[i] = order[(p + 1) + i - 1]
    BY <1>1, <1>3, <2>1, SubSeqProperties
  <2>3. \A i \in 1..(n - p) : (p + 1) + i - 1 = p + i
    BY <1>1, <1>3
  <2> QED BY <1>1, <1>3, <2>2, <2>3
<1> HIDE DEF s
<1>8. /\ order' \in Seq(Key) /\ Len(order') = n - p + 1
      /\ \A i \in 1..(n - p) : order'[i] = s[i]
      /\ order'[n - p + 1] = k
  BY <1>5, <1>7, AppendProperties
<1>9. DOMAIN order' = 1..(n - p + 1)
  BY <1>8, LenProperties
<1> QED BY <1>3, <1>6, <1>7, <1>8, <1>9 DEF n, p

LEMMA OpenKeeps ==
    ASSUME IInv, NEW k \in Key, NEW limit \in Nat, Open(k, limit)
    PROVE  IInv'
<1> USE DEF IInv
<1> DEFINE n == Len(order)
           p == Evicted(limit)
           gone == {order[i] : i \in 1..p}
<1>1. n \in Nat /\ DOMAIN order = 1..n
  BY AsManyKeys
<1>2. /\ p \in {0, 1} /\ n - p \in Nat
      /\ order' \in Seq(Key) /\ DOMAIN order' = 1..(n - p + 1)
      /\ \A i \in 1..(n - p) : order'[i] = order[p + i]
      /\ order'[n - p + 1] = k
      /\ DOMAIN entries' = (DOMAIN entries \ gone) \cup {k}
      /\ \A x \in DOMAIN entries' :
            entries'[x] = IF x = k THEN next_connection_id ELSE entries[x]
      /\ next_connection_id' = next_connection_id + 1
      /\ maxconnects' = maxconnects
  BY OpenShape
<1>3. k \notin DOMAIN entries
  BY DEF Open
<1> HIDE DEF n, p
<1>4. TypeOK'
  <2>1. DOMAIN entries' \in SUBSET Key
    BY <1>2 DEF TypeOK
  <2>2. IsFiniteSet(DOMAIN entries')
    <3>1. IsFiniteSet(DOMAIN entries \ gone)
      BY FS_Difference DEF TypeOK
    <3>2. IsFiniteSet((DOMAIN entries \ gone) \cup {k})
      BY <3>1, FS_AddElement
    <3> QED BY <1>2, <3>2
  <2>3. entries' \in [DOMAIN entries' -> Nat]
    <3>1. entries' = [x \in DOMAIN entries' |-> entries'[x]]
      BY DEF Open
    <3>2. \A x \in DOMAIN entries' : entries'[x] \in Nat
      BY <1>2 DEF TypeOK
    <3> QED BY <3>1, <3>2
  <2> QED BY <1>2, <2>1, <2>2, <2>3 DEF TypeOK
<1>5. \A x \in DOMAIN entries' : x = k \/ x \in DOMAIN entries \ gone
  BY <1>2
<1>6. IdsUnique'
  <2>1. \A x \in DOMAIN entries' : entries'[x] < next_connection_id'
    BY <1>2, <1>5 DEF TypeOK, IdsUnique
  <2>2. \A x, y \in DOMAIN entries' : entries'[x] = entries'[y] => x = y
    BY <1>2, <1>5 DEF TypeOK, IdsUnique
  <2> QED BY <2>1, <2>2 DEF IdsUnique
<1>7. \A i \in 1..n : order[i] \in gone <=> i <= p
  BY <1>1, <1>2 DEF OrderIsEntries
<1>8. OrderIsEntries'
  <2>1. ASSUME NEW x \in DOMAIN entries'
        PROVE  \E i \in DOMAIN order' : order'[i] = x
    <3>1. CASE x = k
      BY <1>1, <1>2, <3>1
    <3>2. CASE x \in DOMAIN entries \ gone
      <4>1. PICK j \in 1..n : order[j] = x
        BY <1>1, <3>2 DEF OrderIsEntries
      <4>2. j - p \in 1..(n - p) /\ p + (j - p) = j
        BY <1>1, <1>2, <1>7, <3>2, <4>1
      <4>3. order'[j - p] = order[p + (j - p)]
        BY <1>2, <4>2
      <4>4. j - p \in DOMAIN order'
        BY <1>2, <4>2
      <4> QED BY <4>1, <4>2, <4>3, <4>4
    <3> QED BY <1>5, <3>1, <3>2
  <2>2. ASSUME NEW i \in 1..(n - p)
        PROVE  /\ order'[i] = order[p + i] /\ p + i \in 1..n
               /\ order'[i] \in DOMAIN entries \ gone
    <3>1. order'[i] = order[p + i] /\ p + i \in 1..n /\ ~ (p + i <= p)
      BY <1>1, <1>2
    <3> QED BY <1>1, <1>7, <3>1 DEF OrderIsEntries
  <2>3. \A i \in DOMAIN order' : i = n - p + 1 \/ i \in 1..(n - p)
    BY <1>1, <1>2
  <2>4. \A i \in DOMAIN order' : order'[i] \in DOMAIN entries'
    BY <1>2, <2>2, <2>3
  <2>5. ASSUME NEW i \in DOMAIN order', NEW j \in DOMAIN order',
               order'[i] = order'[j]
        PROVE  i = j
    <3>1. CASE i \in 1..(n - p) /\ j \in 1..(n - p)
      <4>1. p + i = p + j
        BY <1>1, <2>2, <2>5, <3>1 DEF OrderIsEntries
      <4> QED BY <1>2, <3>1, <4>1
    <3>2. CASE ~ (i \in 1..(n - p) /\ j \in 1..(n - p))
      BY <1>2, <1>3, <2>2, <2>3, <2>5, <3>2
    <3> QED BY <3>1, <3>2
  <2> QED BY <2>1, <2>4, <2>5 DEF OrderIsEntries
<1> QED BY <1>4, <1>6, <1>8

LEMMA Invariant == Spec => []IInv
<1>1. Init => IInv
  <2> SUFFICES ASSUME Init PROVE IInv
    OBVIOUS
  <2>1. DOMAIN entries = {} /\ order = <<>> /\ DOMAIN order = {}
    BY DEF Init, NoEntries
  <2>2. TypeOK
    BY <2>1, FS_EmptySet DEF TypeOK, Init, NoEntries
  <2> QED BY <2>1, <2>2 DEF IInv, OrderIsEntries, IdsUnique
<1>2. IInv /\ [Next]_vars => IInv'
  <2> SUFFICES ASSUME IInv, [Next]_vars PROVE IInv'
    OBVIOUS
  <2>1. CASE UNCHANGED vars
    BY <2>1 DEF vars, IInv, TypeOK, OrderIsEntries, IdsUnique
  <2>2. ASSUME NEW n \in Option, SetMaxConnects(n) PROVE IInv'
    <3>1. maxconnects' \in Nat
      BY <2>2, OptionAssumption DEF SetMaxConnects, Clamped, Larger
    <3> QED BY <2>2, <3>1
         DEF SetMaxConnects, IInv, TypeOK, OrderIsEntries, IdsUnique
  <2>3. ASSUME NEW k \in Key, NEW own \in EasyOption, Transfer(k, own) PROVE IInv'
    <3>1. Larger(maxconnects, Clamped(own)) \in Nat
      BY OwnIsInt, LimitIsNat DEF IInv, TypeOK
    <3> QED BY <2>3, <3>1, ReuseKeeps, OpenKeeps DEF Transfer
  <2> QED BY <2>1, <2>2, <2>3 DEF Next
<1> QED BY <1>1, <1>2, PTL DEF Spec

\* The map of cached connections and the queue of their keys always agree
\* (ConnectionCache::remember and touch, cache.rs:40-80).
THEOREM CacheAgrees == Spec => []OrderIsEntries
BY Invariant, PTL DEF IInv

\* No connection id is given to two keys (remember_connection_id,
\* multi/mod.rs:227-244).
THEOREM IdsAreUnique == Spec => []IdsUnique
BY Invariant, PTL DEF IInv

-----------------------------------------------------------------------------
(* The cache is the list of LruList.                                         *)

Entry == [key : Key, id : Nat]

LEMMA ListIsSeq ==
    ASSUME NEW q \in Seq(Key), NEW f, f \in [DOMAIN f -> Nat],
           \A i \in DOMAIN q : q[i] \in DOMAIN f
    PROVE  LET list == [i \in DOMAIN q |-> [key |-> q[i], id |-> f[q[i]]]]
           IN  /\ list \in Seq(Entry) /\ Len(list) = Len(q)
               /\ DOMAIN list = 1..Len(q)
               /\ \A i \in 1..Len(q) : list[i] = [key |-> q[i], id |-> f[q[i]]]
<1> DEFINE list == [i \in DOMAIN q |-> [key |-> q[i], id |-> f[q[i]]]]
<1>1. Len(q) \in Nat /\ DOMAIN q = 1..Len(q) /\ \A i \in 1..Len(q) : q[i] \in Key
  BY LenProperties, ElementOfSeq
<1>2. \A i \in 1..Len(q) : [key |-> q[i], id |-> f[q[i]]] \in Entry
  BY <1>1 DEF Entry
<1>3. list \in [1..Len(q) -> Entry]
  BY <1>1, <1>2
<1>4. list \in Seq(Entry)
  BY <1>1, <1>3, SeqDef
<1>5. Len(list) = Len(q) /\ DOMAIN list = 1..Len(q)
  BY <1>1, <1>4, LenProperties
<1> QED BY <1>1, <1>4, <1>5

LEMMA ConnectionsIsSeq ==
    ASSUME IInv
    PROVE  /\ Connections \in Seq(Entry) /\ Len(Connections) = Len(order)
           /\ DOMAIN Connections = 1..Len(order)
           /\ \A i \in 1..Len(order) :
                 Connections[i] = [key |-> order[i], id |-> entries[order[i]]]
BY ListIsSeq DEF Connections, IInv, TypeOK, OrderIsEntries

\* Reuse of a key is Use of its place in the list.
LEMMA ReuseUses ==
    ASSUME IInv, IInv', NEW k \in Key, Reuse(k)
    PROVE  \E i \in DOMAIN Connections : Lru!Use(i)
<1> DEFINE n == Len(order)
<1>1. PICK r \in 1..n :
         /\ order[r] = k
         /\ order' = [i \in 1..n |-> order[MovedFrom(r, n, i)]]
         /\ order' \in Seq(Key)
  BY ReuseMoves DEF IInv
<1>2. n \in Nat /\ UNCHANGED <<entries, next_connection_id>>
  BY AsManyKeys DEF Reuse, IInv
<1>3. /\ Connections \in Seq(Entry) /\ Len(Connections) = n
      /\ DOMAIN Connections = 1..n
      /\ \A i \in 1..n :
            Connections[i] = [key |-> order[i], id |-> entries[order[i]]]
  BY ConnectionsIsSeq
<1>4. Append(RemoveAt(Connections, r), Connections[r])
        = [i \in 1..n |-> Connections[MovedFrom(r, n, i)]]
  <2>1. Connections \in Seq(Entry) /\ r \in 1..Len(Connections)
    BY <1>3
  <2>2. Append(RemoveAt(Connections, r), Connections[r])
          = [i \in 1..Len(Connections) |->
               Connections[MovedFrom(r, Len(Connections), i)]]
    BY <2>1, MovedToEnd
  <2> QED BY <1>3, <2>2
<1>5. DOMAIN order' = 1..n
      /\ \A i \in 1..n : order'[i] = order[MovedFrom(r, n, i)]
  BY <1>1
<1>6. Connections' = [i \in 1..n |-> Connections[MovedFrom(r, n, i)]]
  <2>1. Connections'
          = [i \in 1..n |-> [key |-> order'[i], id |-> entries[order'[i]]]]
    BY <1>2, <1>5 DEF Connections
  <2>2. ASSUME NEW i \in 1..n
        PROVE  [key |-> order'[i], id |-> entries[order'[i]]]
                 = Connections[MovedFrom(r, n, i)]
    <3>1. MovedFrom(r, n, i) \in 1..n
      BY <1>2, MovedFromPermutes
    <3> QED BY <1>3, <1>5, <3>1
  <2> QED BY <2>1, <2>2
<1>7. Lru!Use(r)
  BY <1>2, <1>4, <1>6 DEF Lru!Use, Lru!RemoveAt, RemoveAt
<1> QED BY <1>3, <1>7

\* Open for a key is Open of the list with the same limit.
LEMMA OpenOpens ==
    ASSUME IInv, NEW k \in Key, NEW limit \in Nat, Open(k, limit)
    PROVE  Lru!Open(k, limit)
<1> DEFINE n == Len(order)
           p == Evicted(limit)
<1>1. /\ p \in {0, 1} /\ n - p \in Nat
      /\ order' \in Seq(Key) /\ DOMAIN order' = 1..(n - p + 1)
      /\ \A i \in 1..(n - p) : order'[i] = order[p + i]
      /\ order'[n - p + 1] = k
      /\ DOMAIN entries'
           = (DOMAIN entries \ {order[i] : i \in 1..p}) \cup {k}
      /\ \A x \in DOMAIN entries' :
            entries'[x] = IF x = k THEN next_connection_id ELSE entries[x]
      /\ next_connection_id' = next_connection_id + 1
  BY OpenShape, ZenonT(60) DEF IInv
<1>0. IInv'
  BY OpenKeeps
<1> DEFINE new == [key |-> k, id |-> next_connection_id]
           rest == IF limit > 0 /\ Len(Connections) >= limit
                   THEN Tail(Connections) ELSE Connections
<1>2. n \in Nat /\ DOMAIN order = 1..n /\ k \notin DOMAIN entries
  BY AsManyKeys DEF Open, IInv
<1>3. /\ Connections \in Seq(Entry) /\ Len(Connections) = n
      /\ DOMAIN Connections = 1..n
      /\ \A i \in 1..n :
            Connections[i] = [key |-> order[i], id |-> entries[order[i]]]
  BY ConnectionsIsSeq
<1>4. /\ Connections' \in Seq(Entry) /\ Len(Connections') = n - p + 1
      /\ \A i \in 1..(n - p + 1) :
            Connections'[i] = [key |-> order'[i], id |-> entries'[order'[i]]]
  <2>1. /\ Connections' \in Seq(Entry) /\ Len(Connections') = Len(order')
        /\ \A i \in 1..Len(order') :
              Connections'[i] = [key |-> order'[i], id |-> entries'[order'[i]]]
    <3>1. /\ order' \in Seq(Key) /\ entries' \in [DOMAIN entries' -> Nat]
          /\ \A i \in DOMAIN order' : order'[i] \in DOMAIN entries'
      BY <1>0 DEF IInv, TypeOK, OrderIsEntries
    <3>2. Connections' = [i \in DOMAIN order' |->
                            [key |-> order'[i], id |-> entries'[order'[i]]]]
      BY DEF Connections
    <3> QED BY <3>1, <3>2, ListIsSeq
  <2>2. Len(order') = n - p + 1
    BY <1>1, LenProperties
  <2> QED BY <2>1, <2>2
<1>5. \A i \in DOMAIN order : order[i] \in DOMAIN entries
  BY DEF IInv, OrderIsEntries
<1>6. \A i \in DOMAIN order' : order'[i] \in DOMAIN entries'
  BY <1>0 DEF IInv, OrderIsEntries
<1>7. new \in Entry
  BY DEF Entry, IInv, TypeOK
<1>8. p = IF limit > 0 /\ Len(Connections) >= limit THEN 1 ELSE 0
  BY <1>3 DEF Evicted
<1> HIDE DEF n, p
<1>9. /\ rest \in Seq(Entry) /\ Len(rest) = n - p
      /\ \A i \in 1..(n - p) : rest[i] = Connections[p + i]
  <2>1. CASE limit > 0 /\ Len(Connections) >= limit
    <3>1. p = 1 /\ rest = Tail(Connections) /\ Connections # <<>>
      BY <1>2, <1>3, <1>8, <2>1
    <3>2. /\ Tail(Connections) \in Seq(Entry)
          /\ Len(Tail(Connections)) = Len(Connections) - 1
          /\ \A i \in 1..Len(Tail(Connections)) :
                Tail(Connections)[i] = Connections[i + 1]
      BY <1>3, <3>1, HeadTailProperties
    <3>3. \A i \in 1..(n - p) : i + 1 = p + i
      BY <1>1, <1>2, <3>1
    <3> HIDE DEF rest
    <3> QED BY <1>3, <3>1, <3>2, <3>3
  <2>2. CASE ~ (limit > 0 /\ Len(Connections) >= limit)
    <3>1. p = 0 /\ rest = Connections
      BY <1>8, <2>2
    <3> HIDE DEF rest
    <3>2. \A i \in 1..(n - p) : p + i = i
      BY <1>2, <3>1
    <3> QED BY <1>2, <1>3, <3>1, <3>2
  <2> QED BY <2>1, <2>2
<1> HIDE DEF rest
<1>10. /\ Append(rest, new) \in Seq(Entry)
       /\ Len(Append(rest, new)) = n - p + 1
       /\ \A i \in 1..(n - p) : Append(rest, new)[i] = rest[i]
       /\ Append(rest, new)[n - p + 1] = new
  BY <1>7, <1>9, AppendProperties
<1>11. Connections' = Append(rest, new)
  <2>1. ASSUME NEW i \in 1..(n - p + 1)
        PROVE  Connections'[i] = Append(rest, new)[i]
    <3>1. Connections'[i] = [key |-> order'[i], id |-> entries'[order'[i]]]
      BY <1>4
    <3>2. order'[i] \in DOMAIN entries'
      BY <1>1, <1>6
    <3>3. CASE i = n - p + 1
      BY <1>1, <1>10, <3>1, <3>2, <3>3
    <3>4. CASE i # n - p + 1
      <4>1. i \in 1..(n - p) /\ p + i \in 1..n
        BY <1>1, <1>2, <3>4
      <4>2. order'[i] = order[p + i]
        BY <1>1, <4>1
      <4>3. p + i \in DOMAIN order
        BY <1>2, <4>1
      <4>4. order'[i] # k
        BY <1>2, <1>5, <4>2, <4>3
      <4>5. entries'[order'[i]] = entries[order[p + i]]
        BY <1>1, <3>2, <4>2, <4>4
      <4>6. Connections[p + i] = [key |-> order[p + i], id |-> entries[order[p + i]]]
        BY <1>3, <4>1
      <4>7. Connections'[i] = Connections[p + i]
        BY <3>1, <4>2, <4>5, <4>6
      <4> QED BY <1>9, <1>10, <4>1, <4>7
    <3> QED BY <3>3, <3>4
  <2>2. Len(Connections') = Len(Append(rest, new))
    BY <1>4, <1>10
  <2> QED BY <1>4, <1>10, <2>1, <2>2, SeqEqual
<1>12. \A i \in DOMAIN Connections : Connections[i].key # k
  BY <1>2, <1>3, <1>5
<1>13. next_connection_id \in Nat
  BY DEF IInv, TypeOK
<1>14. new = [key |-> k, id |-> (next_connection_id - 1) + 1]
       /\ next_connection_id' - 1 = (next_connection_id - 1) + 1
  BY <1>1, <1>13
<1> QED BY <1>11, <1>12, <1>14 DEF Lru!Open, rest

\* Every step of the cache is a step of the least-recently-used list that its
\* queue and map spell out: a reused connection becomes the last to be evicted,
\* a new one gets an id no connection ever had, and a full cache loses exactly
\* the connection used longest ago (ConnectionCache::remember, cache.rs:40-62).
THEOREM ImplementsLru == Spec => LruSpec
<1>1. Init => Lru!Init
  <2> SUFFICES ASSUME Init PROVE Lru!Init
    OBVIOUS
  <2>1. DOMAIN order = {} /\ next_connection_id - 1 = 0
    BY DEF Init
  <2>2. Connections = <<>>
    BY <2>1 DEF Connections
  <2> QED BY <2>1, <2>2 DEF Lru!Init
<1>2. IInv /\ IInv' /\ [Next]_vars
        => [Lru!Next]_<<Connections, next_connection_id - 1>>
  <2> SUFFICES ASSUME IInv, IInv', [Next]_vars
               PROVE  Lru!Next \/ UNCHANGED <<Connections, next_connection_id - 1>>
    OBVIOUS
  <2>1. CASE UNCHANGED vars
    BY <2>1 DEF vars, Connections
  <2>2. ASSUME NEW n \in Option, SetMaxConnects(n)
        PROVE  UNCHANGED <<Connections, next_connection_id - 1>>
    BY <2>2 DEF SetMaxConnects, Connections
  <2>3. ASSUME NEW k \in Key, NEW own \in EasyOption, Transfer(k, own)
        PROVE  Lru!Next
    <3>1. /\ Larger(maxconnects, Clamped(own)) \in Nat
          /\ Larger(maxconnects, Clamped(own)) \in Limits
      BY OwnIsInt, LimitIsNat DEF IInv, TypeOK, Limits
    <3>2. CASE Reuse(k)
      BY <3>2, ReuseUses DEF Lru!Next
    <3>3. CASE Open(k, Larger(maxconnects, Clamped(own)))
      BY <3>1, <3>3, OpenOpens DEF Lru!Next
    <3> QED BY <2>3, <3>2, <3>3 DEF Transfer
  <2> QED BY <2>1, <2>2, <2>3 DEF Next
<1> QED BY <1>1, <1>2, Invariant, PTL DEF Spec, LruSpec, Lru!Spec
===============================================================================
