-------------------------- MODULE Transfers_proofs --------------------------
(***************************************************************************)
(* Theorems of Transfers, for every number of handles, hosts, connections, *)
(* streams and redirects, and all limits.                                  *)
(***************************************************************************)
EXTENDS Transfers, RemoveAt_proofs, SequenceTheorems, FiniteSetTheorems, TLAPS

------------------------------------------------------------------------------
(* The inductive invariant, in parts: of the record, of the list of those    *)
(* that wait, of the limits, of each connection and of each transfer.        *)

State == {"out", "CONNECT", "PENDING", "RESOLVING", "CONNECTING", "PERFORMING", "MSGSENT"}
Active == {"RESOLVING", "CONNECTING", "PERFORMING"}
Link == [host : Host \cup {None}, up : BOOLEAN, mux : BOOLEAN, close : BOOLEAN,
         only : BOOLEAN, reuse : BOOLEAN, alive : BOOLEAN, owes : BOOLEAN, streams : Nat]
Type == [limit : Limit, job : [Easy -> Job], host : [Easy -> Host], state : [Easy -> State],
         conn : [Easy -> Conn \cup {None}], held : [Easy -> Conn \cup {None}],
         pending : Seq(Easy), woken : SUBSET Easy, hops : Nat,
         pool : SUBSET Conn, at : [Conn -> Link],
         multiuse : [Host -> {"none", "unknown", "no", "multi"}]]

\* Those in the list wait, and are in it once.
Queue(m) ==
    /\ \A i \in DOMAIN m.pending : m.state[m.pending[i]] = "PENDING"
    /\ \A i, j \in DOMAIN m.pending : m.pending[i] = m.pending[j] => i = j

Room(m) ==
    /\ m.limit.total \in 1 .. Cardinality(Conn)
    /\ Cardinality(m.pool) <= m.limit.total
    /\ m.limit.host > 0 => \A h \in Host : Cardinality(Bundle(m, h)) <= m.limit.host

\* A connection that cannot multiplex has one user; one that only connects stays
\* with those that asked for that.
Shared(m, c) ==
    /\ m.at[c].host \in Host
    /\ m.at[c].mux \/ \A x, y \in Users(m, c) : x = y
    /\ m.at[c].only => ~m.at[c].mux /\ ~m.at[c].close
    /\ \A x \in Users(m, c) : m.job[x].only = m.at[c].only

\* An answer is under way only to the one user that has sent a request.
Quiet(m, c) ==
    m.at[c].owes => ~m.at[c].mux /\ \E x \in Users(m, c) : m.state[x] = "PERFORMING"

Placed(m, e) ==
    /\ IF m.state[e] \in Active
       THEN m.conn[e] \in m.pool /\ m.at[m.conn[e]].host = m.host[e]
       ELSE m.conn[e] = None
    /\ m.state[e] \in {"RESOLVING", "CONNECTING"} => ~m.at[m.conn[e]].mux
    /\ m.job[e].only => m.state[e] # "PERFORMING"

HoldsOwn(m, e) ==
    m.held[e] # None =>
        m.held[e] \in m.pool /\ m.at[m.held[e]].only /\ ~InUse(m, m.held[e])

\* All of it, but for the placing of the transfers of E, which are at work, and the
\* answers on the connections of D, which are to be closed.
Good(m, E, D) ==
    /\ m \in Type /\ Queue(m) /\ Room(m)
    /\ \A e \in Easy : m.conn[e] \in m.pool \cup {None} /\ HoldsOwn(m, e)
    /\ \A c \in m.pool : Shared(m, c)
    /\ \A c \in m.pool \ D : Quiet(m, c)
    /\ \A e \in Easy \ E : Placed(m, e)

IInv == Good(multi, {}, {})

------------------------------------------------------------------------------
(* Waking one that waits changes nothing but its state.                      *)

Same(m, n) ==
    /\ n \in Type /\ Queue(n)
    /\ n.limit = m.limit /\ n.job = m.job /\ n.host = m.host /\ n.conn = m.conn
    /\ n.held = m.held /\ n.pool = m.pool /\ n.at = m.at
    /\ \A e \in Easy : \/ n.state[e] = m.state[e]
                       \/ m.state[e] = "PENDING" /\ n.state[e] = "CONNECT"
    /\ \A i \in DOMAIN n.pending : \E j \in DOMAIN m.pending : n.pending[i] = m.pending[j]

LEMMA SameGood ==
    ASSUME NEW m, NEW n, NEW E, NEW D, Good(m, E, D), Same(m, n)
    PROVE  Good(n, E, D)
<1>1. \A c : Users(n, c) = Users(m, c)
  BY DEF Users, Same
<1>2. \A h : Bundle(n, h) = Bundle(m, h)
  BY DEF Bundle, Same
<1>3. Room(n)
  BY <1>2 DEF Room, Same, Good
<1>4. \A e \in Easy : n.conn[e] \in n.pool \cup {None} /\ HoldsOwn(n, e)
  BY <1>1 DEF Same, Good, HoldsOwn, InUse
<1>5. \A c \in n.pool : Shared(n, c)
  BY <1>1 DEF Same, Good, Shared
<1>6. \A c \in n.pool \ D : Quiet(n, c)
  BY <1>1 DEF Same, Good, Quiet, Users
<1>7. \A e \in Easy \ E : Placed(n, e)
  BY DEF Same, Good, Placed, Active
<1> QED BY <1>3, <1>4, <1>5, <1>6, <1>7 DEF Good, Same

LEMMA Woken ==
    ASSUME NEW m \in Type, Queue(m)
    PROVE  Same(m, process_pending_handles(m)) /\ Same(m, m)
<1> DEFINE n == process_pending_handles(m)
<1>0. m.pending \in Seq(Easy) /\ m.state \in [Easy -> State] /\ m.woken \subseteq Easy
  BY DEF Type
<1>1. CASE m.pending = <<>>
  BY <1>1 DEF process_pending_handles, Same
<1>2. CASE m.pending # <<>>
  <2> DEFINE e == Head(m.pending)
             t == Tail(m.pending)
  <2>1. /\ e \in Easy /\ t \in Seq(Easy) /\ Len(t) = Len(m.pending) - 1
        /\ e = m.pending[1] /\ Len(m.pending) \in Nat \ {0}
        /\ \A i \in 1 .. Len(t) : t[i] = m.pending[i + 1]
    BY <1>0, <1>2, HeadTailProperties, EmptySeq, LenProperties
  <2>2. DOMAIN t = 1 .. Len(t) /\ DOMAIN m.pending = 1 .. Len(m.pending) /\ Len(t) \in Nat
    BY <1>0, <2>1, LenProperties
  <2> HIDE DEF e, t
  <2> DEFINE w == multistate(m, e, "CONNECT")
  <2>3. /\ w \in Type /\ w = [m EXCEPT !.state = [m.state EXCEPT ![e] = "CONNECT"]]
        /\ w.pending = m.pending /\ w.woken = m.woken
    BY <2>1 DEF multistate, Type, State
  <2>4. n = [w EXCEPT !.pending = Tail(m.pending), !.woken = m.woken \cup {e}]
    BY <1>2, <2>3 DEF process_pending_handles, e
  <2> HIDE DEF w, n
  <2>5. n = [w EXCEPT !.pending = t, !.woken = m.woken \cup {e}]
    BY <2>4 DEF t
  <2>6. m.woken \cup {e} \in SUBSET Easy
    BY <1>0, <2>1
  <2>7. n \in Type
    BY <2>1, <2>3, <2>5, <2>6, ZenonT(60) DEF Type
  <2>8. /\ n \in Type /\ n.pending = t /\ n.state = [m.state EXCEPT ![e] = "CONNECT"]
        /\ n.limit = m.limit /\ n.job = m.job /\ n.host = m.host /\ n.conn = m.conn
        /\ n.held = m.held /\ n.pool = m.pool /\ n.at = m.at
    BY <2>3, <2>5, <2>7 DEF Type
  <2>9. m.state[e] = "PENDING"
    BY <2>1, <2>2 DEF Queue
  <2>10. ASSUME NEW i \in DOMAIN t PROVE t[i] # e /\ n.state[t[i]] = "PENDING"
    <3>1. i \in 1 .. Len(t) /\ i + 1 \in DOMAIN m.pending /\ i + 1 # 1 /\ 1 \in DOMAIN m.pending
      BY <2>1, <2>2
    <3>2. t[i] = m.pending[i + 1] /\ t[i] # e /\ m.state[t[i]] = "PENDING"
      BY <3>1, <2>1 DEF Queue
    <3>3. t[i] \in Easy
      BY <2>1, <2>2, ElementOfSeq
    <3> QED BY <3>2, <3>3, <2>8, <1>0
  <2>11. ASSUME NEW i \in DOMAIN t, NEW j \in DOMAIN t, t[i] = t[j] PROVE i = j
    <3>1. i + 1 \in DOMAIN m.pending /\ j + 1 \in DOMAIN m.pending
      BY <2>1, <2>2
    <3>2. i + 1 = j + 1
      BY <3>1, <2>1, <2>2, <2>11 DEF Queue
    <3> QED BY <3>2, <2>2
  <2>12. Queue(n)
    BY <2>8, <2>10, <2>11 DEF Queue
  <2>13. ASSUME NEW i \in DOMAIN t PROVE \E j \in DOMAIN m.pending : t[i] = m.pending[j]
    <3>1. i + 1 \in DOMAIN m.pending /\ t[i] = m.pending[i + 1]
      BY <2>1, <2>2
    <3> QED BY <3>1
  <2> QED BY <1>0, <2>1, <2>8, <2>9, <2>12, <2>13 DEF Same, n
<1>3. Same(m, m)
  BY DEF Same
<1> QED BY <1>1, <1>2, <1>3

------------------------------------------------------------------------------
(* Closing connections that nobody uses.                                     *)

Shrunk(m, n, cs) ==
    /\ n \in Type
    /\ n.limit = m.limit /\ n.job = m.job /\ n.host = m.host /\ n.conn = m.conn
    /\ n.state = m.state /\ n.pending = m.pending
    /\ n.pool = m.pool \ cs
    /\ \A c \in n.pool : n.at[c] = m.at[c]
    /\ \A e \in Easy : n.held[e] = IF m.held[e] \in cs THEN None ELSE m.held[e]

LEMMA SmallerSet ==
    ASSUME NEW S, NEW T \in SUBSET S, IsFiniteSet(S)
    PROVE  /\ IsFiniteSet(T) /\ Cardinality(T) \in Nat /\ Cardinality(S) \in Nat
           /\ Cardinality(T) <= Cardinality(S)
  BY FS_Subset, FS_CardinalityType

LEMMA BundleFinite ==
    ASSUME NEW m \in Type, NEW h
    PROVE  /\ IsFiniteSet(m.pool) /\ Cardinality(m.pool) \in Nat
           /\ IsFiniteSet(Bundle(m, h)) /\ Cardinality(Bundle(m, h)) \in Nat
<1>1. m.pool \subseteq Conn /\ Bundle(m, h) \subseteq Conn
  BY DEF Type, Bundle
<1> QED BY <1>1, SmallerSet, TransfersAssumption

LEMMA ShrunkRoom ==
    ASSUME NEW m \in Type, NEW n, NEW cs, Shrunk(m, n, cs)
    PROVE  /\ Cardinality(n.pool) <= Cardinality(m.pool)
           /\ \A h : /\ Bundle(n, h) = Bundle(m, h) \ cs
                     /\ Cardinality(Bundle(n, h)) <= Cardinality(Bundle(m, h))
<1>1. n.pool \in SUBSET m.pool
  BY DEF Shrunk
<1>2. \A h : Bundle(n, h) = Bundle(m, h) \ cs
  BY DEF Shrunk, Bundle
<1> QED BY <1>1, <1>2, BundleFinite, SmallerSet

LEMMA ShrunkGood ==
    ASSUME NEW m, NEW n, NEW E, NEW D, NEW cs, Good(m, E, D), Shrunk(m, n, cs),
           \A c \in cs : ~InUse(m, c)
    PROVE  Good(n, E, D \ cs)
<1>1. \A c : Users(n, c) = Users(m, c)
  BY DEF Users, Shrunk
<1>2. Queue(n)
  BY DEF Good, Shrunk, Queue
<1>3. Room(n)
  <2>1. m \in Type /\ n \in Type
    BY DEF Good, Shrunk
  <2>2. /\ m.limit.total \in Nat /\ m.limit.host \in Nat
    BY <2>1 DEF Type, Limit
  <2>3. /\ Cardinality(n.pool) <= Cardinality(m.pool)
        /\ \A h : Cardinality(Bundle(n, h)) <= Cardinality(Bundle(m, h))
    BY <2>1, ShrunkRoom
  <2>4. /\ Cardinality(n.pool) \in Nat /\ Cardinality(m.pool) \in Nat
        /\ \A h : Cardinality(Bundle(n, h)) \in Nat /\ Cardinality(Bundle(m, h)) \in Nat
    BY <2>1, BundleFinite
  <2>5. Room(m) /\ n.limit = m.limit
    BY DEF Good, Shrunk
  <2> QED BY <2>2, <2>3, <2>4, <2>5 DEF Room
<1>4. ASSUME NEW e \in Easy PROVE n.conn[e] \in n.pool \cup {None} /\ HoldsOwn(n, e)
  <2>1. m.conn[e] \in m.pool \cup {None} /\ HoldsOwn(m, e)
    BY DEF Good
  <2>2. m.conn[e] \notin cs
    BY DEF InUse, Users
  <2>3. n.conn[e] \in n.pool \cup {None}
    BY <2>1, <2>2 DEF Shrunk
  <2> QED BY <1>1, <2>1, <2>3 DEF HoldsOwn, InUse, Shrunk
<1>5. \A c \in n.pool : Shared(n, c)
  BY <1>1 DEF Shrunk, Good, Shared
<1>6. \A c \in n.pool \ (D \ cs) : Quiet(n, c)
  BY <1>1 DEF Shrunk, Good, Quiet
<1>7. ASSUME NEW e \in Easy \ E PROVE Placed(n, e)
  <2>1. Placed(m, e)
    BY DEF Good
  <2>2. m.conn[e] \notin cs
    BY DEF InUse, Users
  <2> QED BY <2>1, <2>2 DEF Shrunk, Placed, Active
<1> QED BY <1>2, <1>3, <1>4, <1>5, <1>6, <1>7 DEF Good, Shrunk

LEMMA ClosedIsLink == Closed \in Link
  BY DEF Closed, Link

LEMMA ExtractShrunk ==
    ASSUME NEW m \in Type, NEW c \in m.pool
    PROVE  Shrunk(m, Extract(m, c), {c})
<1> DEFINE n == Extract(m, c)
           held == [e \in Easy |-> IF m.held[e] = c THEN None ELSE m.held[e]]
           at == [m.at EXCEPT ![c] = Closed]
<1>1. c \in Conn /\ m.pool \ {c} \in SUBSET Conn
  BY DEF Type
<1>2. held \in [Easy -> Conn \cup {None}] /\ at \in [Conn -> Link]
  BY <1>1, ClosedIsLink DEF Type
<1>3. n = [m EXCEPT !.pool = m.pool \ {c}, !.at = at, !.held = held]
  BY DEF Extract, Type
<1>4. \A d \in Conn : d # c => at[d] = m.at[d]
  BY DEF Type
<1>5. \A e \in Easy : held[e] = IF m.held[e] \in {c} THEN None ELSE m.held[e]
  OBVIOUS
<1> HIDE DEF n, held, at
<1>6. n \in Type
  BY <1>1, <1>2, <1>3 DEF Type
<1>7. /\ n.limit = m.limit /\ n.job = m.job /\ n.host = m.host /\ n.conn = m.conn
      /\ n.state = m.state /\ n.pending = m.pending
      /\ n.pool = m.pool \ {c} /\ n.at = at /\ n.held = held
  BY <1>3 DEF Type
<1> QED BY <1>1, <1>4, <1>5, <1>6, <1>7 DEF Shrunk, n, Type

LEMMA RemoveShrunk ==
    ASSUME NEW m \in Type, NEW c \in m.pool, m.at[c].host \in Host
    PROVE  Shrunk(m, Curl_conncache_remove_conn(m, c), {c})
<1> DEFINE x == Extract(m, c)
           h == m.at[c].host
           n == Curl_conncache_remove_conn(m, c)
           y == [x EXCEPT !.multiuse[h] = "none"]
<1>1. Shrunk(m, x, {c})
  BY ExtractShrunk
<1>2. n \in {x, y}
  BY DEF Curl_conncache_remove_conn
<1> HIDE DEF x, n
<1>3. x \in Type
  BY <1>1 DEF Shrunk
<1>4. /\ y \in Type /\ y.limit = x.limit /\ y.job = x.job /\ y.host = x.host
      /\ y.conn = x.conn /\ y.state = x.state /\ y.pending = x.pending
      /\ y.pool = x.pool /\ y.at = x.at /\ y.held = x.held
  BY <1>3 DEF Type
<1> HIDE DEF y
<1>5. Shrunk(m, y, {c})
  BY <1>1, <1>4 DEF Shrunk
<1> QED BY <1>1, <1>2, <1>5 DEF n

LEMMA CloseAllShrunk ==
    ASSUME NEW m \in Type, NEW cs \in SUBSET m.pool
    PROVE  Shrunk(m, CloseAll(m, cs), cs)
<1> DEFINE gone == {h \in Host : Bundle(m, h) # {} /\ Bundle(m, h) \subseteq cs}
           n == CloseAll(m, cs)
           held == [e \in Easy |-> IF m.held[e] \in cs THEN None ELSE m.held[e]]
           at == [c \in Conn |-> IF c \in cs THEN Closed ELSE m.at[c]]
           multiuse == [h \in Host |-> IF h \in gone THEN "none" ELSE m.multiuse[h]]
<1>1. m.pool \ cs \in SUBSET Conn
  BY DEF Type
<1>2. /\ held \in [Easy -> Conn \cup {None}] /\ at \in [Conn -> Link]
      /\ multiuse \in [Host -> {"none", "unknown", "no", "multi"}]
  BY ClosedIsLink DEF Type
<1>3. n = [m EXCEPT !.pool = m.pool \ cs, !.at = at, !.held = held, !.multiuse = multiuse]
  BY DEF CloseAll, Type
<1>4. \A d \in Conn : d \notin cs => at[d] = m.at[d]
  OBVIOUS
<1>5. \A e \in Easy : held[e] = IF m.held[e] \in cs THEN None ELSE m.held[e]
  OBVIOUS
<1> HIDE DEF n, held, at, multiuse
<1>6. n \in Type
  BY <1>1, <1>2, <1>3 DEF Type
<1>7. /\ n.limit = m.limit /\ n.job = m.job /\ n.host = m.host /\ n.conn = m.conn
      /\ n.state = m.state /\ n.pending = m.pending
      /\ n.pool = m.pool \ cs /\ n.at = at /\ n.held = held
  BY <1>3 DEF Type
<1> QED BY <1>4, <1>5, <1>6, <1>7 DEF Shrunk, n, Type

------------------------------------------------------------------------------
(* What multi_done does to the transfer e and its connection.                *)

\* e is at work on m: it is not among those that wait.
AtWork(m, e) == e \in Easy /\ m.state[e] # "PENDING" /\ Good(m, {e}, {})

\* After a step of e nothing of e has changed but its connection.
Left(m, n, e) ==
    /\ n.state[e] = m.state[e] /\ n.host = m.host /\ n.job = m.job
    /\ n.conn = [m.conn EXCEPT ![e] = None] /\ n.conn[e] = None

LEMMA WokenGood ==
    ASSUME NEW m, NEW E, NEW D, Good(m, E, D)
    PROVE  Good(process_pending_handles(m), E, D) /\ Same(m, process_pending_handles(m))
  BY Woken, SameGood DEF Good

LEMMA DetachIs ==
    ASSUME NEW m \in Type, NEW e \in Easy
    PROVE  LET n == Curl_detach_connection(m, e)
           IN  /\ n \in Type /\ n.conn = [m.conn EXCEPT ![e] = None]
               /\ n.limit = m.limit /\ n.job = m.job /\ n.host = m.host /\ n.state = m.state
               /\ n.pending = m.pending /\ n.held = m.held /\ n.pool = m.pool /\ n.at = m.at
  BY DEF Curl_detach_connection, Type

LEMMA DetachGood ==
    ASSUME NEW m, NEW e \in Easy, Good(m, {e}, {}), m.conn[e] \in m.pool
    PROVE  LET n == Curl_detach_connection(m, e)
           IN  Good(n, {e}, {m.conn[e]})
<1> DEFINE n == Curl_detach_connection(m, e)
           c == m.conn[e]
<1>0. m \in Type /\ Queue(m) /\ Room(m) /\ c \in Conn
  BY DEF Good, Type
<1>1. /\ n \in Type /\ n.conn = [m.conn EXCEPT ![e] = None]
      /\ n.limit = m.limit /\ n.job = m.job /\ n.host = m.host /\ n.state = m.state
      /\ n.pending = m.pending /\ n.held = m.held /\ n.pool = m.pool /\ n.at = m.at
  BY <1>0, DetachIs
<1>2. m.conn \in [Easy -> Conn \cup {None}]
  BY <1>0 DEF Type
<1>3. ASSUME NEW d \in Conn
      PROVE  /\ Users(n, d) = Users(m, d) \ {e}
             /\ d # c => Users(n, d) = Users(m, d)
  <2>1. None # d
    BY TransfersAssumption
  <2> QED BY <1>1, <1>2, <2>1 DEF Users
<1> HIDE DEF n
<1>4. Queue(n) /\ Room(n)
  BY <1>0, <1>1 DEF Queue, Room, Bundle
<1>5. ASSUME NEW x \in Easy PROVE n.conn[x] \in n.pool \cup {None} /\ HoldsOwn(n, x)
  <2>1. m.conn[x] \in m.pool \cup {None} /\ HoldsOwn(m, x)
    BY DEF Good
  <2>2. n.conn[x] \in {m.conn[x], None}
    BY <1>1, <1>2
  <2>3. m.pool \subseteq Conn
    BY <1>0 DEF Type
  <2> QED BY <1>1, <1>3, <2>1, <2>2, <2>3 DEF HoldsOwn, InUse
<1>6. ASSUME NEW d \in n.pool PROVE Shared(n, d)
  <2>1. d \in m.pool /\ d \in Conn
    BY <1>0, <1>1 DEF Type
  <2>2. Shared(m, d) /\ Users(n, d) \subseteq Users(m, d)
    BY <1>3, <2>1 DEF Good
  <2> QED BY <1>1, <2>2 DEF Shared
<1>7. ASSUME NEW d \in n.pool \ {c} PROVE Quiet(n, d)
  <2>1. d \in m.pool /\ d \in Conn
    BY <1>0, <1>1 DEF Type
  <2>2. Quiet(m, d) /\ Users(n, d) = Users(m, d)
    BY <1>3, <2>1 DEF Good
  <2> QED BY <1>1, <2>2 DEF Quiet
<1>8. ASSUME NEW x \in Easy \ {e} PROVE Placed(n, x)
  <2>1. Placed(m, x) /\ n.conn[x] = m.conn[x]
    BY <1>1, <1>2 DEF Good
  <2> QED BY <1>1, <2>1 DEF Placed, Active
<1> QED BY <1>1, <1>4, <1>5, <1>6, <1>7, <1>8 DEF Good, n

\* What return_conn gives up is idle, not to be closed and not CURLOPT_CONNECT_ONLY.
LEMMA ReturnShrunk ==
    ASSUME NEW m \in Type, NEW n \in Curl_conncache_return_conn(m)
    PROVE  \/ n = m
           \/ \E c \in Idle(m) : Shrunk(m, n, {c}) /\ c \in m.pool /\ ~InUse(m, c) /\ ~m.at[c].only
  BY ExtractShrunk DEF Curl_conncache_return_conn, Idle

LEMMA DoneGood ==
    ASSUME NEW m, NEW e, AtWork(m, e), m.conn[e] \in m.pool,
           NEW premature \in BOOLEAN, NEW n \in multi_done(m, e, premature),
           m.at[m.conn[e]].owes => m.at[m.conn[e]].close \/ premature
    PROVE  /\ AtWork(n, e) /\ Left(m, n, e)
           /\ m.at[m.conn[e]].only /\ ~premature =>
                 m.conn[e] \in n.pool /\ n.at[m.conn[e]] = m.at[m.conn[e]]
<1> DEFINE p == process_pending_handles(m)
           c == m.conn[e]
           left == Curl_detach_connection(p, e)
<1>0. e \in Easy /\ m \in Type /\ c \in Conn /\ c # None
  BY TransfersAssumption DEF AtWork, Good, Type
<1>1. Good(p, {e}, {}) /\ Same(m, p)
  BY WokenGood DEF AtWork
<1>2. p \in Type /\ p.conn[e] = c /\ c \in p.pool /\ p.at = m.at /\ p.state[e] = m.state[e]
      /\ p.job = m.job /\ p.host = m.host /\ p.conn = m.conn
  BY <1>0, <1>1 DEF Same, AtWork
<1> HIDE DEF p
<1>3. Good(left, {e}, {c})
  BY <1>0, <1>1, <1>2, DetachGood
<1>4. /\ left \in Type /\ left.conn = [p.conn EXCEPT ![e] = None]
      /\ left.job = m.job /\ left.host = m.host /\ left.state = p.state
      /\ left.pool = p.pool /\ left.at = m.at
  BY <1>0, <1>2, DetachIs
<1>5. left.conn[e] = None
  BY <1>0, <1>2, <1>4 DEF Type
<1>6. Left(m, left, e)
  BY <1>2, <1>4, <1>5 DEF Left
<1>7. n \in IF InUse(left, c) THEN {left}
            ELSE IF m.at[c].close \/ (premature /\ ~m.at[c].mux)
            THEN {Curl_conncache_remove_conn(left, c)}
            ELSE Curl_conncache_return_conn(left)
  BY DEF multi_done, p
<1>8. m.at[c].only => ~m.at[c].close /\ ~m.at[c].mux
  BY DEF AtWork, Good, Shared
<1>9. m.at[c].owes => ~m.at[c].mux
  BY DEF AtWork, Good, Quiet
<1>10. ASSUME ~m.at[c].owes PROVE Good(left, {e}, {})
  <2>1. Quiet(left, c)
    BY <1>4, <1>10 DEF Quiet
  <2> QED BY <1>3, <2>1 DEF Good
<1> HIDE DEF left, c
<1>11. CASE InUse(left, c)
  <2>1. n = left
    BY <1>7, <1>11
  <2>2. PICK y \in Easy : left.conn[y] = c
    BY <1>11 DEF InUse, Users
  <2>3. y # e /\ p.conn[y] = c
    BY <1>0, <1>4, <1>5, <2>2
  <2>4. p.at[c].mux
    <3>1. Shared(p, c) /\ e \in Users(p, c) /\ y \in Users(p, c)
      BY <1>0, <1>1, <1>2, <2>3 DEF Good, Users
    <3> QED BY <2>3, <3>1 DEF Shared
  <2>5. ~m.at[c].owes /\ ~m.at[c].only
    BY <1>2, <1>8, <1>9, <2>4
  <2>6. AtWork(left, e)
    BY <1>0, <1>10, <2>5, <1>6 DEF AtWork, Left
  <2> QED BY <1>6, <2>1, <2>5, <2>6 DEF c
<1>12. CASE ~InUse(left, c) /\ (m.at[c].close \/ (premature /\ ~m.at[c].mux))
  <2>1. n = Curl_conncache_remove_conn(left, c)
    BY <1>7, <1>12
  <2>2. left.at[c].host \in Host /\ c \in left.pool
    BY <1>2, <1>3, <1>4 DEF Good, Shared
  <2>3. Shrunk(left, n, {c})
    BY <1>4, <2>1, <2>2, RemoveShrunk
  <2>4. Good(n, {e}, {c} \ {c})
    BY <1>3, <1>12, <2>3, ShrunkGood
  <2>5. Good(n, {e}, {})
    <3>1. {c} \ {c} = {}
      OBVIOUS
    <3> QED BY <2>4, <3>1
  <2>6. Left(m, n, e)
    BY <1>6, <2>3 DEF Left, Shrunk
  <2>7. AtWork(n, e)
    BY <1>0, <2>5, <2>6 DEF AtWork, Left
  <2> QED BY <2>6, <2>7, <1>8, <1>12 DEF c
<1>13. CASE ~InUse(left, c) /\ ~m.at[c].close /\ ~(premature /\ ~m.at[c].mux)
  <2>1. n \in Curl_conncache_return_conn(left)
    BY <1>7, <1>13
  <2>2. ~m.at[c].owes
    BY <1>9, <1>13 DEF c
  <2>3. Good(left, {e}, {})
    BY <1>10, <2>2
  <2>4. CASE n = left
    BY <1>0, <1>2, <1>4, <1>6, <2>3, <2>4 DEF AtWork, Left, c
  <2>5. ASSUME NEW d \in Idle(left), Shrunk(left, n, {d}), d \in left.pool,
               ~InUse(left, d), ~left.at[d].only
        PROVE  /\ AtWork(n, e) /\ Left(m, n, e)
               /\ m.at[c].only => c \in n.pool /\ n.at[c] = m.at[c]
    <3>1. Good(n, {e}, {} \ {d})
      BY <2>3, <2>5, ShrunkGood
    <3>2. {} \ {d} = {}
      OBVIOUS
    <3>3. Good(n, {e}, {})
      BY <3>1, <3>2
    <3>4. Left(m, n, e)
      BY <1>6, <2>5 DEF Left, Shrunk
    <3>5. AtWork(n, e)
      BY <1>0, <3>3, <3>4 DEF AtWork, Left
    <3>6. m.at[c].only => c \in n.pool /\ n.at[c] = m.at[c]
      BY <1>2, <1>4, <2>5 DEF Shrunk
    <3> QED BY <3>4, <3>5, <3>6
  <2> QED BY <1>4, <2>1, <2>4, <2>5, ReturnShrunk DEF c
<1> QED BY <1>11, <1>12, <1>13

------------------------------------------------------------------------------
(* A transfer that is at work comes to rest in another state.                *)

LEMMA StateIs ==
    ASSUME NEW m \in Type, NEW e \in Easy, NEW s \in State
    PROVE  LET n == multistate(m, e, s)
           IN  /\ n \in Type /\ n.state = [m.state EXCEPT ![e] = s]
               /\ n.limit = m.limit /\ n.job = m.job /\ n.host = m.host /\ n.conn = m.conn
               /\ n.pending = m.pending /\ n.held = m.held /\ n.pool = m.pool /\ n.at = m.at
               /\ n.hops = m.hops /\ n.woken = m.woken
  BY DEF multistate, Type

Unlisted(m, e) == \A i \in DOMAIN m.pending : m.pending[i] # e

LEMMA AtWorkUnlisted == ASSUME NEW m, NEW e, AtWork(m, e) PROVE Unlisted(m, e)
  BY DEF AtWork, Good, Queue, Unlisted

\* Placed, in state s.
Fit(m, e, s) ==
    /\ IF s \in Active THEN m.conn[e] \in m.pool /\ m.at[m.conn[e]].host = m.host[e]
       ELSE m.conn[e] = None
    /\ s \in {"RESOLVING", "CONNECTING"} => ~m.at[m.conn[e]].mux
    /\ m.job[e].only => s # "PERFORMING"
    /\ m.conn[e] # None /\ m.at[m.conn[e]].owes => s = "PERFORMING"

LEMMA StateGood ==
    ASSUME NEW m, NEW e \in Easy, Good(m, {e}, {}), Unlisted(m, e),
           NEW s \in State, Fit(m, e, s)
    PROVE  Good(multistate(m, e, s), {}, {})
<1> DEFINE n == multistate(m, e, s)
<1>0. m \in Type /\ m.state \in [Easy -> State]
  BY DEF Good, Type
<1>1. /\ n \in Type /\ n.state = [m.state EXCEPT ![e] = s]
      /\ n.limit = m.limit /\ n.job = m.job /\ n.host = m.host /\ n.conn = m.conn
      /\ n.pending = m.pending /\ n.held = m.held /\ n.pool = m.pool /\ n.at = m.at
  BY <1>0, StateIs
<1> HIDE DEF n
<1>2. /\ n.state[e] = s
      /\ \A x \in Easy : x # e => n.state[x] = m.state[x]
  BY <1>0, <1>1
<1>3. \A c : Users(n, c) = Users(m, c)
  BY <1>1 DEF Users
<1>4. Queue(n)
  <2>1. \A i \in DOMAIN m.pending : m.pending[i] \in Easy
    BY <1>0, ElementOfSeq, LenProperties DEF Type
  <2> QED BY <1>1, <1>2, <2>1 DEF Good, Queue, Unlisted
<1>5. Room(n)
  BY <1>1 DEF Good, Room, Bundle
<1>6. \A x \in Easy : n.conn[x] \in n.pool \cup {None} /\ HoldsOwn(n, x)
  BY <1>1, <1>3 DEF Good, HoldsOwn, InUse
<1>7. \A c \in n.pool : Shared(n, c)
  BY <1>1, <1>3 DEF Good, Shared
<1>8. ASSUME NEW c \in n.pool, n.at[c].owes
      PROVE  ~n.at[c].mux /\ \E x \in Users(n, c) : n.state[x] = "PERFORMING"
  <2>1. Quiet(m, c) /\ c \in Conn /\ c # None
    BY <1>0, <1>1, TransfersAssumption DEF Good, Type
  <2>2. PICK x \in Users(m, c) : m.state[x] = "PERFORMING"
    BY <1>1, <1>8, <2>1 DEF Quiet
  <2>3. x \in Easy /\ m.conn[x] = c
    BY DEF Users
  <2>4. n.state[x] = "PERFORMING"
    BY <1>1, <1>2, <1>8, <2>1, <2>2, <2>3 DEF Fit
  <2> QED BY <1>1, <1>3, <1>8, <2>1, <2>2, <2>4 DEF Quiet
<1>9. ASSUME NEW x \in Easy PROVE Placed(n, x)
  <2>1. CASE x = e
    BY <1>1, <1>2, <2>1 DEF Fit, Placed, Active
  <2>2. CASE x # e
    BY <1>1, <1>2, <2>2 DEF Good, Placed
  <2> QED BY <2>1, <2>2
<1> QED BY <1>1, <1>4, <1>5, <1>6, <1>7, <1>8, <1>9 DEF Good, Quiet, n

LEMMA CompletedGood ==
    ASSUME NEW m, NEW e \in Easy, Good(m, {e}, {}), Unlisted(m, e), m.conn[e] = None
    PROVE  Good(Completed(m, e), {}, {})
<1>1. Fit(m, e, "MSGSENT")
  BY DEF Fit, Active
<1> QED BY <1>1, StateGood DEF Completed, State

LEMMA WokenAtWork ==
    ASSUME NEW m, NEW e, AtWork(m, e)
    PROVE  LET n == process_pending_handles(m)
           IN  AtWork(n, e) /\ Same(m, n) /\ n.state[e] = m.state[e]
<1> DEFINE n == process_pending_handles(m)
<1>1. Good(n, {e}, {}) /\ Same(m, n)
  BY WokenGood DEF AtWork
<1> HIDE DEF n
<1>2. n.state[e] = m.state[e]
  BY <1>1 DEF AtWork, Same
<1> QED BY <1>1, <1>2 DEF AtWork, n

LEMMA NowAtWork ==
    ASSUME NEW m, NEW e, AtWork(m, e)
    PROVE  AtWork(Now(m, e), e) /\ Same(m, Now(m, e)) /\ Now(m, e).state[e] = m.state[e]
<1>1. Same(m, m)
  BY Woken DEF AtWork, Good
<1> QED BY <1>1, WokenAtWork DEF Now

LEMMA FailedGood ==
    ASSUME NEW m, NEW e, AtWork(m, e), m.conn[e] = None
    PROVE  Good(Failed(m, e), {}, {})
<1> DEFINE n == process_pending_handles(m)
<1>1. AtWork(n, e) /\ n.conn[e] = None
  BY WokenAtWork DEF Same
<1> HIDE DEF n
<1>2. Good(Completed(n, e), {}, {})
  BY <1>1, AtWorkUnlisted, CompletedGood DEF AtWork
<1> QED BY <1>2 DEF Failed, n

\* A transfer that has sent no request is owed no answer.
LEMMA NotOwed ==
    ASSUME NEW m, NEW E, NEW e \in Easy, Good(m, E, {}), m.conn[e] \in m.pool,
           m.state[e] # "PERFORMING" \/ m.at[m.conn[e]].mux
    PROVE  ~m.at[m.conn[e]].owes
  BY DEF Good, Quiet, Shared, Users

------------------------------------------------------------------------------
(* A connection changes without changing hands.                              *)

Tweaked(m, n, c) ==
    /\ n \in Type
    /\ n.limit = m.limit /\ n.job = m.job /\ n.host = m.host /\ n.conn = m.conn
    /\ n.state = m.state /\ n.pending = m.pending /\ n.held = m.held /\ n.pool = m.pool
    /\ \A d \in Conn : d # c => n.at[d] = m.at[d]
    /\ n.at[c].host = m.at[c].host /\ n.at[c].only = m.at[c].only
    /\ m.at[c].mux => n.at[c].mux
    /\ n.at[c].only => ~n.at[c].mux /\ ~n.at[c].close
    /\ Quiet(n, c)

LEMMA TweakedGood ==
    ASSUME NEW m, NEW n, NEW E, NEW c \in Conn, Good(m, E, {}), Tweaked(m, n, c),
           \/ n.at[c].mux = m.at[c].mux
           \/ \A x \in Users(m, c) \ E : m.state[x] = "PERFORMING"
    PROVE  Good(n, E, {})
<1>0. m.pool \subseteq Conn
  BY DEF Good, Type
<1>1. \A d : Users(n, d) = Users(m, d)
  BY DEF Users, Tweaked
<1>2. \A h : Bundle(n, h) = Bundle(m, h)
  BY <1>0 DEF Bundle, Tweaked
<1>3. Queue(n) /\ Room(n)
  BY <1>2 DEF Good, Tweaked, Queue, Room
<1>4. ASSUME NEW x \in Easy PROVE n.conn[x] \in n.pool \cup {None} /\ HoldsOwn(n, x)
  <2>1. n.conn[x] \in n.pool \cup {None} /\ HoldsOwn(m, x)
    BY DEF Good, Tweaked
  <2>2. \A d \in m.pool : n.at[d].only = m.at[d].only
    BY <1>0 DEF Tweaked
  <2> QED BY <1>1, <2>1, <2>2 DEF HoldsOwn, InUse, Tweaked
<1>5. ASSUME NEW d \in n.pool PROVE Shared(n, d) /\ Quiet(n, d)
  <2>1. Shared(m, d) /\ Quiet(m, d) /\ d \in Conn
    BY <1>0 DEF Good, Tweaked
  <2>2. CASE d = c
    BY <1>1, <2>1, <2>2 DEF Shared, Tweaked
  <2>3. CASE d # c
    BY <1>1, <2>1, <2>3 DEF Shared, Quiet, Tweaked
  <2> QED BY <2>2, <2>3
<1>6. ASSUME NEW x \in Easy \ E PROVE Placed(n, x)
  <2>1. Placed(m, x)
    BY DEF Good
  <2>2. \A d \in m.pool : n.at[d].host = m.at[d].host
    BY <1>0 DEF Tweaked
  <2>3. m.state[x] \in {"RESOLVING", "CONNECTING"} => ~n.at[m.conn[x]].mux
    <3>1. ASSUME m.state[x] \in {"RESOLVING", "CONNECTING"} PROVE ~n.at[m.conn[x]].mux
      <4>1. m.conn[x] \in Conn /\ ~m.at[m.conn[x]].mux
        BY <1>0, <2>1, <3>1 DEF Placed, Active
      <4> QED BY <3>1, <4>1 DEF Tweaked, Users
    <3> QED BY <3>1
  <2> QED BY <2>1, <2>2, <2>3 DEF Placed, Tweaked, Active
<1> QED BY <1>3, <1>4, <1>5, <1>6 DEF Good, Tweaked

Relinked(m, c, l, u) == [m EXCEPT !.at = [m.at EXCEPT ![c] = l], !.multiuse = u]

LEMMA RelinkedIs ==
    ASSUME NEW m \in Type, NEW c \in Conn, NEW l \in Link,
           NEW u \in [Host -> {"none", "unknown", "no", "multi"}]
    PROVE  LET n == Relinked(m, c, l, u)
           IN  /\ n \in Type /\ n.at[c] = l
               /\ \A d \in Conn : d # c => n.at[d] = m.at[d]
               /\ n.limit = m.limit /\ n.job = m.job /\ n.host = m.host /\ n.conn = m.conn
               /\ n.state = m.state /\ n.pending = m.pending /\ n.held = m.held
               /\ n.pool = m.pool
<1> DEFINE at == [m.at EXCEPT ![c] = l]
           n == [m EXCEPT !.at = at, !.multiuse = u]
<1>1. at \in [Conn -> Link] /\ at[c] = l /\ \A d \in Conn : d # c => at[d] = m.at[d]
  BY DEF Type
<1> HIDE DEF at
<1>2. /\ n \in Type /\ n.at = at
      /\ n.limit = m.limit /\ n.job = m.job /\ n.host = m.host /\ n.conn = m.conn
      /\ n.state = m.state /\ n.pending = m.pending /\ n.held = m.held /\ n.pool = m.pool
  BY <1>1 DEF Type
<1>3. Relinked(m, c, l, u) = n
  BY DEF Relinked, at
<1> HIDE DEF n
<1> QED BY <1>1, <1>2, <1>3

LEMMA LinkFields ==
    ASSUME NEW l \in Link
    PROVE  /\ [l EXCEPT !.owes = TRUE] \in Link /\ [l EXCEPT !.reuse = TRUE] \in Link
           /\ [l EXCEPT !.up = TRUE] \in Link /\ [l EXCEPT !.alive = FALSE] \in Link
           /\ [l EXCEPT !.close = TRUE] \in Link
           /\ [l EXCEPT !.mux = TRUE, !.owes = FALSE] \in Link
  BY DEF Link

\* What changes in a link, and what does not: stated once, as a record of nine fields
\* is a heavy thing to open in a step.
LEMMA LinkKeeps ==
    ASSUME NEW l \in Link
    PROVE  /\ LET n == [l EXCEPT !.owes = TRUE]
               IN  n.owes = TRUE /\ n.host = l.host /\ n.up = l.up /\ n.mux = l.mux
                   /\ n.close = l.close /\ n.only = l.only /\ n.reuse = l.reuse /\ n.alive = l.alive
           /\ LET n == [l EXCEPT !.reuse = TRUE]
               IN  n.reuse = TRUE /\ n.host = l.host /\ n.up = l.up /\ n.mux = l.mux
                   /\ n.close = l.close /\ n.only = l.only /\ n.alive = l.alive /\ n.owes = l.owes
           /\ LET n == [l EXCEPT !.up = TRUE]
               IN  n.up = TRUE /\ n.host = l.host /\ n.mux = l.mux /\ n.close = l.close
                   /\ n.only = l.only /\ n.reuse = l.reuse /\ n.alive = l.alive /\ n.owes = l.owes
           /\ LET n == [l EXCEPT !.alive = FALSE]
               IN  n.alive = FALSE /\ n.host = l.host /\ n.up = l.up /\ n.mux = l.mux
                   /\ n.close = l.close /\ n.only = l.only /\ n.reuse = l.reuse /\ n.owes = l.owes
           /\ LET n == [l EXCEPT !.close = TRUE]
               IN  n.close = TRUE /\ n.host = l.host /\ n.up = l.up /\ n.mux = l.mux
                   /\ n.only = l.only /\ n.reuse = l.reuse /\ n.alive = l.alive /\ n.owes = l.owes
           /\ LET n == [l EXCEPT !.mux = TRUE, !.owes = FALSE]
               IN  n.mux /\ ~n.owes /\ n.host = l.host /\ n.up = l.up /\ n.close = l.close
                   /\ n.only = l.only /\ n.reuse = l.reuse /\ n.alive = l.alive
  BY DEF Link

LEMMA LinkAnswered ==
    ASSUME NEW l \in Link, NEW b \in BOOLEAN
    PROVE  LET n == [l EXCEPT !.owes = FALSE, !.close = b]
           IN  /\ n \in Link /\ ~n.owes /\ n.close = b /\ n.host = l.host /\ n.up = l.up
               /\ n.mux = l.mux /\ n.only = l.only /\ n.reuse = l.reuse /\ n.alive = l.alive
  BY DEF Link

LEMMA TweakGood ==
    ASSUME NEW m, NEW E, Good(m, E, {}), NEW c \in m.pool, NEW l \in Link,
           NEW u \in [Host -> {"none", "unknown", "no", "multi"}],
           l.host = m.at[c].host, l.only = m.at[c].only, m.at[c].mux => l.mux,
           l.only => ~l.mux /\ ~l.close, l.owes => m.at[c].owes /\ ~l.mux,
           \/ l.mux = m.at[c].mux
           \/ \A x \in Users(m, c) \ E : m.state[x] = "PERFORMING"
    PROVE  LET n == Relinked(m, c, l, u)
           IN  /\ Good(n, E, {}) /\ n.at[c] = l
               /\ n.conn = m.conn /\ n.state = m.state /\ n.pool = m.pool /\ n.host = m.host
               /\ n.job = m.job /\ n.pending = m.pending
<1> DEFINE n == Relinked(m, c, l, u)
<1>0. m \in Type /\ c \in Conn /\ Quiet(m, c)
  BY DEF Good, Type
<1>1. /\ n \in Type /\ n.at[c] = l
      /\ \A d \in Conn : d # c => n.at[d] = m.at[d]
      /\ n.limit = m.limit /\ n.job = m.job /\ n.host = m.host /\ n.conn = m.conn
      /\ n.state = m.state /\ n.pending = m.pending /\ n.held = m.held
      /\ n.pool = m.pool
  BY <1>0, RelinkedIs
<1> HIDE DEF n
<1>2. Users(n, c) = Users(m, c)
  BY <1>1 DEF Users
<1>3. Quiet(n, c)
  BY <1>0, <1>1, <1>2 DEF Quiet
<1>4. Tweaked(m, n, c)
  BY <1>1, <1>3 DEF Tweaked
<1>5. Good(n, E, {})
  BY <1>0, <1>1, <1>4, TweakedGood
<1> QED BY <1>1, <1>5 DEF n

------------------------------------------------------------------------------
(* A transfer gets a connection and sends its request.                       *)

LEMMA AttachIs ==
    ASSUME NEW m \in Type, NEW e \in Easy, NEW c \in Conn
    PROVE  LET n == Curl_attach_connection(m, e, c)
           IN  /\ n \in Type /\ n.conn = [m.conn EXCEPT ![e] = c] /\ n.conn[e] = c
               /\ n.limit = m.limit /\ n.job = m.job /\ n.host = m.host /\ n.state = m.state
               /\ n.pending = m.pending /\ n.held = m.held /\ n.pool = m.pool /\ n.at = m.at
               /\ n.multiuse = m.multiuse
  BY DEF Curl_attach_connection, Type

LEMMA AttachGood ==
    ASSUME NEW m, NEW e, AtWork(m, e), m.conn[e] = None, NEW c \in m.pool,
           m.at[c].mux \/ Users(m, c) = {}, m.at[c].only = m.job[e].only,
           \A x \in Easy : m.held[x] # c
    PROVE  AtWork(Curl_attach_connection(m, e, c), e)
<1> DEFINE n == Curl_attach_connection(m, e, c)
<1>0. e \in Easy /\ m \in Type /\ c \in Conn /\ m.pool \subseteq Conn /\ Good(m, {e}, {})
  BY DEF AtWork, Good, Type
<1>1. /\ n \in Type /\ n.conn = [m.conn EXCEPT ![e] = c] /\ n.conn[e] = c
      /\ n.limit = m.limit /\ n.job = m.job /\ n.host = m.host /\ n.state = m.state
      /\ n.pending = m.pending /\ n.held = m.held /\ n.pool = m.pool /\ n.at = m.at
  BY <1>0, AttachIs
<1> HIDE DEF n
<1>2. m.conn \in [Easy -> Conn \cup {None}]
  BY <1>0 DEF Type
<1>3. ASSUME NEW d \in Conn
      PROVE  /\ Users(n, c) = Users(m, c) \cup {e}
             /\ d # c => Users(n, d) = Users(m, d)
  <2>1. None # d /\ None # c
    BY <1>0, TransfersAssumption
  <2> QED BY <1>0, <1>1, <1>2, <2>1 DEF Users
<1>4. Queue(n) /\ Room(n)
  BY <1>0, <1>1 DEF Good, Queue, Room, Bundle
<1>5. ASSUME NEW x \in Easy PROVE n.conn[x] \in n.pool \cup {None} /\ HoldsOwn(n, x)
  <2>1. m.conn[x] \in m.pool \cup {None} /\ HoldsOwn(m, x) /\ m.held[x] # c
    BY <1>0 DEF Good
  <2>2. n.conn[x] \in {m.conn[x], c}
    BY <1>1, <1>2
  <2> QED BY <1>0, <1>1, <1>3, <2>1, <2>2 DEF HoldsOwn, InUse
<1>6. ASSUME NEW d \in n.pool PROVE Shared(n, d) /\ Quiet(n, d)
  <2>1. d \in Conn /\ Shared(m, d) /\ Quiet(m, d)
    BY <1>0, <1>1 DEF Good
  <2>2. CASE d # c
    <3>1. Users(n, d) = Users(m, d)
      BY <1>3, <2>1, <2>2
    <3> QED BY <1>1, <2>1, <3>1 DEF Shared, Quiet
  <2>3. CASE d = c
    <3>1. Users(n, c) = Users(m, c) \cup {e}
      BY <1>0, <1>3
    <3>2. Shared(n, c)
      BY <1>1, <2>1, <2>3, <3>1 DEF Shared
    <3>3. Quiet(n, c)
      BY <1>1, <2>1, <2>3, <3>1 DEF Quiet
    <3> QED BY <2>3, <3>2, <3>3
  <2> QED BY <2>2, <2>3
<1>7. ASSUME NEW x \in Easy \ {e} PROVE Placed(n, x)
  <2>1. Placed(m, x) /\ n.conn[x] = m.conn[x]
    BY <1>0, <1>1, <1>2 DEF Good
  <2> QED BY <1>1, <2>1 DEF Placed, Active
<1>8. Good(n, {e}, {})
  BY <1>1, <1>4, <1>5, <1>6, <1>7 DEF Good
<1> QED BY <1>0, <1>1, <1>8 DEF AtWork, n

\* The handle keeps the connection that it has just left to the application.
LEMMA HoldGood ==
    ASSUME NEW m, NEW e, AtWork(m, e), NEW c \in m.pool, m.at[c].only, ~InUse(m, c)
    PROVE  LET n == [m EXCEPT !.held[e] = c]
           IN  AtWork(n, e) /\ n.conn = m.conn
<1> DEFINE n == [m EXCEPT !.held[e] = c]
           held == [m.held EXCEPT ![e] = c]
<1>0. e \in Easy /\ m \in Type /\ c \in Conn /\ Good(m, {e}, {})
  BY DEF AtWork, Good, Type
<1>1. /\ n = [m EXCEPT !.held = held] /\ held \in [Easy -> Conn \cup {None}]
      /\ \A x \in Easy : held[x] \in {m.held[x], c}
  BY <1>0 DEF Type
<1> HIDE DEF n, held
<1>2. /\ n \in Type /\ n.held = held
      /\ n.limit = m.limit /\ n.job = m.job /\ n.host = m.host /\ n.conn = m.conn
      /\ n.state = m.state /\ n.pending = m.pending /\ n.pool = m.pool /\ n.at = m.at
  BY <1>0, <1>1 DEF Type
<1>3. \A d : Users(n, d) = Users(m, d)
  BY <1>2 DEF Users
<1>4. Queue(n) /\ Room(n)
  BY <1>0, <1>2 DEF Good, Queue, Room, Bundle
<1>5. ASSUME NEW x \in Easy PROVE n.conn[x] \in n.pool \cup {None} /\ HoldsOwn(n, x)
  <2>1. m.conn[x] \in m.pool \cup {None} /\ HoldsOwn(m, x)
    BY <1>0 DEF Good
  <2>2. n.held[x] \in {m.held[x], c}
    BY <1>1, <1>2
  <2> QED BY <1>2, <1>3, <2>1, <2>2 DEF HoldsOwn, InUse
<1>6. \A d \in n.pool : Shared(n, d)
  BY <1>0, <1>2, <1>3 DEF Good, Shared
<1>7. \A d \in n.pool \ {} : Quiet(n, d)
  BY <1>0, <1>2, <1>3 DEF Good, Quiet
<1>8. \A x \in Easy \ {e} : Placed(n, x)
  BY <1>0, <1>2 DEF Good, Placed
<1> QED BY <1>0, <1>2, <1>4, <1>5, <1>6, <1>7, <1>8 DEF Good, AtWork, n

LEMMA DoGood ==
    ASSUME NEW m, NEW e, AtWork(m, e), m.conn[e] \in m.pool,
           m.at[m.conn[e]].host = m.host[e], ~m.at[m.conn[e]].owes,
           NEW n \in Do(m, e)
    PROVE  Good(n, {}, {})
<1> DEFINE c == m.conn[e]
<1>0. /\ e \in Easy /\ m \in Type /\ c \in Conn /\ Good(m, {e}, {}) /\ m.pool \subseteq Conn
      /\ m.conn \in [Easy -> Conn \cup {None}] /\ c # None
  BY TransfersAssumption DEF AtWork, Good, Type
<1>1. m.at[c].only = m.job[e].only /\ Shared(m, c)
  BY <1>0 DEF Good, Shared, Users
<1>2. CASE m.job[e].only
  <2>1. PICK x \in multi_done(m, e, FALSE) : n = Completed([x EXCEPT !.held[e] = c], e)
    BY <1>2 DEF Do
  <2>2. AtWork(x, e) /\ Left(m, x, e) /\ c \in x.pool /\ x.at[c] = m.at[c]
    BY <1>1, <1>2, DoneGood
  <2>3. ~InUse(x, c)
    <3>1. ASSUME NEW y \in Users(x, c) PROVE FALSE
      <4>1. y \in Easy /\ x.conn[y] = c
        BY DEF Users
      <4>2. y # e /\ m.conn[y] = c
        BY <1>0, <2>2, <4>1 DEF Left
      <4> QED BY <1>0, <1>1, <1>2, <4>1, <4>2 DEF Shared, Users
    <3> QED BY <3>1 DEF InUse
  <2> DEFINE h == [x EXCEPT !.held[e] = c]
  <2>4. AtWork(h, e) /\ h.conn = x.conn
    BY <1>1, <1>2, <2>2, <2>3, HoldGood
  <2>5. n = Completed(h, e)
    BY <2>1
  <2> HIDE DEF h
  <2> QED BY <1>0, <2>2, <2>4, <2>5, AtWorkUnlisted, CompletedGood DEF AtWork, Left
<1>3. CASE ~m.job[e].only /\ n = Sent(m, e)
  <2> DEFINE s == multistate(m, e, "PERFORMING")
  <2>1. Fit(m, e, "PERFORMING") /\ Unlisted(m, e)
    BY <1>0, <1>3, AtWorkUnlisted DEF Fit, Active
  <2>2. Good(s, {}, {})
    BY <1>0, <2>1, StateGood DEF State
  <2>3. /\ s \in Type /\ s.state = [m.state EXCEPT ![e] = "PERFORMING"]
        /\ s.limit = m.limit /\ s.job = m.job /\ s.host = m.host /\ s.conn = m.conn
        /\ s.pending = m.pending /\ s.held = m.held /\ s.pool = m.pool /\ s.at = m.at
    BY <1>0, StateIs, ZenonT(60) DEF State
  <2>4. n = IF m.at[c].mux THEN process_pending_handles(s) ELSE [s EXCEPT !.at[c].owes = TRUE]
    BY <1>3 DEF Sent
  <2> HIDE DEF s
  <2>5. CASE m.at[c].mux
    BY <2>2, <2>4, <2>5, WokenGood
  <2>6. CASE ~m.at[c].mux
    <3> DEFINE l == [s.at[c] EXCEPT !.owes = TRUE]
    <3>1. s.at[c] \in Link /\ s.multiuse \in [Host -> {"none", "unknown", "no", "multi"}]
      BY <1>0, <2>3 DEF Type
    <3>2. l \in Link
      BY <3>1, LinkFields
    <3>3. n = Relinked(s, c, l, s.multiuse)
      BY <1>0, <2>3, <2>4, <2>6 DEF Relinked, Type
    <3>4. /\ l.host = s.at[c].host /\ l.only = s.at[c].only /\ l.mux = s.at[c].mux
          /\ l.close = s.at[c].close
      BY <3>1, LinkKeeps
    <3> HIDE DEF l, c
    <3>5. /\ n \in Type /\ n.at[c] = l
          /\ \A d \in Conn : d # c => n.at[d] = s.at[d]
          /\ n.limit = s.limit /\ n.job = s.job /\ n.host = s.host /\ n.conn = s.conn
          /\ n.state = s.state /\ n.pending = s.pending /\ n.held = s.held /\ n.pool = s.pool
      BY <1>0, <2>3, <3>1, <3>2, <3>3, RelinkedIs
    <3>6. n.state[e] = "PERFORMING" /\ e \in Users(n, c)
      BY <1>0, <2>3, <3>5 DEF Users, Type, c
    <3>7. Tweaked(s, n, c)
      BY <1>1, <1>3, <2>3, <2>6, <3>4, <3>5, <3>6 DEF Tweaked, Quiet
    <3> QED BY <1>0, <2>2, <3>4, <3>5, <3>7, TweakedGood
  <2> QED BY <2>5, <2>6
<1>4. CASE n \in NotSent(m, e)
  <2>1. PICK x \in multi_done(m, e, FALSE) : n = Failed(x, e)
    BY <1>4 DEF NotSent
  <2>2. AtWork(x, e) /\ Left(m, x, e)
    BY DoneGood
  <2> QED BY <2>1, <2>2, FailedGood DEF Left
<1> QED BY <1>2, <1>3, <1>4 DEF Do

\* The connections of a bundle that are idle or can be shared.
LEMMA ReuseGood ==
    ASSUME NEW m, NEW e, AtWork(m, e), m.conn[e] = None, m.state[e] = "CONNECT",
           ~m.job[e].only, NEW c \in m.pool, m.at[c].host = m.host[e], ~m.at[c].only,
           m.at[c].mux \/ Users(m, c) = {}, ~m.at[c].owes, NEW n \in Reuse(m, e, c)
    PROVE  Good(n, {}, {})
<1> DEFINE a == Curl_attach_connection(m, e, c)
           b == [a EXCEPT !.at[c].reuse = TRUE]
           l == [a.at[c] EXCEPT !.reuse = TRUE]
<1>0. e \in Easy /\ m \in Type /\ c \in Conn /\ Good(m, {e}, {})
  BY DEF AtWork, Good, Type
<1>1. m.at[c].only = m.job[e].only
  BY <1>0 DEF Type, Link, Job, Limit
<1>2. \A x \in Easy : m.held[x] # c
  BY <1>0, TransfersAssumption DEF Good, HoldsOwn
<1>3. AtWork(a, e)
  BY <1>1, <1>2, AttachGood
<1>4. /\ a \in Type /\ a.conn = [m.conn EXCEPT ![e] = c] /\ a.conn[e] = c
      /\ a.limit = m.limit /\ a.job = m.job /\ a.host = m.host /\ a.state = m.state
      /\ a.pending = m.pending /\ a.held = m.held /\ a.pool = m.pool /\ a.at = m.at
  BY <1>0, AttachIs
<1>5. n \in Do(Now(b, e), e)
  BY DEF Reuse
<1> HIDE DEF a
<1>6. a.at[c] \in Link /\ a.multiuse \in [Host -> {"none", "unknown", "no", "multi"}]
  BY <1>0, <1>4 DEF Type
<1>7. l \in Link
  BY <1>6, LinkFields
<1>8. b = Relinked(a, c, l, a.multiuse)
  BY <1>0, <1>4 DEF Relinked, Type
<1>9. /\ l.host = a.at[c].host /\ l.only = a.at[c].only /\ l.mux = a.at[c].mux
      /\ l.close = a.at[c].close /\ l.owes = a.at[c].owes
  BY <1>6 DEF Link
<1> HIDE DEF b, l
<1>10. Shared(a, c) /\ Quiet(a, c) /\ Good(a, {e}, {})
  BY <1>3, <1>4 DEF AtWork, Good
<1>11. (l.only => ~l.mux /\ ~l.close) /\ (l.owes => a.at[c].owes /\ ~l.mux)
  BY <1>9, <1>10 DEF Shared, Quiet
<1>12. /\ Good(b, {e}, {}) /\ b.at[c] = l
       /\ b.conn = a.conn /\ b.state = a.state /\ b.pool = a.pool /\ b.host = a.host
       /\ b.job = a.job /\ b.pending = a.pending
  <2>1. a.at[c].mux => l.mux
    BY <1>9
  <2>2. c \in a.pool
    BY <1>4
  <2> DEFINE k == Relinked(a, c, l, a.multiuse)
  <2>3. /\ Good(k, {e}, {}) /\ k.at[c] = l
        /\ k.conn = a.conn /\ k.state = a.state /\ k.pool = a.pool /\ k.host = a.host
        /\ k.job = a.job /\ k.pending = a.pending
    BY <1>6, <1>7, <1>9, <1>10, <1>11, <2>1, <2>2, TweakGood
  <2> QED BY <1>8, <2>3
<1>13. AtWork(b, e)
  BY <1>3, <1>4, <1>12 DEF AtWork
<1>14. AtWork(Now(b, e), e) /\ Same(b, Now(b, e))
  BY <1>13, NowAtWork
<1> DEFINE w == Now(b, e)
<1>15. w.conn[e] = c /\ w.pool = m.pool /\ w.host = m.host /\ w.at[c] = l
  BY <1>4, <1>12, <1>14 DEF Same
<1>16. l.host = m.host[e] /\ ~l.owes
  BY <1>4, <1>9
<1> HIDE DEF w
<1>17. AtWork(w, e) /\ n \in Do(w, e)
  BY <1>5, <1>14 DEF w
<1> QED BY <1>15, <1>16, <1>17, DoGood
------------------------------------------------------------------------------
(* A transfer looks for a connection: room is made, one is created.          *)

\* Connections are closed that nobody uses; the transfer is where it was.
Cleared(m, n, e) == \E cs : Shrunk(m, n, cs) /\ \A c \in cs : ~InUse(m, c)

LEMMA ClearedAtWork ==
    ASSUME NEW m, NEW e, AtWork(m, e), NEW n, Cleared(m, n, e)
    PROVE  AtWork(n, e) /\ n.conn = m.conn /\ n.host = m.host /\ n.job = m.job
           /\ n.state = m.state
<1>1. PICK cs : Shrunk(m, n, cs) /\ \A c \in cs : ~InUse(m, c)
  BY DEF Cleared
<1>2. Good(n, {e}, {} \ cs)
  BY <1>1, ShrunkGood DEF AtWork
<1>3. {} \ cs = {}
  OBVIOUS
<1>4. Good(n, {e}, {})
  BY <1>2, <1>3
<1> QED BY <1>1, <1>4 DEF AtWork, Shrunk

LEMMA NothingCleared == ASSUME NEW m \in Type, NEW e PROVE Cleared(m, m, e)
<1>1. Shrunk(m, m, {})
  BY DEF Shrunk
<1> QED BY <1>1 DEF Cleared

LEMMA RoomFor ==
    ASSUME NEW m, NEW e, AtWork(m, e), NEW a \in RoomAtHost(m, m.host[e]), NEW n \in RoomInAll(a)
    PROVE  /\ AtWork(n, e) /\ n.conn = m.conn /\ n.host = m.host /\ n.job = m.job
           /\ n.state = m.state
           /\ Cardinality(n.pool) < n.limit.total
           /\ n.limit.host > 0 => Cardinality(Bundle(n, n.host[e])) < n.limit.host
<1> DEFINE h == m.host[e]
<1>0. m \in Type /\ Room(m) /\ h \in Host /\ m.limit.host \in Nat /\ m.limit.total \in Nat
  BY DEF AtWork, Good, Type, Limit
<1>1. /\ AtWork(a, e) /\ a.conn = m.conn /\ a.host = m.host /\ a.job = m.job
      /\ a.state = m.state /\ a.limit = m.limit
      /\ a.limit.host > 0 => Cardinality(Bundle(a, h)) < a.limit.host
  <2>1. CASE ~(m.limit.host > 0 /\ Cardinality(Bundle(m, h)) >= m.limit.host)
    <3>1. a = m
      BY <2>1 DEF RoomAtHost
    <3>2. Cardinality(Bundle(m, h)) \in Nat
      BY <1>0, BundleFinite
    <3> QED BY <1>0, <2>1, <3>1, <3>2
  <2>2. CASE m.limit.host > 0 /\ Cardinality(Bundle(m, h)) >= m.limit.host
    <3>1. PICK c \in IdleIn(m, h) : a = Extract(m, c)
      BY <2>2 DEF RoomAtHost
    <3>2. c \in Bundle(m, h) /\ c \in m.pool /\ ~InUse(m, c)
      BY DEF IdleIn, Bundle
    <3>3. Shrunk(m, a, {c})
      BY <1>0, <3>1, <3>2, ExtractShrunk
    <3>4. Cleared(m, a, e)
      BY <3>2, <3>3 DEF Cleared
    <3>5. Bundle(a, h) = Bundle(m, h) \ {c}
      BY <1>0, <3>3, ShrunkRoom
    <3>6. IsFiniteSet(Bundle(m, h)) /\ Cardinality(Bundle(m, h)) \in Nat
      BY <1>0, BundleFinite
    <3>7. Cardinality(Bundle(a, h)) = Cardinality(Bundle(m, h)) - 1
      <4>1. Cardinality(Bundle(m, h) \ {c}) = Cardinality(Bundle(m, h)) - 1
        BY <3>2, <3>6, FS_RemoveElement
      <4> QED BY <3>5, <4>1
    <3>8. Cardinality(Bundle(m, h)) <= m.limit.host
      BY <1>0, <2>2 DEF Room
    <3>9. a.limit = m.limit
      BY <3>3 DEF Shrunk
    <3> QED BY <1>0, <3>4, <3>6, <3>7, <3>8, <3>9, ClearedAtWork
  <2> QED BY <2>1, <2>2
<1>2. a \in Type /\ Room(a)
  BY <1>1 DEF AtWork, Good
<1>3. CASE ~(a.limit.total > 0 /\ Cardinality(a.pool) >= a.limit.total)
  <2>1. n = a
    BY <1>3 DEF RoomInAll
  <2>2. Cardinality(a.pool) \in Nat
    BY <1>2, BundleFinite
  <2>3. a.limit.total \in Nat \ {0}
    BY <1>0, <1>1, <1>2 DEF Room
  <2> QED BY <1>1, <1>3, <2>1, <2>2, <2>3
<1>4. CASE a.limit.total > 0 /\ Cardinality(a.pool) >= a.limit.total
  <2>1. PICK c \in Idle(a) : n = Extract(a, c)
    BY <1>4 DEF RoomInAll
  <2>2. c \in a.pool /\ ~InUse(a, c)
    BY DEF Idle
  <2>3. Shrunk(a, n, {c})
    BY <1>2, <2>1, <2>2, ExtractShrunk
  <2>4. Cleared(a, n, e)
    BY <2>2, <2>3 DEF Cleared
  <2>5. n.pool = a.pool \ {c} /\ n.limit = a.limit
    BY <2>3 DEF Shrunk
  <2>6. IsFiniteSet(a.pool) /\ Cardinality(a.pool) \in Nat
    BY <1>2, BundleFinite
  <2>7. Cardinality(n.pool) = Cardinality(a.pool) - 1
    BY <2>2, <2>5, <2>6, FS_RemoveElement, ZenonT(60)
  <2>8. Cardinality(a.pool) <= a.limit.total
    BY <1>2 DEF Room
  <2>9. Cardinality(Bundle(n, h)) <= Cardinality(Bundle(a, h))
    BY <1>2, <2>3, ShrunkRoom
  <2>10. Cardinality(Bundle(n, h)) \in Nat /\ Cardinality(Bundle(a, h)) \in Nat
    BY <1>2, <2>3, BundleFinite DEF Shrunk
  <2>11. /\ AtWork(n, e) /\ n.conn = m.conn /\ n.host = m.host /\ n.job = m.job
         /\ n.state = m.state
    BY <1>1, <2>4, ClearedAtWork
  <2>12. Cardinality(n.pool) < n.limit.total
    BY <1>0, <1>1, <2>5, <2>6, <2>7, <2>8
  <2>13. n.limit.host > 0 => Cardinality(Bundle(n, h)) < n.limit.host
    BY <1>0, <1>1, <2>5, <2>9, <2>10
  <2> QED BY <2>11, <2>12, <2>13
<1> QED BY <1>3, <1>4

LEMMA Unused ==
    ASSUME NEW m, NEW E, NEW D, Good(m, E, D), NEW c \in Conn, c \notin m.pool
    PROVE  Users(m, c) = {} /\ \A x \in Easy : m.held[x] # c
  BY TransfersAssumption DEF Good, Users, HoldsOwn

LEMMA AddGood ==
    ASSUME NEW m, NEW e, AtWork(m, e), NEW c \in Conn, c \notin m.pool,
           Cardinality(m.pool) < m.limit.total,
           m.limit.host > 0 => Cardinality(Bundle(m, m.host[e])) < m.limit.host
    PROVE  LET n == Curl_conncache_add_conn(m, e, c, m.host[e])
           IN  /\ AtWork(n, e) /\ n.conn = m.conn /\ n.host = m.host /\ n.job = m.job
               /\ n.state = m.state /\ n.held = m.held
               /\ c \in n.pool /\ n.at[c].host = m.host[e] /\ n.at[c].only = m.job[e].only
               /\ ~n.at[c].mux /\ ~n.at[c].owes
<1> DEFINE h == m.host[e]
           n == Curl_conncache_add_conn(m, e, c, h)
           l == [Closed EXCEPT !.host = h, !.only = m.job[e].only, !.streams = Streams]
           u == [m.multiuse EXCEPT ![h] = IF @ = "none" THEN "unknown" ELSE @]
           at == [m.at EXCEPT ![c] = l]
<1>0. /\ e \in Easy /\ m \in Type /\ h \in Host /\ Good(m, {e}, {}) /\ m.pool \subseteq Conn
      /\ m.job[e].only \in BOOLEAN /\ Streams \in Nat
  BY TransfersAssumption DEF AtWork, Good, Type, Job
<1>1. /\ l \in Link /\ l.host = h /\ l.only = m.job[e].only /\ ~l.mux /\ ~l.owes /\ ~l.close
  BY <1>0 DEF Closed, Link
<1>2. u \in [Host -> {"none", "unknown", "no", "multi"}]
  BY <1>0 DEF Type
<1>3. n = [m EXCEPT !.pool = m.pool \cup {c}, !.at = at, !.multiuse = u]
  BY <1>0 DEF Curl_conncache_add_conn, Type
<1> HIDE DEF l, u
<1>4. at \in [Conn -> Link] /\ at[c] = l /\ \A d \in Conn : d # c => at[d] = m.at[d]
  BY <1>0, <1>1 DEF Type
<1> HIDE DEF at, n
<1>5. /\ n \in Type /\ n.pool = m.pool \cup {c} /\ n.at = at
      /\ n.limit = m.limit /\ n.job = m.job /\ n.host = m.host /\ n.conn = m.conn
      /\ n.state = m.state /\ n.pending = m.pending /\ n.held = m.held
  BY <1>0, <1>2, <1>3, <1>4 DEF Type
<1>6. Users(m, c) = {} /\ (\A x \in Easy : m.held[x] # c) /\ \A d : Users(n, d) = Users(m, d)
  BY <1>0, <1>5, Unused DEF Users
<1>7. Room(n)
  <2>1. m.limit.host \in Nat /\ m.limit.total \in Nat /\ Room(m)
    BY <1>0 DEF Good, Type, Limit
  <2>2. Cardinality(n.pool) = Cardinality(m.pool) + 1 /\ Cardinality(m.pool) \in Nat
    <3>1. IsFiniteSet(m.pool) /\ Cardinality(m.pool) \in Nat
      BY <1>0, BundleFinite
    <3> QED BY <1>5, <3>1, FS_AddElement, ZenonT(60)
  <2>3. ASSUME NEW g \in Host, m.limit.host > 0 PROVE Cardinality(Bundle(n, g)) <= n.limit.host
    <3>1. IsFiniteSet(Bundle(m, g)) /\ Cardinality(Bundle(m, g)) \in Nat /\ c \notin Bundle(m, g)
      BY <1>0, BundleFinite DEF Bundle
    <3>2. CASE g = h
      <4>1. Bundle(n, h) = Bundle(m, h) \cup {c}
        BY <1>0, <1>1, <1>4, <1>5 DEF Bundle
      <4>2. Cardinality(Bundle(n, h)) = Cardinality(Bundle(m, h)) + 1
        BY <3>1, <3>2, <4>1, FS_AddElement
      <4> QED BY <1>5, <2>1, <2>3, <3>1, <3>2, <4>2
    <3>3. CASE g # h
      <4>1. Bundle(n, g) = Bundle(m, g)
        BY <1>0, <1>1, <1>4, <1>5, <3>3 DEF Bundle
      <4> QED BY <1>5, <2>1, <2>3, <4>1 DEF Room
    <3> QED BY <3>2, <3>3
  <2> QED BY <1>5, <2>1, <2>2, <2>3 DEF Room
<1>8. Queue(n)
  BY <1>0, <1>5 DEF Good, Queue
<1>9. ASSUME NEW x \in Easy PROVE n.conn[x] \in n.pool \cup {None} /\ HoldsOwn(n, x)
  <2>1. m.conn[x] \in m.pool \cup {None} /\ HoldsOwn(m, x) /\ m.held[x] # c
    BY <1>0, <1>6 DEF Good
  <2>2. \A d \in m.pool : n.at[d] = m.at[d]
    BY <1>0, <1>4, <1>5
  <2> QED BY <1>5, <1>6, <2>1, <2>2 DEF HoldsOwn, InUse
<1>10. ASSUME NEW d \in n.pool PROVE Shared(n, d) /\ Quiet(n, d)
  <2>1. CASE d = c
    BY <1>0, <1>1, <1>4, <1>5, <1>6, <2>1 DEF Shared, Quiet
  <2>2. CASE d # c
    <3>1. d \in m.pool /\ Shared(m, d) /\ Quiet(m, d) /\ n.at[d] = m.at[d]
      BY <1>0, <1>4, <1>5, <2>2 DEF Good
    <3> QED BY <1>5, <1>6, <3>1 DEF Shared, Quiet
  <2> QED BY <2>1, <2>2
<1>11. ASSUME NEW x \in Easy \ {e} PROVE Placed(n, x)
  <2>1. Placed(m, x)
    BY <1>0 DEF Good
  <2>2. \A d \in m.pool : n.at[d] = m.at[d]
    BY <1>0, <1>4, <1>5
  <2> QED BY <1>5, <2>1, <2>2 DEF Placed, Active
<1>12. Good(n, {e}, {})
  BY <1>5, <1>7, <1>8, <1>9, <1>10, <1>11 DEF Good
<1>13. AtWork(n, e)
  BY <1>0, <1>5, <1>12 DEF AtWork
<1> QED BY <1>1, <1>4, <1>5, <1>13 DEF n

\* A transfer gives up the connection that only it uses.
LEMMA GoneGood ==
    ASSUME NEW m, NEW e, AtWork(m, e), NEW c, c = m.conn[e], c \in m.pool, ~m.at[c].mux
    PROVE  LET n == Curl_conncache_remove_conn(Curl_detach_connection(m, e), c)
           IN  AtWork(n, e) /\ n.conn[e] = None /\ n.state = m.state
<1> DEFINE left == Curl_detach_connection(m, e)
           n == Curl_conncache_remove_conn(left, c)
<1>0. /\ e \in Easy /\ m \in Type /\ c \in Conn /\ c # None /\ Good(m, {e}, {})
      /\ m.conn \in [Easy -> Conn \cup {None}]
  BY TransfersAssumption DEF AtWork, Good, Type
<1>1. Good(left, {e}, {c})
  BY <1>0, DetachGood
<1>2. /\ left \in Type /\ left.conn = [m.conn EXCEPT ![e] = None]
      /\ left.state = m.state /\ left.pool = m.pool /\ left.at = m.at
  BY <1>0, DetachIs
<1> HIDE DEF left
<1>3. ~InUse(left, c)
  <2>1. ASSUME NEW y \in Users(left, c) PROVE FALSE
    <3>1. y \in Easy /\ y # e /\ m.conn[y] = c
      BY <1>0, <1>2 DEF Users
    <3> QED BY <1>0, <3>1 DEF Good, Shared, Users
  <2> QED BY <2>1 DEF InUse
<1>4. left.at[c].host \in Host
  BY <1>1, <1>2 DEF Good, Shared
<1>5. Shrunk(left, n, {c})
  BY <1>2, <1>4, RemoveShrunk
<1>6. Good(n, {e}, {c} \ {c})
  BY <1>1, <1>3, <1>5, ShrunkGood
<1>7. {c} \ {c} = {}
  OBVIOUS
<1>8. Good(n, {e}, {})
  BY <1>6, <1>7
<1>9. n.conn[e] = None /\ n.state = m.state
  BY <1>0, <1>2, <1>5 DEF Shrunk
<1> HIDE DEF n
<1>10. AtWork(n, e)
  BY <1>0, <1>8, <1>9 DEF AtWork
<1> QED BY <1>9, <1>10 DEF n, left
LEMMA RestGood ==
    ASSUME NEW m, NEW e, AtWork(m, e), NEW s \in State, Fit(m, e, s)
    PROVE  Good(multistate(m, e, s), {}, {})
  BY AtWorkUnlisted, StateGood DEF AtWork

LEMMA CreateGood ==
    ASSUME NEW m, NEW e, AtWork(m, e), m.conn[e] = None,
           Cardinality(m.pool) < m.limit.total,
           m.limit.host > 0 => Cardinality(Bundle(m, m.host[e])) < m.limit.host,
           NEW n \in Create(m, e)
    PROVE  Good(n, {}, {})
<1> DEFINE c == CHOOSE x \in Conn : x \notin m.pool
           a == Curl_conncache_add_conn(m, e, c, m.host[e])
           made == Curl_attach_connection(a, e, c)
           gone == Curl_conncache_remove_conn(Curl_detach_connection(made, e), c)
           w == Now(made, e)
<1>0. /\ e \in Easy /\ m \in Type /\ Good(m, {e}, {}) /\ m.pool \subseteq Conn /\ Room(m)
      /\ m.host[e] \in Host
  BY DEF AtWork, Good, Type
<1>1. \E x \in Conn : x \notin m.pool
  <2>1. SUFFICES ASSUME m.pool = Conn PROVE FALSE
    BY <1>0
  <2>2. Cardinality(Conn) \in Nat
    BY TransfersAssumption, FS_CardinalityType
  <2> QED BY <1>0, <2>1, <2>2 DEF Room
<1>2. c \in Conn /\ c \notin m.pool
  BY <1>1
<1>3. /\ n \in {multistate(w, e, "CONNECTING"), multistate(w, e, "RESOLVING"),
                Failed(Now(gone, e), e)}
  BY DEF Create
<1> HIDE DEF c
<1>4. /\ AtWork(a, e) /\ a.conn = m.conn /\ a.host = m.host /\ a.job = m.job
      /\ a.state = m.state /\ a.held = m.held
      /\ c \in a.pool /\ a.at[c].host = m.host[e] /\ a.at[c].only = m.job[e].only
      /\ ~a.at[c].mux /\ ~a.at[c].owes
  BY <1>2, AddGood
<1>5. Users(a, c) = {} /\ \A x \in Easy : a.held[x] # c
  BY <1>0, <1>2, <1>4, Unused DEF Users
<1> HIDE DEF a
<1>6. AtWork(made, e)
  BY <1>4, <1>5, AttachGood
<1>7. a \in Type
  BY <1>4 DEF AtWork, Good
<1>8. /\ made \in Type /\ made.conn = [a.conn EXCEPT ![e] = c] /\ made.conn[e] = c
      /\ made.limit = a.limit /\ made.job = a.job /\ made.host = a.host /\ made.state = a.state
      /\ made.pending = a.pending /\ made.held = a.held /\ made.pool = a.pool /\ made.at = a.at
  BY <1>0, <1>2, <1>7, AttachIs
<1> HIDE DEF made
<1>9. AtWork(w, e) /\ Same(made, w)
  BY <1>6, NowAtWork
<1>10. AtWork(gone, e) /\ gone.conn[e] = None
  <2>1. c = made.conn[e] /\ c \in made.pool /\ ~made.at[c].mux
    BY <1>4, <1>8
  <2>2. AtWork(gone, e) /\ gone.conn[e] = None /\ gone.state = made.state
    BY <1>6, <2>1, GoneGood
  <2> QED BY <2>2
<1> HIDE DEF w, gone
<1>11. /\ w.conn[e] = c /\ c \in w.pool /\ w.at[c].host = w.host[e]
       /\ ~w.at[c].mux /\ ~w.at[c].owes
  BY <1>4, <1>8, <1>9 DEF Same
<1>12. Fit(w, e, "CONNECTING") /\ Fit(w, e, "RESOLVING")
  BY <1>11 DEF Fit, Active
<1>13. AtWork(Now(gone, e), e) /\ Same(gone, Now(gone, e))
  BY <1>10, NowAtWork
<1>14. Now(gone, e).conn[e] = None
  BY <1>10, <1>13 DEF Same
<1>15. Good(Failed(Now(gone, e), e), {}, {})
  BY <1>13, <1>14, FailedGood
<1>16. "CONNECTING" \in State /\ "RESOLVING" \in State
  BY DEF State
<1> QED BY <1>3, <1>9, <1>12, <1>15, <1>16, RestGood

LEMMA PendGood ==
    ASSUME NEW m, NEW e, AtWork(m, e), m.conn[e] = None
    PROVE  Good(Pend(m, e), {}, {})
<1> DEFINE s == multistate(m, e, "PENDING")
           q == Append(m.pending, e)
           n == [s EXCEPT !.pending = q]
<1>0. e \in Easy /\ m \in Type /\ m.pending \in Seq(Easy) /\ m.state \in [Easy -> State]
  BY DEF AtWork, Good, Type
<1>1. Fit(m, e, "PENDING") /\ "PENDING" \in State
  BY DEF Fit, Active, State
<1>2. Good(s, {}, {})
  BY <1>1, RestGood
<1>3. /\ s \in Type /\ s.state = [m.state EXCEPT ![e] = "PENDING"] /\ s.pending = m.pending
  BY <1>0, <1>1, StateIs
<1>4. Pend(m, e) = n
  BY <1>3 DEF Pend
<1> HIDE DEF s
<1>5. /\ q \in Seq(Easy) /\ Len(q) = Len(m.pending) + 1 /\ q[Len(q)] = e
      /\ \A i \in 1 .. Len(m.pending) : q[i] = m.pending[i]
  BY <1>0, AppendProperties
<1>6. DOMAIN q = 1 .. Len(q) /\ DOMAIN m.pending = 1 .. Len(m.pending) /\ Len(m.pending) \in Nat
  BY <1>0, <1>5, LenProperties
<1> HIDE DEF q
<1>7. /\ n \in Type /\ n.pending = q
      /\ n.limit = s.limit /\ n.job = s.job /\ n.host = s.host /\ n.conn = s.conn
      /\ n.state = s.state /\ n.held = s.held /\ n.pool = s.pool /\ n.at = s.at
  BY <1>3, <1>5 DEF Type
<1> HIDE DEF n
<1>8. Unlisted(m, e) /\ Queue(s)
  BY <1>2, AtWorkUnlisted DEF Good
<1>9. ASSUME NEW i \in DOMAIN q
      PROVE  \/ i \in DOMAIN m.pending /\ q[i] = m.pending[i]
             \/ i = Len(q) /\ q[i] = e
  <2>1. i \in 1 .. Len(m.pending) \/ i = Len(q)
    BY <1>5, <1>6
  <2> QED BY <1>5, <1>6, <2>1
<1>10. Queue(n)
  <2>1. s.state[e] = "PENDING"
    BY <1>0, <1>3
  <2>2. \A i \in DOMAIN q : s.state[q[i]] = "PENDING"
    BY <1>3, <1>8, <1>9, <2>1 DEF Queue
  <2>3. \A i, j \in DOMAIN q : q[i] = q[j] => i = j
    BY <1>3, <1>8, <1>9 DEF Queue, Unlisted
  <2> QED BY <1>7, <2>2, <2>3 DEF Queue
<1>11. \A c : Users(n, c) = Users(s, c)
  BY <1>7 DEF Users
<1>12. Room(n)
  BY <1>2, <1>7 DEF Good, Room, Bundle
<1>13. \A x \in Easy : n.conn[x] \in n.pool \cup {None} /\ HoldsOwn(n, x)
  BY <1>2, <1>7, <1>11 DEF Good, HoldsOwn, InUse
<1>14. \A c \in n.pool : Shared(n, c) /\ Quiet(n, c)
  BY <1>2, <1>7, <1>11 DEF Good, Shared, Quiet
<1>15. \A x \in Easy : Placed(n, x)
  BY <1>2, <1>7 DEF Good, Placed
<1> QED BY <1>4, <1>7, <1>10, <1>12, <1>13, <1>14, <1>15 DEF Good

LEMMA NewConnectionGood ==
    ASSUME NEW m, NEW e, AtWork(m, e), m.conn[e] = None, NEW n \in NewConnection(m, e)
    PROVE  Good(n, {}, {})
<1> DEFINE h == m.host[e]
           rooms == UNION {RoomInAll(a) : a \in RoomAtHost(m, h)}
<1>1. CASE WaitsForPipe(m, e)
  BY <1>1, PendGood DEF NewConnection
<1>2. CASE ~WaitsForPipe(m, e) /\ rooms # {}
  <2>1. PICK r \in rooms : n \in Create(r, e)
    BY <1>2 DEF NewConnection
  <2>2. PICK a \in RoomAtHost(m, h) : r \in RoomInAll(a)
    BY <2>1
  <2>3. /\ AtWork(r, e) /\ r.conn = m.conn
        /\ Cardinality(r.pool) < r.limit.total
        /\ r.limit.host > 0 => Cardinality(Bundle(r, r.host[e])) < r.limit.host
    BY <2>2, RoomFor
  <2> QED BY <2>1, <2>3, CreateGood
<1>3. CASE ~WaitsForPipe(m, e) /\ rooms = {}
  <2>1. PICK a : /\ n = Pend(a, e)
                 /\ a \in IF RoomAtHost(m, h) = {} THEN {m} ELSE RoomAtHost(m, h)
    BY <1>3 DEF NewConnection
  <2>2. AtWork(a, e) /\ a.conn[e] = None
    <3>1. CASE a = m
      BY <3>1
    <3>2. CASE a # m
      <4>1. PICK c \in IdleIn(m, h) : a = Extract(m, c)
        BY <2>1, <3>2 DEF RoomAtHost
      <4>2. c \in m.pool /\ ~InUse(m, c)
        BY DEF IdleIn, Bundle
      <4>3. Shrunk(m, a, {c})
        BY <4>1, <4>2, ExtractShrunk DEF AtWork, Good
      <4> QED BY <4>2, <4>3, ClearedAtWork DEF Cleared
    <3> QED BY <3>1, <3>2
  <2> QED BY <2>1, <2>2, PendGood
<1> QED BY <1>1, <1>2, <1>3

LEMMA ConnectGood ==
    ASSUME NEW m, NEW e, AtWork(m, e), m.conn[e] = None, m.state[e] = "CONNECT",
           NEW n \in Curl_connect(m, e)
    PROVE  Good(n, {}, {})
<1>0. m \in Type /\ Good(m, {e}, {})
  BY DEF AtWork, Good
<1>1. \A c \in FoundDead(m, e) : c \in m.pool /\ ~InUse(m, c)
  BY DEF FoundDead, Candidates, Bundle, Dead
<1>2. ASSUME NEW dead \in SUBSET FoundDead(m, e)
      PROVE  /\ Shrunk(m, CloseAll(m, dead), dead) /\ AtWork(CloseAll(m, dead), e)
             /\ CloseAll(m, dead).conn = m.conn /\ CloseAll(m, dead).state = m.state
  <2>1. dead \subseteq m.pool /\ \A c \in dead : ~InUse(m, c)
    BY <1>1
  <2>2. Shrunk(m, CloseAll(m, dead), dead)
    BY <1>0, <2>1, CloseAllShrunk
  <2> QED BY <2>1, <2>2, ClearedAtWork DEF Cleared
<1>3. CASE Reusable(m, e) # {}
  <2>1. PICK dead \in SUBSET FoundDead(m, e), c \in Reusable(m, e) :
              n \in Reuse(CloseAll(m, dead), e, c)
    <3>1. n \in UNION {Reuse(k, e, c) : k \in {CloseAll(m, dead) : dead \in SUBSET FoundDead(m, e)},
                                       c \in Reusable(m, e)}
      BY <1>3 DEF Curl_connect
    <3> QED BY <3>1
  <2> DEFINE k == CloseAll(m, dead)
  <2>2. Shrunk(m, k, dead) /\ AtWork(k, e) /\ k.conn = m.conn /\ k.state = m.state
    BY <1>2
  <2> HIDE DEF k
  <2>3. /\ c \in m.pool /\ m.at[c].host = m.host[e] /\ ~m.at[c].only /\ ~m.job[e].only
        /\ m.at[c].mux \/ Users(m, c) = {}
    BY DEF Reusable, Candidates, Bundle, Fits, InUse
  <2>4. c \notin dead
    BY DEF Reusable, FoundDead
  <2>5. c \in k.pool /\ k.at[c] = m.at[c] /\ Users(k, c) = Users(m, c) /\ k.host = m.host
        /\ k.job = m.job
    BY <2>2, <2>3, <2>4 DEF Shrunk, Users
  <2>6. ~m.at[c].owes
    BY <1>0, <2>3 DEF Good, Quiet
  <2>7. n \in Reuse(k, e, c)
    BY <2>1 DEF k
  <2> QED BY <2>2, <2>3, <2>5, <2>6, <2>7, ReuseGood
<1>4. CASE Reusable(m, e) = {}
  <2>1. n \in NewConnection(CloseAll(m, FoundDead(m, e)), e)
    BY <1>4 DEF Curl_connect
  <2>2. /\ AtWork(CloseAll(m, FoundDead(m, e)), e)
        /\ CloseAll(m, FoundDead(m, e)).conn[e] = None
    BY <1>2
  <2> QED BY <2>1, <2>2, NewConnectionGood
<1> QED BY <1>3, <1>4
------------------------------------------------------------------------------
(* Every step keeps the invariant.                                           *)

\* Its host and the number of redirects matter to no other transfer.
LEMMA RehostGood ==
    ASSUME NEW m, NEW e \in Easy, Good(m, {}, {}), m.state[e] \notin Active,
           NEW h \in Host, NEW k \in Nat
    PROVE  Good([m EXCEPT !.host[e] = h, !.hops = k], {}, {})
<1> DEFINE n == [m EXCEPT !.host[e] = h, !.hops = k]
           host == [m.host EXCEPT ![e] = h]
<1>0. m \in Type
  BY DEF Good
<1>1. /\ n = [m EXCEPT !.host = host, !.hops = k] /\ host \in [Easy -> Host]
      /\ \A x \in Easy : x # e => host[x] = m.host[x]
  BY <1>0 DEF Type
<1> HIDE DEF n, host
<1>2. /\ n \in Type /\ n.host = host
      /\ n.limit = m.limit /\ n.job = m.job /\ n.conn = m.conn
      /\ n.state = m.state /\ n.pending = m.pending /\ n.held = m.held
      /\ n.pool = m.pool /\ n.at = m.at
  BY <1>0, <1>1 DEF Type
<1>3. \A c : Users(n, c) = Users(m, c)
  BY <1>2 DEF Users
<1>4. Queue(n) /\ Room(n)
  BY <1>2 DEF Good, Queue, Room, Bundle
<1>5. \A x \in Easy : n.conn[x] \in n.pool \cup {None} /\ HoldsOwn(n, x)
  BY <1>2, <1>3 DEF Good, HoldsOwn, InUse
<1>6. \A c \in n.pool : Shared(n, c) /\ Quiet(n, c)
  BY <1>2, <1>3 DEF Good, Shared, Quiet
<1>7. ASSUME NEW x \in Easy PROVE Placed(n, x)
  <2>1. Placed(m, x)
    BY DEF Good
  <2> QED BY <1>1, <1>2, <2>1 DEF Placed
<1> QED BY <1>2, <1>4, <1>5, <1>6, <1>7 DEF Good, n

LEMMA AtRest ==
    ASSUME NEW m, NEW e \in Easy, Good(m, {}, {}), m.state[e] # "PENDING"
    PROVE  /\ AtWork(m, e) /\ Placed(m, e) /\ m \in Type
           /\ m.conn[e] \in Conn \cup {None}
           /\ m.state[e] \in Active => m.conn[e] \in m.pool /\ m.conn[e] \in Conn
           /\ m.state[e] \notin Active => m.conn[e] = None
  BY DEF AtWork, Good, Type, Placed

LEMMA ConnectStep ==
    ASSUME NEW e \in Easy, IInv, Connect(e)
    PROVE  Good(multi', {}, {})
<1>1. /\ AtWork(multi, e) /\ multi.conn[e] = None /\ multi.state[e] = "CONNECT"
      /\ multi \in Type
  BY AtRest DEF Connect, IInv, Active
<1>2. PICK m \in prune_dead_connections(multi) : multi' \in Curl_connect(m, e)
  BY DEF Connect
<1>3. AtWork(m, e) /\ m.conn[e] = None /\ m.state[e] = "CONNECT"
  <2> DEFINE dead == {c \in multi.pool : Dead(multi, c)}
  <2>1. CASE m = multi
    BY <1>1, <2>1
  <2>2. CASE m = CloseAll(multi, dead)
    <3>1. dead \in SUBSET multi.pool /\ \A c \in dead : ~InUse(multi, c)
      BY DEF Dead
    <3>2. Shrunk(multi, CloseAll(multi, dead), dead)
      BY <1>1, <3>1, CloseAllShrunk
    <3>3. Cleared(multi, m, e)
      BY <2>2, <3>1, <3>2 DEF Cleared
    <3> QED BY <1>1, <3>3, ClearedAtWork
  <2> QED BY <2>1, <2>2 DEF prune_dead_connections
<1> QED BY <1>2, <1>3, ConnectGood

LEMMA RefuseStep ==
    ASSUME NEW e \in Easy, IInv, Refuse(e)
    PROVE  Good(multi', {}, {})
<1>1. AtWork(multi, e) /\ multi.conn[e] = None
  BY AtRest DEF Refuse, IInv, Active
<1>2. AtWork(Now(multi, e), e) /\ Same(multi, Now(multi, e))
  BY <1>1, NowAtWork
<1>3. Now(multi, e).conn[e] = None
  BY <1>1, <1>2 DEF Same
<1>4. multi' = Failed(multi, e) \/ multi' = Failed(Now(multi, e), e)
  BY DEF Refuse
<1> QED BY <1>1, <1>2, <1>3, <1>4, FailedGood

LEMMA ResolvedStep ==
    ASSUME NEW e \in Easy, IInv, Resolved(e)
    PROVE  Good(multi', {}, {})
<1> DEFINE c == multi.conn[e]
           gone == Curl_conncache_remove_conn(Curl_detach_connection(multi, e), c)
<1>1. /\ AtWork(multi, e) /\ c \in multi.pool /\ Placed(multi, e)
      /\ multi.state[e] = "RESOLVING"
  BY AtRest DEF Resolved, IInv, Active
<1>2. ~multi.at[c].mux /\ multi.at[c].host = multi.host[e]
  BY <1>1 DEF Placed, Active
<1>3. ~multi.at[c].owes
  BY <1>1, NotOwed DEF IInv
<1>4. multi' = multistate(multi, e, "CONNECTING") \/ multi' = Failed(gone, e)
  BY DEF Resolved
<1>5. Fit(multi, e, "CONNECTING") /\ "CONNECTING" \in State
  BY <1>1, <1>2, <1>3 DEF Fit, Active, State
<1>6. Good(multistate(multi, e, "CONNECTING"), {}, {})
  BY <1>1, <1>5, RestGood
<1>7. AtWork(gone, e) /\ gone.conn[e] = None
  <2>1. AtWork(gone, e) /\ gone.conn[e] = None /\ gone.state = multi.state
    BY <1>1, <1>2, GoneGood
  <2> QED BY <2>1
<1> HIDE DEF gone
<1>8. Good(Failed(gone, e), {}, {})
  BY <1>7, FailedGood
<1> QED BY <1>4, <1>6, <1>8
\* On a connection that is up, with nothing under way.
Ready(m, e) ==
    /\ AtWork(m, e) /\ m.conn[e] \in m.pool
    /\ m.at[m.conn[e]].host = m.host[e] /\ ~m.at[m.conn[e]].owes

LEMMA ReadyWoken ==
    ASSUME NEW m, NEW e, Ready(m, e)
    PROVE  LET n == process_pending_handles(m)
           IN  Ready(n, e) /\ Same(m, n) /\ n.state[e] = m.state[e]
<1> DEFINE n == process_pending_handles(m)
<1>1. AtWork(n, e) /\ Same(m, n) /\ n.state[e] = m.state[e]
  BY WokenAtWork DEF Ready
<1> HIDE DEF n
<1>2. n.conn = m.conn /\ n.pool = m.pool /\ n.at = m.at /\ n.host = m.host
  BY <1>1 DEF Same
<1> QED BY <1>1, <1>2 DEF Ready, n

LEMMA Http2Good ==
    ASSUME NEW m, NEW E, Good(m, E, {}), NEW c \in m.pool, ~m.at[c].only,
           m.at[c].mux \/ \A x \in Users(m, c) \ E : m.state[x] = "PERFORMING"
    PROVE  LET n == Http2(m, c)
           IN  /\ Good(n, E, {}) /\ n.at[c].host = m.at[c].host /\ ~n.at[c].owes
               /\ n.conn = m.conn /\ n.pool = m.pool /\ n.host = m.host /\ n.job = m.job
               /\ \A x \in Easy : \/ n.state[x] = m.state[x]
                                  \/ m.state[x] = "PENDING" /\ n.state[x] = "CONNECT"
<1> DEFINE l == [m.at[c] EXCEPT !.mux = TRUE, !.owes = FALSE]
           u == [m.multiuse EXCEPT ![m.at[c].host] = "multi"]
           k == Relinked(m, c, l, u)
           n == process_pending_handles(k)
<1>0. m \in Type /\ c \in Conn /\ m.at[c] \in Link
  BY DEF Good, Type
<1>1. /\ l \in Link /\ l.host = m.at[c].host /\ l.only = m.at[c].only /\ l.mux /\ ~l.owes
      /\ ~l.only
  BY <1>0, LinkFields, LinkKeeps DEF Shared
<1>2. u \in [Host -> {"none", "unknown", "no", "multi"}]
  BY <1>0 DEF Type
<1>3. Http2(m, c) = n
  BY <1>0 DEF Http2, Curl_multi_connchanged, Relinked, Type
<1> HIDE DEF l, u
<1>4. l.mux = m.at[c].mux \/ \A x \in Users(m, c) \ E : m.state[x] = "PERFORMING"
  BY <1>0, <1>1 DEF Link
<1>5. /\ Good(k, E, {}) /\ k.at[c] = l
      /\ k.conn = m.conn /\ k.state = m.state /\ k.pool = m.pool /\ k.host = m.host
      /\ k.job = m.job /\ k.pending = m.pending
  <2>1. l.only => ~l.mux /\ ~l.close
    BY <1>1
  <2>2. l.owes => m.at[c].owes /\ ~l.mux
    BY <1>1
  <2>3. m.at[c].mux => l.mux
    BY <1>1
  <2>4. l \in Link /\ l.host = m.at[c].host /\ l.only = m.at[c].only
    BY <1>1
  <2> QED BY <1>2, <1>4, <2>1, <2>2, <2>3, <2>4, TweakGood
<1> HIDE DEF k
<1>6. Good(n, E, {}) /\ Same(k, n)
  BY <1>5, WokenGood
<1> HIDE DEF n
<1>7. /\ n.at[c] = l /\ n.conn = m.conn /\ n.pool = m.pool /\ n.host = m.host /\ n.job = m.job
      /\ \A x \in Easy : \/ n.state[x] = m.state[x]
                         \/ m.state[x] = "PENDING" /\ n.state[x] = "CONNECT"
  BY <1>5, <1>6 DEF Same
<1>8. n.at[c].host = m.at[c].host /\ ~n.at[c].owes
  BY <1>1, <1>7
<1>9. Good(Http2(m, c), E, {})
  BY <1>3, <1>6
<1> QED BY <1>3, <1>7, <1>8, <1>9

LEMMA ConnectedStep ==
    ASSUME NEW e \in Easy, IInv, Connected(e)
    PROVE  Good(multi', {}, {})
<1> DEFINE m == multi
           c == m.conn[e]
           h == m.at[c].host
           l == [m.at[c] EXCEPT !.up = TRUE]
           up(u) == Relinked(m, c, l, u)
           no == [m.multiuse EXCEPT ![h] = "no"]
           many == [m.multiuse EXCEPT ![h] = "multi"]
           serial == process_pending_handles(up(no))
           shared == process_pending_handles(up(many))
<1>0. /\ AtWork(m, e) /\ c \in m.pool /\ c \in Conn /\ Placed(m, e) /\ m \in Type
      /\ m.state[e] = "CONNECTING" /\ Good(m, {e}, {})
  BY AtRest DEF Connected, IInv, Active, AtWork
<1>1. ~m.at[c].mux /\ h = m.host[e]
  BY <1>0 DEF Placed, Active
<1>2. ~m.at[c].owes
  BY <1>0, NotOwed DEF IInv
<1>3. m.at[c] \in Link /\ Shared(m, c) /\ h \in Host
  BY <1>0 DEF Good, Type, Shared
<1>4. /\ l \in Link /\ l.host = h /\ l.only = m.at[c].only /\ l.mux = m.at[c].mux
      /\ l.close = m.at[c].close /\ l.owes = m.at[c].owes
  BY <1>3, LinkFields, LinkKeeps
<1>5. \A u \in {m.multiuse, no, many} : u \in [Host -> {"none", "unknown", "no", "multi"}]
  BY <1>0, <1>3 DEF Type
<1>6. \/ h \in Plain /\ multi' \in Do(up(m.multiuse), e)
      \/ multi' \in Do(serial, e)
      \/ m.job[e].only /\ multi' \in Do(shared, e)
      \/ ~m.job[e].only /\ multi' \in Do(Http2(shared, c), e)
  <2>1. [m EXCEPT !.at[c].up = TRUE] = up(m.multiuse)
    BY <1>0 DEF Relinked, Type
  <2>2. Curl_multiuse_state(up(m.multiuse), h, "no") = serial
    BY <1>0 DEF Curl_multiuse_state, Relinked, Type
  <2>3. Curl_multiuse_state(up(m.multiuse), h, "multi") = shared
    BY <1>0 DEF Curl_multiuse_state, Relinked, Type
  <2> HIDE DEF up, serial, shared
  <2> QED BY <2>1, <2>2, <2>3 DEF Connected
<1> HIDE DEF l, no, many
<1>7. ASSUME NEW u \in {m.multiuse, no, many}
      PROVE  /\ Ready(up(u), e) /\ up(u).at[c] = l /\ up(u).conn = m.conn
             /\ up(u).job = m.job /\ up(u).state[e] = "CONNECTING" /\ up(u).pool = m.pool
             /\ up(u).host = m.host
  <2>1. l.only => ~l.mux /\ ~l.close
    BY <1>3, <1>4 DEF Shared
  <2>2. u \in [Host -> {"none", "unknown", "no", "multi"}]
    BY <1>5
  <2>3. /\ Good(up(u), {e}, {}) /\ up(u).at[c] = l
        /\ up(u).conn = m.conn /\ up(u).state = m.state /\ up(u).pool = m.pool
        /\ up(u).host = m.host /\ up(u).job = m.job /\ up(u).pending = m.pending
    BY <1>0, <1>1, <1>2, <1>4, <2>1, <2>2, TweakGood, SMT, Z3T(20)
  <2> QED BY <1>0, <1>1, <1>2, <1>4, <2>3 DEF Ready, AtWork
<1> HIDE DEF up
<1>8. Ready(up(m.multiuse), e)
  BY <1>7
<1>9. Ready(serial, e)
  BY <1>7, ReadyWoken
<1>10. Ready(shared, e) /\ Same(up(many), shared) /\ shared.state[e] = "CONNECTING"
  BY <1>7, ReadyWoken
<1>11. ASSUME ~m.job[e].only PROVE Ready(Http2(shared, c), e)
  <2> DEFINE k == Http2(shared, c)
  <2>1. /\ up(many).at[c] = l /\ up(many).conn = m.conn /\ up(many).pool = m.pool
        /\ up(many).job = m.job /\ up(many).host = m.host
    BY <1>7
  <2>2. /\ shared.conn = m.conn /\ shared.at[c] = l /\ shared.pool = m.pool
        /\ shared.job = m.job /\ shared.host = m.host
    BY <1>10, <2>1 DEF Same
  <2> HIDE DEF shared
  <2>3. e \in Users(shared, c) /\ Shared(shared, c) /\ Good(shared, {e}, {})
    BY <1>0, <1>10, <2>2 DEF Ready, AtWork, Good, Users
  <2>4. ~shared.at[c].only /\ ~shared.at[c].mux
    BY <1>1, <1>4, <1>11, <2>2, <2>3 DEF Shared
  <2>5. Users(shared, c) \ {e} = {}
    BY <2>3, <2>4 DEF Shared
  <2>6. /\ Good(k, {e}, {}) /\ k.at[c].host = shared.at[c].host /\ ~k.at[c].owes
        /\ k.conn = shared.conn /\ k.pool = shared.pool /\ k.host = shared.host
        /\ k.job = shared.job
        /\ \A x \in Easy : \/ k.state[x] = shared.state[x]
                           \/ shared.state[x] = "PENDING" /\ k.state[x] = "CONNECT"
    BY <1>0, <2>2, <2>3, <2>4, <2>5, Http2Good
  <2> HIDE DEF k
  <2>7. k.state[e] = "CONNECTING"
    BY <1>10, <2>6
  <2>8. k.conn[e] = c /\ k.at[c].host = k.host[e] /\ c \in k.pool
    BY <1>0, <1>1, <1>4, <2>2, <2>6
  <2> QED BY <2>6, <2>7, <2>8 DEF Ready, AtWork, k
<1> HIDE DEF serial, shared
<1> QED BY <1>6, <1>8, <1>9, <1>10, <1>11, DoGood DEF Ready

LEMMA UpgradedStep ==
    ASSUME NEW e \in Easy, IInv, Upgraded(e)
    PROVE  Good(multi', {}, {})
<1> DEFINE c == multi.conn[e]
<1>1. /\ c \in multi.pool /\ c \in Conn /\ Placed(multi, e) /\ multi \in Type
      /\ multi.state[e] = "PERFORMING" /\ ~multi.at[c].mux /\ multi' = Http2(multi, c)
      /\ Good(multi, {}, {})
  BY AtRest DEF Upgraded, IInv, Active
<1>2. Shared(multi, c) /\ e \in Users(multi, c)
  BY <1>1 DEF Good, Users
<1>3. ~multi.at[c].only /\ \A x \in Users(multi, c) \ {} : multi.state[x] = "PERFORMING"
  BY <1>1, <1>2 DEF Shared, Placed
<1> HIDE DEF c
<1> QED BY <1>1, <1>3, Http2Good
LEMMA SettingsStep ==
    ASSUME NEW e \in Easy, IInv, NEW k \in 0 .. 1, Settings(e, k)
    PROVE  Good(multi', {}, {})
<1> DEFINE c == multi.conn[e]
           l == [multi.at[c] EXCEPT !.streams = k]
           n == Relinked(multi, c, l, multi.multiuse)
<1>1. c \in multi.pool /\ c \in Conn /\ multi \in Type /\ Good(multi, {}, {})
  BY AtRest DEF Settings, IInv, Active
<1>2. multi.at[c] \in Link /\ multi.multiuse \in [Host -> {"none", "unknown", "no", "multi"}]
  BY <1>1 DEF Type
<1>3. /\ l \in Link /\ l.host = multi.at[c].host /\ l.only = multi.at[c].only
      /\ l.mux = multi.at[c].mux /\ l.close = multi.at[c].close /\ l.owes = multi.at[c].owes
  BY <1>2 DEF Link
<1>4. Shared(multi, c) /\ Quiet(multi, c)
  BY <1>1 DEF Good
<1>5. multi' = process_pending_handles(n)
  BY <1>1 DEF Settings, Curl_multi_connchanged, Relinked, Type
<1> HIDE DEF l, c
<1>6. (l.only => ~l.mux /\ ~l.close) /\ (l.owes => multi.at[c].owes /\ ~l.mux)
  BY <1>3, <1>4 DEF Shared, Quiet
<1>7. Good(n, {}, {})
  BY <1>1, <1>2, <1>3, <1>6, TweakGood
<1> QED BY <1>5, <1>7, WokenGood

\* The end of a request, and its connection told.
LEMMA AnsweredGood ==
    ASSUME NEW e \in Easy, IInv, multi.state[e] = "PERFORMING", NEW close \in BOOLEAN
    PROVE  LET n == Answered(multi, e, close)
           IN  AtWork(n, e) /\ n.conn[e] \in n.pool /\ ~n.at[n.conn[e]].owes
<1> DEFINE m == multi
           c == m.conn[e]
           b == m.at[c].close \/ (close /\ ~m.at[c].mux)
           s == IF m.at[c].mux THEN "multi" ELSE "no"
           l == [m.at[c] EXCEPT !.owes = FALSE, !.close = b]
           u == [m.multiuse EXCEPT ![m.at[c].host] = s]
           n == Relinked(m, c, l, u)
<1>1. c \in m.pool /\ c \in Conn /\ m \in Type /\ Placed(m, e) /\ Good(m, {}, {})
  BY AtRest DEF IInv, Active
<1>2. m.at[c] \in Link /\ Shared(m, c) /\ e \in Users(m, c)
  BY <1>1 DEF Good, Type, Users
<1>3. b \in BOOLEAN /\ ~m.at[c].only
  BY <1>1, <1>2 DEF Shared, Placed, Link
<1>4. /\ l \in Link /\ l.host = m.at[c].host /\ l.only = m.at[c].only
      /\ l.mux = m.at[c].mux /\ ~l.owes /\ ~l.only
  <2> HIDE DEF b
  <2> QED BY <1>2, <1>3, LinkAnswered, ZenonT(60)
<1>5. u \in [Host -> {"none", "unknown", "no", "multi"}]
  BY <1>1 DEF Type
<1>6. Answered(m, e, close) = n
  BY <1>1, ZenonT(60) DEF Answered, Relinked, Type
<1> HIDE DEF l, u, b, c, s
<1>7. /\ Good(n, {}, {}) /\ n.at[c] = l
      /\ n.conn = m.conn /\ n.state = m.state /\ n.pool = m.pool /\ n.host = m.host
      /\ n.job = m.job /\ n.pending = m.pending
  <2>1. l.only => ~l.mux /\ ~l.close
    BY <1>4
  <2>2. l.owes => m.at[c].owes /\ ~l.mux
    BY <1>4
  <2>3. m.at[c].mux => l.mux
    BY <1>4
  <2> QED BY <1>1, <1>4, <1>5, <2>1, <2>2, <2>3, TweakGood
<1> HIDE DEF n
<1>8. AtWork(n, e)
  BY <1>7 DEF AtWork, Good
<1>9. n.conn[e] \in n.pool /\ ~n.at[n.conn[e]].owes
  BY <1>1, <1>4, <1>7 DEF c
<1> QED BY <1>6, <1>8, <1>9

LEMMA LeaveGood ==
    ASSUME NEW m, NEW e, AtWork(m, e), m.conn[e] \in m.pool, NEW premature \in BOOLEAN,
           m.at[m.conn[e]].owes => m.at[m.conn[e]].close \/ premature,
           NEW n \in multi_done(m, e, premature)
    PROVE  AtWork(n, e) /\ n.conn[e] = None /\ Good(Completed(n, e), {}, {})
           /\ Good(Failed(n, e), {}, {})
<1>1. AtWork(n, e) /\ Left(m, n, e)
  BY DoneGood
<1>2. n.conn[e] = None
  BY <1>1 DEF Left
<1>3. Good(Completed(n, e), {}, {})
  BY <1>1, <1>2, AtWorkUnlisted, CompletedGood DEF AtWork
<1> QED BY <1>1, <1>2, <1>3, FailedGood

\* The wake-up that a multiplexed connection gives first.
LEMMA MaybeWoken ==
    ASSUME NEW m, NEW e, AtWork(m, e), NEW n \in {m, process_pending_handles(m)}
    PROVE  AtWork(n, e) /\ n.conn = m.conn /\ n.pool = m.pool /\ n.at = m.at
<1>1. AtWork(process_pending_handles(m), e) /\ Same(m, process_pending_handles(m))
  BY WokenAtWork
<1> QED BY <1>1 DEF Same

LEMMA FinishStep ==
    ASSUME NEW e \in Easy, IInv, Finish(e)
    PROVE  Good(multi', {}, {})
<1>1. PICK close \in BOOLEAN :
        LET m == Answered(multi, e, close)
            done == IF m.at[m.conn[e]].mux THEN process_pending_handles(m) ELSE m
        IN  multi' \in {Completed(x, e) : x \in multi_done(done, e, FALSE)}
  BY DEF Finish
<1> DEFINE m == Answered(multi, e, close)
           done == IF m.at[m.conn[e]].mux THEN process_pending_handles(m) ELSE m
<1>2. AtWork(m, e) /\ m.conn[e] \in m.pool /\ ~m.at[m.conn[e]].owes
  BY AnsweredGood DEF Finish
<1>3. PICK x \in multi_done(done, e, FALSE) : multi' = Completed(x, e)
  BY <1>1
<1>4. done \in {m, process_pending_handles(m)}
  OBVIOUS
<1> HIDE DEF done, m
<1>5. AtWork(done, e) /\ done.conn = m.conn /\ done.pool = m.pool /\ done.at = m.at
  BY <1>2, <1>4, MaybeWoken
<1> QED BY <1>2, <1>3, <1>5, LeaveGood

LEMMA AgainGood ==
    ASSUME NEW m, NEW e, AtWork(m, e), m.conn[e] \in m.pool, NEW h \in Host,
           m.at[m.conn[e]].owes => m.at[m.conn[e]].close, NEW n \in Again(m, e, h)
    PROVE  Good(n, {}, {})
<1>1. PICK x \in multi_done(m, e, FALSE) :
        n = [multistate(x, e, "CONNECT") EXCEPT !.host[e] = h, !.hops = @ + 1]
  BY DEF Again
<1>2. AtWork(x, e) /\ x.conn[e] = None
  BY LeaveGood
<1> DEFINE y == multistate(x, e, "CONNECT")
<1>3. Fit(x, e, "CONNECT") /\ "CONNECT" \in State
  BY <1>2 DEF Fit, Active, State
<1>4. Good(y, {}, {})
  BY <1>2, <1>3, RestGood
<1>5. e \in Easy /\ x \in Type /\ y.state = [x.state EXCEPT ![e] = "CONNECT"]
  BY <1>2, <1>3, StateIs DEF AtWork, Good
<1>6. y.state[e] = "CONNECT" /\ y.state[e] \notin Active
  BY <1>5 DEF Type, Active
<1>7. n = [y EXCEPT !.host[e] = h, !.hops = y.hops + 1]
  BY <1>1
<1> HIDE DEF y
<1>8. y.hops + 1 \in Nat
  BY <1>4 DEF Good, Type
<1> QED BY <1>4, <1>5, <1>6, <1>7, <1>8, RehostGood

LEMMA RedirectStep ==
    ASSUME NEW e \in Easy, IInv, Redirect(e)
    PROVE  Good(multi', {}, {})
<1>1. PICK close \in BOOLEAN, h \in Host : multi' \in Again(Answered(multi, e, close), e, h)
  BY DEF Redirect
<1> DEFINE m == Answered(multi, e, close)
<1>2. AtWork(m, e) /\ m.conn[e] \in m.pool /\ ~m.at[m.conn[e]].owes
  BY AnsweredGood DEF Redirect
<1> HIDE DEF m
<1>3. multi' \in Again(m, e, h)
  BY <1>1 DEF m
<1> QED BY <1>2, <1>3, AgainGood

LEMMA RetryStep ==
    ASSUME NEW e \in Easy, IInv, Retry(e)
    PROVE  Good(multi', {}, {})
<1> DEFINE m == multi
           c == m.conn[e]
           l == [m.at[c] EXCEPT !.close = TRUE]
           n == Relinked(m, c, l, m.multiuse)
<1>1. c \in m.pool /\ c \in Conn /\ m \in Type /\ Placed(m, e) /\ Good(m, {}, {})
      /\ m.state[e] = "PERFORMING"
  BY AtRest DEF Retry, IInv, Active
<1>2. m.at[c] \in Link /\ Shared(m, c) /\ Quiet(m, c) /\ e \in Users(m, c)
  BY <1>1 DEF Good, Type, Users
<1>3. ~m.at[c].only /\ m.multiuse \in [Host -> {"none", "unknown", "no", "multi"}]
      /\ m.at[c].host \in Host
  BY <1>1, <1>2 DEF Shared, Placed, Type
<1>4. /\ l \in Link /\ l.host = m.at[c].host /\ l.only = m.at[c].only
      /\ l.mux = m.at[c].mux /\ l.close /\ l.owes = m.at[c].owes
  BY <1>2, LinkFields, LinkKeeps
<1>5. multi' \in Again(n, e, m.at[c].host)
  <2>1. [m EXCEPT !.at[c].close = TRUE] = n
    BY <1>1 DEF Relinked, Type
  <2> HIDE DEF n
  <2> QED BY <2>1 DEF Retry
<1> HIDE DEF l, c
<1>6. (l.only => ~l.mux /\ ~l.close) /\ (l.owes => m.at[c].owes /\ ~l.mux)
  BY <1>2, <1>3, <1>4 DEF Quiet
<1>7. /\ Good(n, {}, {}) /\ n.at[c] = l
      /\ n.conn = m.conn /\ n.state = m.state /\ n.pool = m.pool /\ n.host = m.host
      /\ n.job = m.job /\ n.pending = m.pending
  BY <1>1, <1>3, <1>4, <1>6, TweakGood
<1> HIDE DEF n
<1>8. AtWork(n, e)
  BY <1>1, <1>7 DEF AtWork, Good
<1>9. n.conn[e] \in n.pool /\ n.at[n.conn[e]].close
  BY <1>1, <1>4, <1>7 DEF c
<1> QED BY <1>3, <1>5, <1>8, <1>9, AgainGood

LEMMA FailStep ==
    ASSUME NEW e \in Easy, IInv, Fail(e)
    PROVE  Good(multi', {}, {})
<1> DEFINE m == multi
           done == IF m.at[m.conn[e]].mux THEN process_pending_handles(m) ELSE m
<1>1. AtWork(m, e) /\ m.conn[e] \in m.pool
  BY AtRest DEF Fail, IInv, Active
<1>2. multi' \in {Failed(x, e) : x \in multi_done(m, e, TRUE)}
            \cup {Completed(x, e) : x \in multi_done(done, e, TRUE)}
  BY DEF Fail
<1>3. done \in {m, process_pending_handles(m)}
  OBVIOUS
<1> HIDE DEF done
<1>4. AtWork(done, e) /\ done.conn = m.conn /\ done.pool = m.pool /\ done.at = m.at
  BY <1>1, <1>3, MaybeWoken
<1>5. CASE multi' \in {Failed(x, e) : x \in multi_done(m, e, TRUE)}
  <2>1. PICK x \in multi_done(m, e, TRUE) : multi' = Failed(x, e)
    BY <1>5
  <2> QED BY <1>1, <2>1, LeaveGood
<1>6. CASE multi' \in {Completed(x, e) : x \in multi_done(done, e, TRUE)}
  <2>1. PICK x \in multi_done(done, e, TRUE) : multi' = Completed(x, e)
    BY <1>6
  <2> QED BY <1>1, <1>4, <2>1, LeaveGood
<1> QED BY <1>2, <1>5, <1>6
LEMMA AddHandleStep ==
    ASSUME NEW e \in Easy, IInv, curl_multi_add_handle(e)
    PROVE  Good(multi', {}, {})
<1> DEFINE y == multistate(multi, e, "CONNECT")
<1>1. AtWork(multi, e) /\ multi.conn[e] = None /\ multi \in Type
  BY AtRest DEF curl_multi_add_handle, IInv, Active
<1>2. Fit(multi, e, "CONNECT") /\ "CONNECT" \in State
  BY <1>1 DEF Fit, Active, State
<1>3. Good(y, {}, {})
  BY <1>1, <1>2, RestGood
<1>4. y \in Type /\ y.state = [multi.state EXCEPT ![e] = "CONNECT"] /\ y.hops = multi.hops
  BY <1>1, <1>2, StateIs
<1>5. multi' = [y EXCEPT !.host[e] = multi.job[e].host]
  BY DEF curl_multi_add_handle
<1> HIDE DEF y
<1>6. y.state[e] \notin Active /\ y.hops \in Nat /\ multi.job[e].host \in Host
  BY <1>1, <1>4 DEF Type, Active, Job
<1>7. multi' = [y EXCEPT !.host[e] = multi.job[e].host, !.hops = y.hops]
  BY <1>4, <1>5 DEF Type
<1> QED BY <1>3, <1>6, <1>7, RehostGood

LEMMA WithoutIs ==
    ASSUME NEW T, NEW s \in Seq(T), NEW e, \A i, j \in DOMAIN s : s[i] = s[j] => i = j
    PROVE  LET t == Without(s, e)
           IN  /\ t \in Seq(T)
               /\ \A i \in DOMAIN t : t[i] # e /\ \E j \in DOMAIN s : t[i] = s[j]
               /\ \A i, j \in DOMAIN t : t[i] = t[j] => i = j
<1>1. CASE ~\E i \in DOMAIN s : s[i] = e
  <2>1. Without(s, e) = s
    BY <1>1 DEF Without
  <2> QED BY <1>1, <2>1
<1>2. CASE \E i \in DOMAIN s : s[i] = e
  <2> DEFINE r == CHOOSE i \in DOMAIN s : s[i] = e
             t == RemoveAt(s, r)
  <2>1. r \in DOMAIN s /\ s[r] = e
    BY <1>2
  <2>2. Without(s, e) = t
    BY <1>2 DEF Without
  <2> HIDE DEF r
  <2>3. DOMAIN s = 1 .. Len(s) /\ Len(s) \in Nat
    BY LenProperties
  <2>4. /\ t \in Seq(T) /\ DOMAIN t = 1 .. (Len(s) - 1)
        /\ \A i \in 1 .. (Len(s) - 1) : t[i] = IF i < r THEN s[i] ELSE s[i + 1]
    <3>1. r \in 1 .. Len(s)
      BY <2>1, <2>3
    <3> QED BY <3>1, RemovedAt
  <2> HIDE DEF t
  <2> DEFINE from(i) == IF i < r THEN i ELSE i + 1
  <2>5. ASSUME NEW i \in DOMAIN t PROVE from(i) \in DOMAIN s /\ from(i) # r /\ t[i] = s[from(i)]
    BY <2>1, <2>3, <2>4
  <2>6. ASSUME NEW i \in DOMAIN t, NEW j \in DOMAIN t, from(i) = from(j) PROVE i = j
    BY <2>1, <2>3, <2>4, <2>6
  <2> HIDE DEF from
  <2>7. \A i, j \in DOMAIN t : t[i] = t[j] => i = j
    BY <2>5, <2>6
  <2>8. \A i \in DOMAIN t : t[i] # e /\ \E j \in DOMAIN s : t[i] = s[j]
    BY <2>1, <2>5
  <2> QED BY <2>2, <2>4, <2>7, <2>8
<1> QED BY <1>1, <1>2

LEMMA UnlinkGood ==
    ASSUME NEW m, NEW e \in Easy, Good(m, {e}, {})
    PROVE  LET n == [m EXCEPT !.pending = Without(m.pending, e)]
           IN  Good(n, {e}, {}) /\ Unlisted(n, e) /\ n.conn = m.conn
<1> DEFINE q == Without(m.pending, e)
           n == [m EXCEPT !.pending = q]
<1>0. m \in Type /\ m.pending \in Seq(Easy) /\ Queue(m)
  BY DEF Good, Type
<1>1. /\ q \in Seq(Easy)
      /\ \A i \in DOMAIN q : q[i] # e /\ \E j \in DOMAIN m.pending : q[i] = m.pending[j]
      /\ \A i, j \in DOMAIN q : q[i] = q[j] => i = j
  BY <1>0, WithoutIs DEF Queue
<1> HIDE DEF q
<1>2. /\ n \in Type /\ n.pending = q
      /\ n.limit = m.limit /\ n.job = m.job /\ n.host = m.host /\ n.conn = m.conn
      /\ n.state = m.state /\ n.held = m.held /\ n.pool = m.pool /\ n.at = m.at
  BY <1>0, <1>1 DEF Type
<1> HIDE DEF n
<1>3. Queue(n)
  <2>1. \A i \in DOMAIN q : m.state[q[i]] = "PENDING"
    BY <1>0, <1>1 DEF Queue
  <2> QED BY <1>1, <1>2, <2>1 DEF Queue
<1>4. Same(m, n)
  BY <1>1, <1>2, <1>3 DEF Same
<1>5. Good(n, {e}, {})
  BY <1>4, SameGood
<1> QED BY <1>1, <1>2, <1>5 DEF Unlisted, n, q

LEMMA RemoveHandleStep ==
    ASSUME NEW e \in Easy, IInv, curl_multi_remove_handle(e)
    PROVE  Good(multi', {}, {})
<1> DEFINE left == IF multi.conn[e] = None THEN {multi} ELSE multi_done(multi, e, TRUE)
           drop(m) == IF m.held[e] = None THEN m ELSE Curl_conncache_remove_conn(m, m.held[e])
<1>1. PICK k \in left :
        LET b == process_pending_handles(drop([k EXCEPT !.pending = Without(k.pending, e)]))
        IN  multi' = [multistate(b, e, "out") EXCEPT !.host[e] = multi.job[e].host]
  BY DEF curl_multi_remove_handle
<1>2. Good(k, {e}, {}) /\ k.conn[e] = None
  <2>1. CASE multi.conn[e] = None
    <3>1. k = multi
      BY <2>1
    <3> QED BY <2>1, <3>1 DEF IInv, Good
  <2>2. CASE multi.conn[e] # None
    <3>1. multi.state[e] \in Active /\ multi.conn[e] \in multi.pool
      BY <2>2 DEF IInv, Good, Placed
    <3>2. AtWork(multi, e)
      BY <3>1, AtRest DEF IInv, Active
    <3>3. k \in multi_done(multi, e, TRUE)
      BY <2>2
    <3>4. AtWork(k, e) /\ k.conn[e] = None
      BY <3>1, <3>2, <3>3, LeaveGood
    <3> QED BY <3>4 DEF AtWork
  <2> QED BY <2>1, <2>2
<1> DEFINE u == [k EXCEPT !.pending = Without(k.pending, e)]
           d == drop(u)
           b == process_pending_handles(d)
           y == multistate(b, e, "out")
<1>3. multi' = [y EXCEPT !.host[e] = multi.job[e].host]
  BY <1>1
<1>4. Good(u, {e}, {}) /\ Unlisted(u, e) /\ u.conn[e] = None
  BY <1>2, UnlinkGood
<1> HIDE DEF u
<1>5. Good(d, {e}, {}) /\ Unlisted(d, e) /\ d.conn[e] = None
  <2>1. CASE u.held[e] = None
    BY <1>4, <2>1
  <2>2. CASE u.held[e] # None
    <3> DEFINE c == u.held[e]
    <3>1. /\ u \in Type /\ c \in u.pool /\ ~InUse(u, c) /\ u.at[c].host \in Host
      BY <1>4, <2>2 DEF Good, HoldsOwn, Shared
    <3>2. d = Curl_conncache_remove_conn(u, c)
      BY <2>2
    <3> HIDE DEF c, d
    <3>3. Shrunk(u, d, {c})
      BY <3>1, <3>2, RemoveShrunk
    <3>4. Good(d, {e}, {} \ {c})
      BY <1>4, <3>1, <3>3, ShrunkGood
    <3>5. {} \ {c} = {}
      OBVIOUS
    <3>6. Good(d, {e}, {})
      BY <3>4, <3>5
    <3> QED BY <1>4, <3>3, <3>6 DEF Shrunk, Unlisted
  <2> QED BY <2>1, <2>2
<1> HIDE DEF d
<1>6. Good(b, {e}, {}) /\ Same(d, b)
  BY <1>5, WokenGood
<1> HIDE DEF b
<1>7. Unlisted(b, e) /\ b.conn[e] = None /\ b \in Type
  BY <1>5, <1>6 DEF Same, Unlisted
<1>8. Fit(b, e, "out") /\ "out" \in State
  BY <1>7 DEF Fit, Active, State
<1>9. Good(y, {}, {})
  BY <1>6, <1>7, <1>8, StateGood
<1>10. y \in Type /\ y.state = [b.state EXCEPT ![e] = "out"]
  BY <1>7, <1>8, StateIs
<1> HIDE DEF y
<1>11. y.state[e] \notin Active /\ y.hops \in Nat /\ multi.job[e].host \in Host
  BY <1>7, <1>10 DEF Type, Active, Job, IInv, Good
<1>12. multi' = [y EXCEPT !.host[e] = multi.job[e].host, !.hops = y.hops]
  BY <1>3, <1>10 DEF Type
<1> QED BY <1>9, <1>11, <1>12, RehostGood

LEMMA PeerClosesStep ==
    ASSUME NEW c \in Conn, IInv, PeerCloses(c)
    PROVE  Good(multi', {}, {})
<1> DEFINE m == multi
           l == [m.at[c] EXCEPT !.alive = FALSE]
           n == Relinked(m, c, l, m.multiuse)
<1>1. c \in m.pool /\ m \in Type /\ Good(m, {}, {})
  BY DEF PeerCloses, IInv, Good
<1>2. /\ m.at[c] \in Link /\ Shared(m, c) /\ Quiet(m, c)
      /\ m.multiuse \in [Host -> {"none", "unknown", "no", "multi"}]
  BY <1>1 DEF Good, Type
<1>3. /\ l \in Link /\ l.host = m.at[c].host /\ l.only = m.at[c].only
      /\ l.mux = m.at[c].mux /\ l.close = m.at[c].close /\ l.owes = m.at[c].owes
  BY <1>2, LinkFields, LinkKeeps
<1>4. multi' = n
  BY <1>1 DEF PeerCloses, Relinked, Type
<1> HIDE DEF l
<1>5. (l.only => ~l.mux /\ ~l.close) /\ (l.owes => m.at[c].owes /\ ~l.mux)
  BY <1>2, <1>3 DEF Shared, Quiet
<1>6. Good(n, {}, {})
  BY <1>1, <1>2, <1>3, <1>5, TweakGood
<1> QED BY <1>4, <1>6

LEMMA InitGood == ASSUME Init PROVE IInv
<1>1. PICK s \in Setups :
        multi = [limit |-> s.limit, job |-> s.job, host |-> [e \in Easy |-> s.job[e].host],
                 state |-> [e \in Easy |-> "out"],
                 conn |-> [e \in Easy |-> None], held |-> [e \in Easy |-> None],
                 pending |-> <<>>, woken |-> {}, hops |-> 0,
                 pool |-> {}, at |-> [c \in Conn |-> Closed],
                 multiuse |-> [h \in Host |-> "none"]]
  BY DEF Init
<1>2. /\ s.limit \in Limit /\ s.job \in [Easy -> Job]
      /\ s.limit.total \in 1 .. Cardinality(Conn)
  BY TransfersAssumption
<1>3. \A e \in Easy : s.job[e].host \in Host
  BY <1>2 DEF Job
<1>4. multi \in Type
  <2>1. <<>> \in Seq(Easy) /\ {} \in SUBSET Easy /\ {} \in SUBSET Conn
    BY EmptySeq
  <2>2. /\ [e \in Easy |-> s.job[e].host] \in [Easy -> Host]
        /\ [e \in Easy |-> "out"] \in [Easy -> State]
        /\ [e \in Easy |-> None] \in [Easy -> Conn \cup {None}]
        /\ [c \in Conn |-> Closed] \in [Conn -> Link]
        /\ [h \in Host |-> "none"] \in [Host -> {"none", "unknown", "no", "multi"}]
    BY <1>3, ClosedIsLink DEF State
  <2> QED BY <1>1, <1>2, <2>1, <2>2 DEF Type
<1>5. Queue(multi)
  BY <1>1 DEF Queue
<1>6. Room(multi)
  <2>1. /\ s.limit.total \in Nat /\ s.limit.host \in Nat /\ Cardinality({}) = 0
    BY <1>2, FS_EmptySet DEF Limit
  <2>2. multi.pool = {} /\ multi.limit = s.limit /\ \A h : Bundle(multi, h) = {}
    BY <1>1 DEF Bundle
  <2> QED BY <1>2, <2>1, <2>2 DEF Room
<1>7. \A e \in Easy : multi.conn[e] = None /\ HoldsOwn(multi, e) /\ Placed(multi, e)
  BY <1>1 DEF HoldsOwn, Placed, Active
<1> QED BY <1>1, <1>4, <1>5, <1>6, <1>7 DEF IInv, Good

LEMMA NextGood == ASSUME IInv, [Next]_vars PROVE IInv'
<1>1. CASE UNCHANGED vars
  BY <1>1 DEF vars, IInv
<1>2. CASE Next
  <2>1. Good(multi', {}, {})
    <3>1. ASSUME NEW c \in Conn, PeerCloses(c) PROVE Good(multi', {}, {})
      BY <3>1, PeerClosesStep
    <3>2. ASSUME NEW e \in Easy,
                 \/ Connect(e) \/ Refuse(e) \/ Resolved(e) \/ Connected(e) \/ Upgraded(e)
                 \/ Finish(e) \/ Redirect(e) \/ Retry(e) \/ Fail(e)
                 \/ \E n \in 0..1 : Settings(e, n)
                 \/ curl_multi_add_handle(e)
                 \/ curl_multi_remove_handle(e)
          PROVE  Good(multi', {}, {})
      <4>1. CASE Connect(e) BY <4>1, ConnectStep
      <4>2. CASE Refuse(e) BY <4>2, RefuseStep
      <4>3. CASE Resolved(e) BY <4>3, ResolvedStep
      <4>4. CASE Connected(e) BY <4>4, ConnectedStep
      <4>5. CASE Upgraded(e) BY <4>5, UpgradedStep
      <4>6. CASE Finish(e) BY <4>6, FinishStep
      <4>7. CASE Redirect(e) BY <4>7, RedirectStep
      <4>8. CASE Retry(e) BY <4>8, RetryStep
      <4>9. CASE Fail(e) BY <4>9, FailStep
      <4>10. CASE \E n \in 0..1 : Settings(e, n) BY <4>10, SettingsStep
      <4>11. CASE curl_multi_add_handle(e) BY <4>11, AddHandleStep
      <4>12. CASE curl_multi_remove_handle(e) BY <4>12, RemoveHandleStep
      <4> QED BY <3>2, <4>1, <4>2, <4>3, <4>4, <4>5, <4>6, <4>7, <4>8, <4>9, <4>10, <4>11, <4>12
    <3> QED BY <1>2, <3>1, <3>2 DEF Next
  <2> QED BY <2>1 DEF IInv
<1> QED BY <1>1, <1>2

\* The invariant of the multi handle, its transfers and its connections.
THEOREM Invariant == Spec => []IInv
  BY InitGood, NextGood, PTL DEF Spec

------------------------------------------------------------------------------
(* The properties that follow.                                               *)

\* However connections are reused, shared, evicted, retried or found dead, there
\* are never more of them than the limits of the application, to a host or in all.
THEOREM LimitsAlwaysKept == Spec => []LimitsKept
<1>1. IInv => LimitsKept
  BY DEF IInv, Good, Room, LimitsKept
<1> QED BY <1>1, Invariant, PTL

\* Two transfers share a connection only where it can multiplex.
THEOREM NeverMixed == Spec => []NotMixed
<1>1. ASSUME IInv, NEW c \in multi.pool, ~multi.at[c].mux
      PROVE  Cardinality(Users(multi, c)) <= 1
  <2>1. \A x, y \in Users(multi, c) : x = y
    BY <1>1 DEF IInv, Good, Shared
  <2>2. CASE Users(multi, c) = {}
    BY <2>2, FS_EmptySet
  <2>3. CASE Users(multi, c) # {}
    <3>1. PICK x : x \in Users(multi, c)
      BY <2>3
    <3>2. Users(multi, c) = {x}
      BY <2>1, <3>1
    <3>3. Cardinality({x}) = 1
      BY FS_Singleton
    <3> QED BY <3>2, <3>3
  <2> QED BY <2>2, <2>3
<1>2. IInv => NotMixed
  BY <1>1 DEF NotMixed
<1> QED BY <1>2, Invariant, PTL

\* No connection is closed, pruned or evicted under a transfer, and none stays with
\* a transfer that waits, goes on to another host or is over.
THEOREM UsedStayOpen == Spec => []UsedAreOpen
<1>1. IInv => UsedAreOpen
  BY DEF IInv, Good, Placed, UsedAreOpen, Active
<1> QED BY <1>1, Invariant, PTL

\* A connection that is kept for the next transfer owes nobody an answer.
THEOREM KeptStayClean == Spec => []KeptIsClean
<1>1. IInv => KeptIsClean
  BY DEF IInv, Good, Quiet, InUse, KeptIsClean
<1> QED BY <1>1, Invariant, PTL

-----------------------------------------------------------------------------
(***************************************************************************)
(* Wake-ups: no transfer waits for ever in the list of those that want a    *)
(* connection, as long as every request can be sent, for every number of    *)
(* handles, hosts, connections, streams and redirects, and all limits.      *)
(***************************************************************************)

------------------------------------------------------------------------------
(* Why a transfer that waits can rely on another one.                        *)

\* Nobody uses a kept connection: it can be had, or the application holds it.
Tidy(m, c) ==
    \/ InUse(m, c)
    \/ m.at[c].up /\ ~m.at[c].close /\ (m.at[c].only => \E x \in Easy : m.held[x] = c)

\* Nothing is known of a bundle only as long as all its connections are in use.
Guess(m, h, D, H) ==
    /\ m.multiuse[h] = "none" => Bundle(m, h) = {}
    /\ m.multiuse[h] = "unknown" =>
          /\ h \in H \/ Bundle(m, h) # {}
          /\ \A c \in Bundle(m, h) \ D : InUse(m, c) \/ m.at[c].only

Known(m, c) ==
    /\ m.at[c].host \in Host
    /\ m.at[c].mux => m.at[c].up /\ m.multiuse[m.at[c].host] # "unknown"

HoldsLast(m, e) == m.held[e] # None => m.state[e] = "MSGSENT"
SendsUp(m, e) == m.state[e] = "PERFORMING" => m.conn[e] \in m.pool /\ m.at[m.conn[e]].up

\* All of it, but for the transfers of E, which are at work, the connections of D,
\* which have just been left or made, and the hosts of H, where room has been made.
Tended(m, E, D, H) ==
    /\ \A c \in m.pool : Known(m, c) /\ (c \in D \/ Tidy(m, c))
    /\ \A h \in Host : Guess(m, h, D, H)
    /\ \A e \in Easy \ E : HoldsLast(m, e) /\ SendsUp(m, e)

AtRestState == {"out", "PENDING", "MSGSENT"}

Awake(m) ==
    m.pending # <<>> => \E x \in Easy : m.state[x] \notin AtRestState \/ m.held[x] # None

\* Another transfer than e is awake, whatever comes of e.
Lit(m, e) == m.pending # <<>> => \E x \in Easy : x # e /\ m.state[x] \notin AtRestState

WInv == IInv /\ Tended(multi, {}, {}, {}) /\ Awake(multi)

------------------------------------------------------------------------------
(* Waking one.                                                               *)

LEMMA WokenUse ==
    ASSUME NEW m \in Type
    PROVE  process_pending_handles(m).multiuse = m.multiuse
  BY DEF process_pending_handles, multistate, Type

LEMMA SameTended ==
    ASSUME NEW m, NEW n, NEW E, NEW D, NEW H, Tended(m, E, D, H), Same(m, n),
           n.multiuse = m.multiuse
    PROVE  Tended(n, E, D, H)
<1>1. \A c : Users(n, c) = Users(m, c)
  BY DEF Users, Same
<1>2. \A h : Bundle(n, h) = Bundle(m, h)
  BY DEF Bundle, Same
<1>3. ASSUME NEW c \in n.pool PROVE Known(n, c) /\ (c \in D \/ Tidy(n, c))
  <2>1. Known(m, c) /\ (c \in D \/ Tidy(m, c))
    BY DEF Tended, Same
  <2> QED BY <1>1, <2>1 DEF Known, Tidy, InUse, Same
<1>4. ASSUME NEW h \in Host PROVE Guess(n, h, D, H)
  <2>1. Guess(m, h, D, H)
    BY DEF Tended
  <2> QED BY <1>1, <1>2, <2>1 DEF Guess, InUse, Same
<1>5. ASSUME NEW e \in Easy \ E PROVE HoldsLast(n, e) /\ SendsUp(n, e)
  <2>1. HoldsLast(m, e) /\ SendsUp(m, e)
    BY DEF Tended
  <2> QED BY <2>1 DEF HoldsLast, SendsUp, Same
<1> QED BY <1>3, <1>4, <1>5 DEF Tended

\* Who is woken is not the one at work.
LEMMA WokenLit ==
    ASSUME NEW m \in Type, NEW e \in Easy, Unlisted(m, e)
    PROVE  Lit(process_pending_handles(m), e)
<1> DEFINE n == process_pending_handles(m)
<1>0. m.pending \in Seq(Easy) /\ m.state \in [Easy -> State]
  BY DEF Type
<1>1. CASE m.pending = <<>>
  BY <1>1 DEF process_pending_handles, Lit
<1>2. CASE m.pending # <<>>
  <2> DEFINE w == Head(m.pending)
  <2>1. w \in Easy /\ w = m.pending[1] /\ 1 \in DOMAIN m.pending
    <3>1. w \in Easy /\ w = m.pending[1] /\ Len(m.pending) \in Nat \ {0}
      BY <1>0, <1>2, HeadTailProperties, EmptySeq, LenProperties
    <3>2. DOMAIN m.pending = 1 .. Len(m.pending)
      BY <1>0, LenProperties
    <3> QED BY <3>1, <3>2
  <2>2. w # e
    BY <2>1 DEF Unlisted
  <2> HIDE DEF w
  <2>3. n.state = [m.state EXCEPT ![w] = "CONNECT"]
    BY <1>2, <2>1 DEF process_pending_handles, multistate, Type, w
  <2>4. n.state[w] = "CONNECT"
    BY <1>0, <2>1, <2>3
  <2> HIDE DEF n
  <2> QED BY <2>1, <2>2, <2>4 DEF Lit, AtRestState, n
<1> QED BY <1>1, <1>2

LEMMA StillLit ==
    ASSUME NEW m, NEW n, NEW e, Lit(m, e),
           \A x \in Easy : \/ n.state[x] = m.state[x]
                           \/ m.state[x] = "PENDING" /\ n.state[x] = "CONNECT",
           m.pending = <<>> => n.pending = <<>>
    PROVE  Lit(n, e)
  BY DEF Lit, AtRestState

\* e is at work, keeps no connection for the application, and all else is tended.
Busy(m, e) == AtWork(m, e) /\ Tended(m, {e}, {}, {}) /\ m.held[e] = None

LEMMA WokenBusy ==
    ASSUME NEW m, NEW e, Busy(m, e)
    PROVE  LET n == process_pending_handles(m)
           IN  Busy(n, e) /\ Same(m, n) /\ Lit(n, e) /\ n.multiuse = m.multiuse
               /\ n.state[e] = m.state[e]
<1> DEFINE n == process_pending_handles(m)
<1>1. AtWork(n, e) /\ Same(m, n) /\ n.state[e] = m.state[e]
  BY WokenAtWork DEF Busy
<1>2. m \in Type /\ e \in Easy /\ Unlisted(m, e)
  BY AtWorkUnlisted DEF Busy, AtWork, Good
<1>3. n.multiuse = m.multiuse /\ Lit(n, e)
  BY <1>2, WokenUse, WokenLit
<1> HIDE DEF n
<1>4. Tended(n, {e}, {}, {}) /\ n.held[e] = None
  BY <1>1, <1>3, SameTended DEF Busy, Same
<1> QED BY <1>1, <1>3, <1>4 DEF Busy, n

LEMMA NowBusy ==
    ASSUME NEW m, NEW e, Busy(m, e)
    PROVE  LET n == Now(m, e)
           IN  Busy(n, e) /\ Same(m, n) /\ n.multiuse = m.multiuse
               /\ n.state[e] = m.state[e]
<1>1. Same(m, m)
  BY Woken DEF Busy, AtWork, Good
<1> QED BY <1>1, WokenBusy DEF Now

------------------------------------------------------------------------------
(* Closing connections that nobody uses.                                     *)

LEMMA ShrunkTended ==
    ASSUME NEW m \in Type, NEW n, NEW E, NEW D, NEW H, NEW cs,
           Tended(m, E, D, H), Shrunk(m, n, cs), \A c \in cs : ~InUse(m, c),
           \A h \in Host : \/ n.multiuse[h] = m.multiuse[h]
                           \/ n.multiuse[h] = "none" /\ Bundle(m, h) \subseteq cs,
           \A h \in Host : n.multiuse[h] = "unknown" => h \in H \/ ~(Bundle(m, h) \subseteq cs)
    PROVE  Tended(n, E, D \ cs, H)
<1>1. \A c : Users(n, c) = Users(m, c)
  BY DEF Users, Shrunk
<1>2. \A h : Bundle(n, h) = Bundle(m, h) \ cs
  BY ShrunkRoom
<1>3. ASSUME NEW c \in n.pool PROVE Known(n, c) /\ (c \in D \ cs \/ Tidy(n, c))
  <2>1. c \in m.pool /\ c \notin cs /\ n.at[c] = m.at[c]
    BY DEF Shrunk
  <2>2. Known(m, c) /\ (c \in D \/ Tidy(m, c))
    BY <2>1 DEF Tended
  <2>3. Known(n, c)
    BY <2>1, <2>2 DEF Known
  <2>4. \A x \in Easy : m.held[x] = c => n.held[x] = c
    BY <2>1 DEF Shrunk
  <2> QED BY <1>1, <2>1, <2>2, <2>3, <2>4 DEF Tidy, InUse
<1>4. ASSUME NEW h \in Host PROVE Guess(n, h, D \ cs, H)
  <2>1. Guess(m, h, D, H) /\ \A c \in Bundle(n, h) : n.at[c] = m.at[c]
    BY DEF Tended, Bundle, Shrunk
  <2> QED BY <1>1, <1>2, <2>1 DEF Guess, InUse
<1>5. ASSUME NEW e \in Easy \ E PROVE HoldsLast(n, e) /\ SendsUp(n, e)
  <2>1. HoldsLast(m, e) /\ SendsUp(m, e)
    BY DEF Tended
  <2>2. m.conn[e] \notin cs
    BY DEF InUse, Users
  <2> QED BY <2>1, <2>2 DEF HoldsLast, SendsUp, Shrunk
<1> QED BY <1>3, <1>4, <1>5 DEF Tended

LEMMA ExtractTended ==
    ASSUME NEW m \in Type, NEW E, NEW D, NEW H, Tended(m, E, D, H), NEW c \in m.pool,
           ~InUse(m, c), \A h \in Host : m.multiuse[h] = "unknown" /\ h \notin H => c \notin Bundle(m, h)
    PROVE  /\ Shrunk(m, Extract(m, c), {c}) /\ Tended(Extract(m, c), E, D \ {c}, H)
           /\ Extract(m, c).multiuse = m.multiuse
<1> DEFINE n == Extract(m, c)
<1>1. Shrunk(m, n, {c})
  BY ExtractShrunk
<1>2. n.multiuse = m.multiuse
  BY DEF Extract, Type
<1> HIDE DEF n
<1>3. ASSUME NEW h \in Host, n.multiuse[h] = "unknown", h \notin H PROVE ~(Bundle(m, h) \subseteq {c})
  <2>1. Bundle(m, h) # {} /\ c \notin Bundle(m, h)
    BY <1>2, <1>3 DEF Tended, Guess
  <2> QED BY <2>1
<1>4. Tended(n, E, D \ {c}, H)
  BY <1>1, <1>2, <1>3, ShrunkTended
<1> QED BY <1>1, <1>2, <1>4 DEF n

\* What return_conn may give up leaves no bundle empty of which nothing is known.
LEMMA ReturnTended ==
    ASSUME NEW m \in Type, NEW E, NEW D, Tended(m, E, D, {}), Idle(m) \cap D = {},
           NEW n \in Curl_conncache_return_conn(m)
    PROVE  Tended(n, E, D, {})
<1>1. CASE n = m
  BY <1>1
<1>2. ASSUME NEW c \in Idle(m), n = Extract(m, c) PROVE Tended(n, E, D, {})
  <2>1. c \in m.pool /\ ~InUse(m, c) /\ ~m.at[c].only /\ c \notin D
    BY <1>2 DEF Idle
  <2>2. ASSUME NEW h \in Host, m.multiuse[h] = "unknown" PROVE c \notin Bundle(m, h)
    BY <2>1, <2>2 DEF Tended, Guess
  <2>3. Tended(n, E, D \ {c}, {})
    BY <1>2, <2>1, <2>2, ExtractTended
  <2>4. D \ {c} = D
    BY <2>1
  <2> QED BY <2>3, <2>4
<1> QED BY <1>1, <1>2 DEF Curl_conncache_return_conn

LEMMA RemoveTended ==
    ASSUME NEW m \in Type, NEW E, NEW D, Tended(m, E, D, {}), NEW c \in m.pool, ~InUse(m, c)
    PROVE  Tended(Curl_conncache_remove_conn(m, c), E, D \ {c}, {})
<1> DEFINE h == m.at[c].host
           x == Extract(m, c)
           n == Curl_conncache_remove_conn(m, c)
<1>1. h \in Host /\ c \in Bundle(m, h)
  BY DEF Tended, Known, Bundle
<1>2. Shrunk(m, n, {c})
  BY <1>1, RemoveShrunk
<1>3. x.multiuse = m.multiuse /\ m.multiuse \in [Host -> {"none", "unknown", "no", "multi"}]
  BY DEF Extract, Type
<1>4. x \in Type
  BY ExtractShrunk DEF Shrunk
<1>5. /\ Bundle(m, h) = {c} => n.multiuse = [m.multiuse EXCEPT ![h] = "none"]
      /\ Bundle(m, h) # {c} => n.multiuse = m.multiuse
  <2> HIDE DEF x
  <2> QED BY <1>3, <1>4 DEF Curl_conncache_remove_conn, x, Type
<1> HIDE DEF n, h, x
<1>6. ASSUME NEW g \in Host
      PROVE  /\ \/ n.multiuse[g] = m.multiuse[g]
                \/ n.multiuse[g] = "none" /\ Bundle(m, g) \subseteq {c}
             /\ n.multiuse[g] = "unknown" => ~(Bundle(m, g) \subseteq {c})
  <2>1. CASE g = h
    BY <1>1, <1>3, <1>5, <2>1
  <2>2. CASE g # h
    <3>1. n.multiuse[g] = m.multiuse[g] /\ c \notin Bundle(m, g)
      BY <1>1, <1>3, <1>5, <2>2 DEF Bundle
    <3>2. n.multiuse[g] = "unknown" => Bundle(m, g) # {}
      BY <3>1 DEF Tended, Guess
    <3> QED BY <3>1, <3>2
  <2> QED BY <2>1, <2>2
<1>7. Tended(n, E, D \ {c}, {})
  BY <1>2, <1>6, ShrunkTended
<1> QED BY <1>7 DEF n

LEMMA CloseAllTended ==
    ASSUME NEW m \in Type, NEW E, NEW D, Tended(m, E, D, {}), NEW cs \in SUBSET m.pool,
           \A c \in cs : ~InUse(m, c)
    PROVE  Tended(CloseAll(m, cs), E, D \ cs, {})
<1> DEFINE gone == {h \in Host : Bundle(m, h) # {} /\ Bundle(m, h) \subseteq cs}
           u == [h \in Host |-> IF h \in gone THEN "none" ELSE m.multiuse[h]]
           n == CloseAll(m, cs)
<1>1. Shrunk(m, n, cs)
  BY CloseAllShrunk
<1>2. n.multiuse = u
  BY DEF CloseAll, Type
<1> HIDE DEF n
<1>3. ASSUME NEW h \in Host
      PROVE  /\ \/ n.multiuse[h] = m.multiuse[h]
                \/ n.multiuse[h] = "none" /\ Bundle(m, h) \subseteq cs
             /\ n.multiuse[h] = "unknown" => ~(Bundle(m, h) \subseteq cs)
  <2>1. m.multiuse[h] = "unknown" => Bundle(m, h) # {}
    BY DEF Tended, Guess
  <2> QED BY <1>2, <2>1
<1>4. Tended(n, E, D \ cs, {})
  BY <1>1, <1>3, ShrunkTended
<1> QED BY <1>4 DEF n

------------------------------------------------------------------------------
(* What multi_done does to the transfer e and its connection.                *)

LEMMA DetachTended ==
    ASSUME NEW m \in Type, NEW e \in Easy, Tended(m, {e}, {}, {}), m.conn[e] \in m.pool
    PROVE  LET n == Curl_detach_connection(m, e)
           IN  Tended(n, {e}, {m.conn[e]}, {}) /\ n.multiuse = m.multiuse
<1> DEFINE n == Curl_detach_connection(m, e)
           c == m.conn[e]
<1>1. /\ n \in Type /\ n.conn = [m.conn EXCEPT ![e] = None]
      /\ n.limit = m.limit /\ n.job = m.job /\ n.host = m.host /\ n.state = m.state
      /\ n.pending = m.pending /\ n.held = m.held /\ n.pool = m.pool /\ n.at = m.at
  BY DetachIs
<1>2. n.multiuse = m.multiuse
  BY DEF Curl_detach_connection, Type
<1>3. m.conn \in [Easy -> Conn \cup {None}] /\ m.pool \subseteq Conn
  BY DEF Type
<1> HIDE DEF n
<1>4. ASSUME NEW d \in m.pool, d # c PROVE Users(n, d) = Users(m, d)
  <2>1. None # d
    BY <1>3, TransfersAssumption
  <2> QED BY <1>1, <1>3, <1>4, <2>1 DEF Users
<1>5. ASSUME NEW d \in n.pool PROVE Known(n, d) /\ (d \in {c} \/ Tidy(n, d))
  <2>1. Known(m, d) /\ Tidy(m, d)
    BY <1>1 DEF Tended
  <2>2. Known(n, d)
    BY <1>1, <1>2, <2>1 DEF Known
  <2>3. d # c => Tidy(n, d)
    BY <1>1, <1>4, <2>1 DEF Tidy, InUse
  <2> QED BY <2>2, <2>3
<1>6. ASSUME NEW h \in Host PROVE Guess(n, h, {c}, {})
  <2>1. Guess(m, h, {}, {}) /\ Bundle(n, h) = Bundle(m, h) /\ Bundle(n, h) \subseteq m.pool
    BY <1>1 DEF Tended, Bundle
  <2> QED BY <1>1, <1>2, <1>4, <2>1 DEF Guess, InUse
<1>7. ASSUME NEW x \in Easy \ {e} PROVE HoldsLast(n, x) /\ SendsUp(n, x)
  <2>1. HoldsLast(m, x) /\ SendsUp(m, x) /\ n.conn[x] = m.conn[x]
    BY <1>1, <1>3 DEF Tended
  <2> QED BY <1>1, <2>1 DEF HoldsLast, SendsUp
<1> QED BY <1>2, <1>5, <1>6, <1>7 DEF Tended, n

\* Either the connection is closed, or it is up and its bundle is known.
Leavable(m, c, premature) ==
    \/ m.at[c].close
    \/ premature /\ ~m.at[c].mux
    \/ m.at[c].up /\ (m.at[c].only \/ m.multiuse[m.at[c].host] # "unknown")

\* The connection that CURLOPT_CONNECT_ONLY is about to keep for the application.
ToHold(m, c, premature) == {x \in {c} : m.at[c].only /\ ~premature}

LEMMA DoneTended ==
    ASSUME NEW m, NEW e, Busy(m, e), NEW c, c = m.conn[e], c \in m.pool,
           NEW premature \in BOOLEAN, NEW n \in multi_done(m, e, premature),
           m.at[c].owes => m.at[c].close \/ premature,
           Leavable(m, c, premature)
    PROVE  /\ AtWork(n, e) /\ Left(m, n, e) /\ Lit(n, e) /\ n.held[e] = None
           /\ Tended(n, {e}, ToHold(m, c, premature), {})
<1> DEFINE p == process_pending_handles(m)
           left == Curl_detach_connection(p, e)
           K == ToHold(m, c, premature)
<1>1. AtWork(n, e) /\ Left(m, n, e)
  BY DoneGood DEF Busy
<1>2. /\ Busy(p, e) /\ Same(m, p) /\ Lit(p, e) /\ p.multiuse = m.multiuse
      /\ p.state[e] = m.state[e]
  BY WokenBusy
<1>3. e \in Easy /\ p \in Type /\ p.conn[e] = c /\ c \in p.pool /\ p.at = m.at
  BY <1>2 DEF Busy, AtWork, Good, Same
<1> HIDE DEF p
<1>4. Tended(left, {e}, {c}, {}) /\ left.multiuse = m.multiuse
  BY <1>2, <1>3, DetachTended DEF Busy
<1>5. /\ left \in Type /\ left.conn = [p.conn EXCEPT ![e] = None]
      /\ left.state = p.state /\ left.held = p.held
      /\ left.pool = p.pool /\ left.at = m.at /\ left.pending = p.pending
  BY <1>3, DetachIs
<1>6. n \in IF InUse(left, c) THEN {left}
            ELSE IF m.at[c].close \/ (premature /\ ~m.at[c].mux)
            THEN {Curl_conncache_remove_conn(left, c)}
            ELSE Curl_conncache_return_conn(left)
  BY DEF multi_done, p
<1>7. Known(left, c)
  BY <1>3, <1>4, <1>5 DEF Tended
<1> HIDE DEF left
<1>8. ASSUME c \in K \/ Tidy(left, c),
             m.multiuse[m.at[c].host] = "unknown" => c \in K \/ InUse(left, c) \/ m.at[c].only
      PROVE  Tended(left, {e}, K, {})
  <2>1. ASSUME NEW h \in Host PROVE Guess(left, h, K, {})
    <3>1. Guess(left, h, {c}, {})
      BY <1>4 DEF Tended
    <3>2. c \in Bundle(left, h) => m.at[c].host = h
      BY <1>5 DEF Bundle
    <3> QED BY <1>4, <1>5, <1>8, <3>1, <3>2 DEF Guess
  <2> HIDE DEF K
  <2> QED BY <1>4, <1>8, <2>1 DEF Tended
<1>9. Lit(left, e) /\ left.held[e] = None
  <2>1. left.held[e] = None
    BY <1>2, <1>5 DEF Busy
  <2> QED BY <1>2, <1>5, <2>1 DEF Lit
<1>10. CASE InUse(left, c)
  BY <1>6, <1>8, <1>9, <1>10, <1>1 DEF Tidy
<1>11. CASE ~InUse(left, c) /\ (m.at[c].close \/ (premature /\ ~m.at[c].mux))
  <2>1. n = Curl_conncache_remove_conn(left, c)
    BY <1>6, <1>11
  <2>2. Tended(n, {e}, {c} \ {c}, {})
    BY <1>3, <1>4, <1>5, <1>11, <2>1, RemoveTended
  <2>3. Shrunk(left, n, {c})
    BY <1>3, <1>5, <1>7, <2>1, RemoveShrunk DEF Known
  <2>4. Lit(n, e) /\ n.held[e] = None
    BY <1>3, <1>9, <2>3 DEF Lit, Shrunk
  <2>5. K = {}
    <3>1. m.at[c].only => ~m.at[c].close /\ ~m.at[c].mux
      BY DEF Busy, AtWork, Good, Shared
    <3> QED BY <1>11, <3>1 DEF ToHold
  <2>6. {c} \ {c} = {}
    OBVIOUS
  <2> QED BY <1>1, <2>2, <2>4, <2>5, <2>6
<1>12. CASE ~InUse(left, c) /\ ~m.at[c].close /\ ~(premature /\ ~m.at[c].mux)
  <2>1. n \in Curl_conncache_return_conn(left)
    BY <1>6, <1>12
  <2>2. m.at[c].up /\ (m.at[c].only \/ m.multiuse[m.at[c].host] # "unknown")
    BY <1>12 DEF Leavable
  <2>3. m.at[c].only => ~premature
    <3>1. m.at[c].only => ~m.at[c].mux
      BY DEF Busy, AtWork, Good, Shared
    <3> QED BY <1>12, <3>1
  <2>4. Tended(left, {e}, K, {})
    BY <1>5, <1>8, <1>12, <2>2, <2>3 DEF Tidy, ToHold
  <2>5. Idle(left) \cap K = {}
    BY <1>5 DEF Idle, ToHold
  <2> HIDE DEF K
  <2>6. Tended(n, {e}, K, {})
    BY <1>5, <2>1, <2>4, <2>5, ReturnTended
  <2>7. n = left \/ \E d \in Idle(left) : Shrunk(left, n, {d})
    BY <1>5, <2>1, ReturnShrunk
  <2>8. Lit(n, e) /\ n.held[e] = None
    BY <1>3, <1>9, <2>7 DEF Lit, Shrunk
  <2> QED BY <1>1, <2>6, <2>8 DEF K
<1> QED BY <1>10, <1>11, <1>12

------------------------------------------------------------------------------
(* A transfer that is at work comes to rest in another state.                *)

LEMMA StateTended ==
    ASSUME NEW m \in Type, NEW e \in Easy, Tended(m, {e}, {}, {}), NEW s \in State,
           m.held[e] = None \/ s = "MSGSENT",
           s = "PERFORMING" => m.conn[e] \in m.pool /\ m.at[m.conn[e]].up
    PROVE  LET n == multistate(m, e, s)
           IN  Tended(n, {}, {}, {}) /\ n.multiuse = m.multiuse
<1> DEFINE n == multistate(m, e, s)
<1>1. /\ n \in Type /\ n.state = [m.state EXCEPT ![e] = s]
      /\ n.conn = m.conn /\ n.held = m.held /\ n.pool = m.pool /\ n.at = m.at
  BY StateIs
<1>2. n.multiuse = m.multiuse
  BY DEF multistate, Type
<1> HIDE DEF n
<1>3. n.state[e] = s /\ \A x \in Easy : x # e => n.state[x] = m.state[x]
  BY <1>1 DEF Type
<1>4. (\A c : Users(n, c) = Users(m, c)) /\ \A h : Bundle(n, h) = Bundle(m, h)
  BY <1>1 DEF Users, Bundle
<1>5. ASSUME NEW c \in n.pool PROVE Known(n, c) /\ Tidy(n, c)
  <2>1. Known(m, c) /\ Tidy(m, c)
    BY <1>1 DEF Tended
  <2> QED BY <1>1, <1>2, <1>4, <2>1 DEF Known, Tidy, InUse
<1>6. ASSUME NEW h \in Host PROVE Guess(n, h, {}, {})
  <2>1. Guess(m, h, {}, {})
    BY DEF Tended
  <2> QED BY <1>1, <1>2, <1>4, <2>1 DEF Guess, InUse
<1>7. ASSUME NEW x \in Easy PROVE HoldsLast(n, x) /\ SendsUp(n, x)
  <2>1. CASE x = e
    BY <1>1, <1>3, <2>1 DEF HoldsLast, SendsUp
  <2>2. CASE x # e
    <3>1. HoldsLast(m, x) /\ SendsUp(m, x)
      BY <2>2 DEF Tended
    <3> QED BY <1>1, <1>3, <2>2, <3>1 DEF HoldsLast, SendsUp
  <2> QED BY <2>1, <2>2
<1> QED BY <1>2, <1>5, <1>6, <1>7 DEF Tended, n

\* The connection is left, held by e, and all is tended.
LEMMA HoldTended ==
    ASSUME NEW m \in Type, NEW e \in Easy, NEW c \in m.pool, Tended(m, {e}, {c}, {}),
           m.held[e] = None, m.at[c].up, ~m.at[c].close, m.at[c].only
    PROVE  LET n == [m EXCEPT !.held[e] = c]
           IN  n \in Type /\ Tended(n, {e}, {}, {}) /\ n.held[e] = c
<1> DEFINE n == [m EXCEPT !.held[e] = c]
           held == [m.held EXCEPT ![e] = c]
<1>1. /\ n = [m EXCEPT !.held = held] /\ held \in [Easy -> Conn \cup {None}] /\ held[e] = c
      /\ \A x \in Easy : x # e => held[x] = m.held[x]
  BY DEF Type
<1> HIDE DEF n, held
<1>2. /\ n \in Type /\ n.held = held /\ n.conn = m.conn /\ n.multiuse = m.multiuse
      /\ n.state = m.state /\ n.pool = m.pool /\ n.at = m.at
  BY <1>1 DEF Type
<1>3. n.held[e] = c /\ \A x \in Easy : x # e => n.held[x] = m.held[x]
  BY <1>1, <1>2
<1>4. (\A d : Users(n, d) = Users(m, d)) /\ \A h : Bundle(n, h) = Bundle(m, h)
  BY <1>2 DEF Users, Bundle
<1>5. ASSUME NEW d \in n.pool PROVE Known(n, d) /\ Tidy(n, d)
  <2>1. Known(m, d) /\ (d = c \/ Tidy(m, d)) /\ d # None
    BY <1>2, TransfersAssumption DEF Tended, Type
  <2>2. Known(n, d)
    BY <1>2, <2>1 DEF Known
  <2>3. CASE d = c
    BY <1>2, <1>3, <2>2, <2>3 DEF Tidy
  <2>4. CASE d # c
    <3>1. \A x \in Easy : m.held[x] = d => n.held[x] = d
      BY <1>3, <2>1
    <3> QED BY <1>2, <1>4, <2>1, <2>2, <2>4, <3>1 DEF Tidy, InUse
  <2> QED BY <2>2, <2>3, <2>4
<1>6. ASSUME NEW h \in Host PROVE Guess(n, h, {}, {})
  <2>1. Guess(m, h, {c}, {})
    BY DEF Tended
  <2> QED BY <1>2, <1>4, <2>1 DEF Guess, InUse
<1>7. ASSUME NEW x \in Easy \ {e} PROVE HoldsLast(n, x) /\ SendsUp(n, x)
  <2>1. HoldsLast(m, x) /\ SendsUp(m, x)
    BY DEF Tended
  <2> QED BY <1>2, <1>3, <2>1 DEF HoldsLast, SendsUp
<1> QED BY <1>2, <1>3, <1>5, <1>6, <1>7 DEF Tended, n

\* A connection, or what is known of its bundle, changes.
LEMMA RelinkTended ==
    ASSUME NEW m \in Type, NEW E, NEW D, Tended(m, E, D, {}), NEW c \in m.pool, NEW l \in Link,
           NEW u \in [Host -> {"none", "unknown", "no", "multi"}],
           l.host = m.at[c].host, l.only = m.at[c].only, m.at[c].up => l.up,
           l.mux => l.up /\ u[m.at[c].host] # "unknown",
           l.close => m.at[c].close \/ InUse(m, c) \/ c \in D,
           \A h \in Host : u[h] = m.multiuse[h] \/ u[h] \in {"no", "multi"}
    PROVE  LET n == Relinked(m, c, l, u)
           IN  Tended(n, E, D, {}) /\ n.multiuse = u /\ n.held = m.held
<1> DEFINE n == Relinked(m, c, l, u)
<1>0. c \in Conn /\ m.pool \subseteq Conn
  BY DEF Type
<1>1. /\ n \in Type /\ n.at[c] = l
      /\ \A d \in Conn : d # c => n.at[d] = m.at[d]
      /\ n.conn = m.conn /\ n.state = m.state /\ n.held = m.held /\ n.pool = m.pool
  BY <1>0, RelinkedIs
<1>2. n.multiuse = u
  BY DEF Relinked, Type
<1> HIDE DEF n
<1>3. \A d : Users(n, d) = Users(m, d)
  BY <1>1 DEF Users
<1>4. \A d \in m.pool : /\ n.at[d].host = m.at[d].host /\ n.at[d].only = m.at[d].only
                        /\ m.at[d].up => n.at[d].up
  BY <1>0, <1>1
<1>5. \A h : Bundle(n, h) = Bundle(m, h)
  BY <1>1, <1>4 DEF Bundle
<1>6. ASSUME NEW d \in n.pool PROVE Known(n, d) /\ (d \in D \/ Tidy(n, d))
  <2>1. d \in m.pool /\ Known(m, d) /\ (d \in D \/ Tidy(m, d))
    BY <1>1 DEF Tended
  <2>2. CASE d = c
    BY <1>1, <1>2, <1>3, <2>1, <2>2 DEF Known, Tidy, InUse
  <2>3. CASE d # c
    <3>1. n.at[d] = m.at[d]
      BY <1>0, <1>1, <2>1, <2>3
    <3>2. Known(n, d)
      BY <1>2, <2>1, <3>1 DEF Known
    <3> QED BY <1>1, <1>3, <2>1, <3>1, <3>2 DEF Tidy, InUse
  <2> QED BY <2>2, <2>3
<1>7. ASSUME NEW h \in Host PROVE Guess(n, h, D, {})
  <2>1. Guess(m, h, D, {}) /\ Bundle(m, h) \subseteq m.pool
    BY DEF Tended, Bundle
  <2> QED BY <1>2, <1>3, <1>4, <1>5, <2>1 DEF Guess, InUse
<1>8. ASSUME NEW x \in Easy \ E PROVE HoldsLast(n, x) /\ SendsUp(n, x)
  <2>1. HoldsLast(m, x) /\ SendsUp(m, x)
    BY DEF Tended
  <2> QED BY <1>1, <1>4, <2>1 DEF HoldsLast, SendsUp
<1> QED BY <1>1, <1>2, <1>6, <1>7, <1>8 DEF Tended, n

------------------------------------------------------------------------------
(* A transfer gets a connection and sends its request.                       *)

LEMMA AttachTended ==
    ASSUME NEW m \in Type, NEW e \in Easy, NEW c \in m.pool, Tended(m, {e}, {c}, {}),
           m.conn[e] = None
    PROVE  LET n == Curl_attach_connection(m, e, c)
           IN  Tended(n, {e}, {}, {}) /\ n.multiuse = m.multiuse /\ n.held = m.held
<1> DEFINE n == Curl_attach_connection(m, e, c)
<1>0. c \in Conn /\ m.pool \subseteq Conn /\ m.conn \in [Easy -> Conn \cup {None}]
  BY DEF Type
<1>1. /\ n \in Type /\ n.conn = [m.conn EXCEPT ![e] = c] /\ n.conn[e] = c
      /\ n.state = m.state /\ n.held = m.held /\ n.pool = m.pool /\ n.at = m.at
      /\ n.multiuse = m.multiuse
  BY <1>0, AttachIs
<1> HIDE DEF n
<1>2. InUse(n, c) /\ \A d \in m.pool : InUse(m, d) => InUse(n, d)
  <2>1. \A d \in m.pool : Users(m, d) \subseteq Users(n, d)
    <3>1. \A d \in m.pool : d # None
      BY <1>0, TransfersAssumption
    <3> QED BY <1>0, <1>1, <3>1 DEF Users
  <2>2. e \in Users(n, c)
    BY <1>1 DEF Users
  <2> QED BY <2>1, <2>2 DEF InUse
<1>3. ASSUME NEW d \in n.pool PROVE Known(n, d) /\ Tidy(n, d)
  <2>1. d \in m.pool /\ Known(m, d) /\ (d = c \/ Tidy(m, d))
    BY <1>1 DEF Tended
  <2> QED BY <1>1, <1>2, <2>1 DEF Known, Tidy
<1>4. ASSUME NEW h \in Host PROVE Guess(n, h, {}, {})
  <2>1. Guess(m, h, {c}, {}) /\ Bundle(n, h) = Bundle(m, h) /\ Bundle(m, h) \subseteq m.pool
    BY <1>1 DEF Tended, Bundle
  <2> QED BY <1>1, <1>2, <2>1 DEF Guess
<1>5. ASSUME NEW x \in Easy \ {e} PROVE HoldsLast(n, x) /\ SendsUp(n, x)
  <2>1. HoldsLast(m, x) /\ SendsUp(m, x) /\ n.conn[x] = m.conn[x]
    BY <1>0, <1>1 DEF Tended
  <2> QED BY <1>1, <2>1 DEF HoldsLast, SendsUp
<1> QED BY <1>1, <1>3, <1>4, <1>5 DEF Tended, n

\* e comes to rest, another one is awake.
LEMMA RestWakes ==
    ASSUME NEW m \in Type, NEW e \in Easy, Tended(m, {e}, {}, {}), NEW s \in State,
           m.held[e] = None \/ s = "MSGSENT",
           s = "PERFORMING" => m.conn[e] \in m.pool /\ m.at[m.conn[e]].up,
           Lit(m, e) \/ s \notin AtRestState \/ m.held[e] # None
    PROVE  LET n == multistate(m, e, s)
           IN  /\ Tended(n, {}, {}, {}) /\ Awake(n) /\ n.multiuse = m.multiuse
               /\ n.held = m.held /\ n.pending = m.pending
               /\ n.state = [m.state EXCEPT ![e] = s]
<1> DEFINE n == multistate(m, e, s)
<1>0. m.state \in [Easy -> State]
  BY DEF Type
<1>1. Tended(n, {}, {}, {}) /\ n.multiuse = m.multiuse
  BY StateTended
<1>2. n.state = [m.state EXCEPT ![e] = s] /\ n.pending = m.pending /\ n.held = m.held
  BY StateIs
<1> HIDE DEF n
<1>3. n.state[e] = s /\ \A x \in Easy : x # e => n.state[x] = m.state[x]
  BY <1>0, <1>2
<1>4. Awake(n)
  BY <1>0, <1>2, <1>3 DEF Awake, Lit
<1> QED BY <1>1, <1>2, <1>4 DEF n

LEMMA FailedWakes ==
    ASSUME NEW m, NEW e, Busy(m, e)
    PROVE  Tended(Failed(m, e), {}, {}, {}) /\ Awake(Failed(m, e))
<1> DEFINE n == process_pending_handles(m)
<1>1. Busy(n, e) /\ Lit(n, e)
  BY WokenBusy
<1> HIDE DEF n
<1>2. Tended(Completed(n, e), {}, {}, {}) /\ Awake(Completed(n, e))
  BY <1>1, RestWakes DEF Completed, Busy, State, AtWork, Good
<1> QED BY <1>2 DEF Failed, n

LEMMA AwakeSelf ==
    ASSUME NEW n, NEW e \in Easy, n.state[e] \notin AtRestState
    PROVE  Awake(n)
  BY DEF Awake

\* On a connection that is up, with nothing under way.
Set(m, e) == Busy(m, e) /\ Ready(m, e) /\ m.at[m.conn[e]].up

LEMMA DoWakes ==
    ASSUME Faults = {}, NEW m, NEW e, Set(m, e), NEW n \in Do(m, e)
    PROVE  Tended(n, {}, {}, {}) /\ Awake(n)
<1> DEFINE c == m.conn[e]
<1>0. /\ e \in Easy /\ m \in Type /\ c \in Conn /\ c \in m.pool /\ Good(m, {e}, {}) /\ c # None
      /\ AtWork(m, e) /\ Tended(m, {e}, {}, {}) /\ m.held[e] = None /\ m.at[c].up
      /\ ~m.at[c].owes /\ Busy(m, e)
  BY TransfersAssumption DEF Set, Busy, Ready, AtWork, Good, Type
<1>1. m.at[c].only = m.job[e].only /\ Shared(m, c)
  BY <1>0 DEF Good, Shared, Users
<1>2. CASE m.job[e].only
  <2>1. PICK x \in multi_done(m, e, FALSE) : n = Completed([x EXCEPT !.held[e] = c], e)
    BY <1>2 DEF Do
  <2> HIDE DEF c
  <2>2. AtWork(x, e) /\ c \in x.pool /\ x.at[c] = m.at[c]
    BY <1>0, <1>1, <1>2, <2>1, DoneGood DEF c
  <2>3. Leavable(m, c, FALSE)
    BY <1>0, <1>1, <1>2 DEF Leavable
  <2>4. /\ x.held[e] = None
        /\ Tended(x, {e}, ToHold(m, c, FALSE), {})
    BY <1>0, <2>1, <2>3, DoneTended DEF c
  <2>5. ToHold(m, c, FALSE) = {c}
    BY <1>1, <1>2 DEF ToHold
  <2>6. Tended(x, {e}, {c}, {})
    BY <2>4, <2>5
  <2> DEFINE h == [x EXCEPT !.held[e] = c]
  <2>7. h \in Type /\ Tended(h, {e}, {}, {}) /\ h.held[e] = c
    <3>1. x \in Type
      BY <2>2 DEF AtWork, Good
    <3>2. x.at[c].up /\ ~x.at[c].close /\ x.at[c].only
      BY <1>0, <1>1, <1>2, <2>2 DEF Shared
    <3> QED BY <1>0, <2>2, <2>4, <2>6, <3>1, <3>2, HoldTended
  <2>8. n = multistate(h, e, "MSGSENT")
    BY <2>1 DEF Completed
  <2> HIDE DEF h
  <2> QED BY <1>0, <2>7, <2>8, RestWakes DEF State
<1>3. CASE ~m.job[e].only /\ n = Sent(m, e)
  <2> DEFINE s == multistate(m, e, "PERFORMING")
  <2>1. /\ Tended(s, {}, {}, {}) /\ s.multiuse = m.multiuse
        /\ s.state = [m.state EXCEPT ![e] = "PERFORMING"]
    BY <1>0, RestWakes DEF State, AtRestState
  <2>2. /\ s \in Type /\ s.pool = m.pool /\ s.at = m.at
    BY <1>0, StateIs DEF State
  <2>3. Good(s, {}, {})
    <3>1. Fit(m, e, "PERFORMING") /\ Unlisted(m, e)
      BY <1>0, <1>3, AtWorkUnlisted DEF Fit, Active, Set, Ready
    <3> QED BY <1>0, <3>1, StateGood DEF State
  <2>4. n = IF m.at[c].mux THEN process_pending_handles(s) ELSE [s EXCEPT !.at[c].owes = TRUE]
    BY <1>3 DEF Sent
  <2>5. s.state[e] = "PERFORMING"
    BY <1>0, <2>1 DEF Type
  <2> HIDE DEF s
  <2>6. CASE m.at[c].mux
    <3>1. n = process_pending_handles(s)
      BY <2>4, <2>6
    <3>2. Same(s, n) /\ n.multiuse = s.multiuse
      BY <2>2, <2>3, <3>1, WokenGood, WokenUse
    <3>3. Tended(n, {}, {}, {}) /\ n.state[e] = "PERFORMING"
      <4>1. Tended(n, {}, {}, {})
        BY <2>1, <3>2, SameTended
      <4> QED BY <1>0, <2>5, <3>2, <4>1 DEF Same
    <3> QED BY <1>0, <3>3, AwakeSelf DEF AtRestState
  <2>7. CASE ~m.at[c].mux
    <3> DEFINE l == [s.at[c] EXCEPT !.owes = TRUE]
    <3>1. s.at[c] \in Link /\ s.multiuse \in [Host -> {"none", "unknown", "no", "multi"}]
      BY <1>0, <2>2 DEF Type
    <3>2. n = Relinked(s, c, l, s.multiuse)
      BY <1>0, <2>2, <2>4, <2>7 DEF Relinked, Type
    <3>3. /\ l \in Link /\ l.host = s.at[c].host /\ l.only = s.at[c].only /\ l.mux = s.at[c].mux
          /\ l.close = s.at[c].close /\ l.up = s.at[c].up
      BY <3>1, LinkFields, LinkKeeps
    <3> HIDE DEF l, c
    <3>4. Tended(n, {}, {}, {})
      <4>1. c \in s.pool
        BY <1>0, <2>2
      <4>2. l.mux => l.up /\ s.multiuse[s.at[c].host] # "unknown"
        BY <2>2, <2>7, <3>3
      <4> QED BY <2>1, <2>2, <3>1, <3>2, <3>3, <4>1, <4>2, RelinkTended
    <3>5. n.state = s.state
      BY <1>0, <2>2, <3>1, <3>2, <3>3, RelinkedIs
    <3> QED BY <1>0, <2>5, <3>4, <3>5, AwakeSelf DEF AtRestState
  <2> QED BY <2>6, <2>7
<1> QED BY <1>2, <1>3 DEF Do

LEMMA ReuseWakes ==
    ASSUME Faults = {}, NEW m, NEW e, Busy(m, e), m.conn[e] = None, m.state[e] = "CONNECT",
           ~m.job[e].only, NEW c \in m.pool, m.at[c].host = m.host[e], ~m.at[c].only,
           m.at[c].mux \/ Users(m, c) = {}, ~m.at[c].owes, m.at[c].up, NEW n \in Reuse(m, e, c)
    PROVE  Tended(n, {}, {}, {}) /\ Awake(n)
<1> DEFINE a == Curl_attach_connection(m, e, c)
           b == [a EXCEPT !.at[c].reuse = TRUE]
           l == [a.at[c] EXCEPT !.reuse = TRUE]
           w == Now(b, e)
<1>0. e \in Easy /\ m \in Type /\ c \in Conn /\ Good(m, {e}, {}) /\ AtWork(m, e)
  BY DEF Busy, AtWork, Good, Type
<1>1. m.at[c].only = m.job[e].only
  BY <1>0 DEF Type, Link, Job, Limit
<1>2. \A x \in Easy : m.held[x] # c
  BY <1>0, TransfersAssumption DEF Good, HoldsOwn
<1>3. AtWork(a, e)
  BY <1>0, <1>1, <1>2, AttachGood
<1>4. /\ a \in Type /\ a.conn = [m.conn EXCEPT ![e] = c] /\ a.conn[e] = c
      /\ a.limit = m.limit /\ a.job = m.job /\ a.host = m.host /\ a.state = m.state
      /\ a.pending = m.pending /\ a.held = m.held /\ a.pool = m.pool /\ a.at = m.at
      /\ a.multiuse = m.multiuse
  BY <1>0, AttachIs
<1>5. Tended(a, {e}, {}, {})
  <2>1. Tended(m, {e}, {c}, {})
    BY DEF Busy, Tended, Guess
  <2> QED BY <1>0, <2>1, AttachTended
<1>6. n \in Do(w, e)
  BY DEF Reuse
<1> HIDE DEF a
<1>7. a.at[c] \in Link /\ a.multiuse \in [Host -> {"none", "unknown", "no", "multi"}]
  BY <1>0, <1>4 DEF Type
<1>8. b = Relinked(a, c, l, a.multiuse)
  BY <1>0, <1>4 DEF Relinked, Type
<1>9. /\ l \in Link /\ l.host = a.at[c].host /\ l.only = a.at[c].only /\ l.mux = a.at[c].mux
      /\ l.close = a.at[c].close /\ l.owes = a.at[c].owes /\ l.up = a.at[c].up
  <2>1. l \in Link
    BY <1>7, LinkFields
  <2> QED BY <1>7, <2>1 DEF Link
<1> HIDE DEF b, l
<1>10. Shared(a, c) /\ Quiet(a, c) /\ Good(a, {e}, {}) /\ Known(a, c) /\ c \in a.pool
  BY <1>3, <1>4, <1>5 DEF AtWork, Good, Tended
<1>11. (l.only => ~l.mux /\ ~l.close) /\ (l.owes => a.at[c].owes /\ ~l.mux)
  BY <1>9, <1>10 DEF Shared, Quiet
<1>12. /\ Good(b, {e}, {}) /\ b.at[c] = l
       /\ b.conn = a.conn /\ b.state = a.state /\ b.pool = a.pool /\ b.host = a.host
  <2>1. a.at[c].mux => l.mux
    BY <1>9
  <2> DEFINE k == Relinked(a, c, l, a.multiuse)
  <2>2. /\ Good(k, {e}, {}) /\ k.at[c] = l
        /\ k.conn = a.conn /\ k.state = a.state /\ k.pool = a.pool /\ k.host = a.host
        /\ k.job = a.job /\ k.pending = a.pending
    BY <1>7, <1>9, <1>10, <1>11, <2>1, TweakGood
  <2> QED BY <1>8, <2>2
<1>13. Tended(b, {e}, {}, {}) /\ b.held = a.held
  <2>1. l.mux => l.up /\ a.multiuse[a.at[c].host] # "unknown"
    BY <1>9, <1>10 DEF Known
  <2> QED BY <1>4, <1>5, <1>7, <1>8, <1>9, <1>10, <2>1, RelinkTended
<1>14. Busy(b, e)
  BY <1>0, <1>4, <1>12, <1>13 DEF AtWork, Busy
<1>15. Busy(w, e) /\ Same(b, w)
  BY <1>14, NowBusy
<1> HIDE DEF w
<1>16. w.conn[e] = c /\ w.pool = m.pool /\ w.host = m.host /\ w.at[c] = l
  BY <1>4, <1>12, <1>15 DEF Same
<1>17. l.host = m.host[e] /\ ~l.owes /\ l.up
  BY <1>4, <1>9
<1>18. Set(w, e)
  BY <1>15, <1>16, <1>17 DEF Set, Ready, Busy
<1> QED BY <1>6, <1>18, DoWakes

------------------------------------------------------------------------------
(* A transfer looks for a connection: room is made, one is created.          *)

LEMMA AddTended ==
    ASSUME NEW m, NEW e, AtWork(m, e), Tended(m, {e}, {}, {m.host[e]}),
           NEW c \in Conn, c \notin m.pool
    PROVE  LET n == Curl_conncache_add_conn(m, e, c, m.host[e])
           IN  Tended(n, {e}, {c}, {}) /\ n.held = m.held
<1> DEFINE h == m.host[e]
           n == Curl_conncache_add_conn(m, e, c, h)
           l == [Closed EXCEPT !.host = h, !.only = m.job[e].only, !.streams = Streams]
           u == [m.multiuse EXCEPT ![h] = IF @ = "none" THEN "unknown" ELSE @]
           at == [m.at EXCEPT ![c] = l]
<1>0. /\ e \in Easy /\ m \in Type /\ h \in Host /\ m.pool \subseteq Conn
      /\ m.job[e].only \in BOOLEAN /\ Streams \in Nat
  BY TransfersAssumption DEF AtWork, Good, Type, Job
<1>1. /\ l \in Link /\ l.host = h /\ ~l.mux
  BY <1>0 DEF Closed, Link
<1>2. /\ u \in [Host -> {"none", "unknown", "no", "multi"}]
      /\ u[h] = IF m.multiuse[h] = "none" THEN "unknown" ELSE m.multiuse[h]
      /\ \A g \in Host : g # h => u[g] = m.multiuse[g]
  BY <1>0 DEF Type
<1>3. n = [m EXCEPT !.pool = m.pool \cup {c}, !.at = at, !.multiuse = u]
  BY <1>0 DEF Curl_conncache_add_conn, Type
<1> HIDE DEF l, u
<1>4. at \in [Conn -> Link] /\ at[c] = l /\ \A d \in Conn : d # c => at[d] = m.at[d]
  BY <1>0, <1>1 DEF Type
<1> HIDE DEF at, n
<1>5. /\ n \in Type /\ n.pool = m.pool \cup {c} /\ n.at = at /\ n.multiuse = u
      /\ n.conn = m.conn /\ n.state = m.state /\ n.held = m.held
  BY <1>0, <1>2, <1>3, <1>4 DEF Type
<1>6. \A d : Users(n, d) = Users(m, d)
  BY <1>5 DEF Users
<1>7. \A d \in m.pool : n.at[d] = m.at[d]
  BY <1>0, <1>4, <1>5
<1>8. /\ Bundle(n, h) = Bundle(m, h) \cup {c}
      /\ \A g : g # h => Bundle(n, g) = Bundle(m, g)
  BY <1>1, <1>4, <1>5, <1>7 DEF Bundle
<1>9. ASSUME NEW d \in n.pool PROVE Known(n, d) /\ (d \in {c} \/ Tidy(n, d))
  <2>1. CASE d = c
    BY <1>0, <1>1, <1>4, <1>5, <2>1 DEF Known
  <2>2. CASE d # c
    <3>1. d \in m.pool /\ Known(m, d) /\ Tidy(m, d) /\ n.at[d] = m.at[d]
      BY <1>5, <1>7, <2>2 DEF Tended
    <3>2. m.multiuse[h] = "none" => m.at[d].host # h
      <4>1. Guess(m, h, {}, {h})
        BY <1>0 DEF Tended
      <4> QED BY <3>1, <4>1 DEF Guess, Bundle
    <3>3. Known(n, d)
      BY <1>2, <1>5, <3>1, <3>2 DEF Known
    <3> QED BY <1>5, <1>6, <3>1, <3>3 DEF Tidy, InUse
  <2> QED BY <2>1, <2>2
<1>10. ASSUME NEW g \in Host PROVE Guess(n, g, {c}, {})
  <2>1. Guess(m, g, {}, {h}) /\ Bundle(m, g) \subseteq m.pool
    BY DEF Tended, Bundle
  <2>2. CASE g = h
    BY <1>2, <1>5, <1>6, <1>7, <1>8, <2>1, <2>2 DEF Guess, InUse
  <2>3. CASE g # h
    BY <1>2, <1>5, <1>6, <1>7, <1>8, <2>1, <2>3 DEF Guess, InUse
  <2> QED BY <2>2, <2>3
<1>11. ASSUME NEW x \in Easy \ {e} PROVE HoldsLast(n, x) /\ SendsUp(n, x)
  <2>1. HoldsLast(m, x) /\ SendsUp(m, x)
    BY DEF Tended
  <2> QED BY <1>5, <1>7, <2>1 DEF HoldsLast, SendsUp
<1> QED BY <1>5, <1>9, <1>10, <1>11 DEF Tended, n

\* A transfer gives up the connection that only it uses.
LEMMA GoneBusy ==
    ASSUME NEW m, NEW e, Busy(m, e), NEW c, c = m.conn[e], c \in m.pool, ~m.at[c].mux
    PROVE  LET n == Curl_conncache_remove_conn(Curl_detach_connection(m, e), c)
           IN  Busy(n, e)
<1> DEFINE left == Curl_detach_connection(m, e)
           n == Curl_conncache_remove_conn(left, c)
<1>0. /\ e \in Easy /\ m \in Type /\ c \in Conn /\ c # None /\ Good(m, {e}, {}) /\ AtWork(m, e)
      /\ m.conn \in [Easy -> Conn \cup {None}]
  BY TransfersAssumption DEF Busy, AtWork, Good, Type
<1>1. AtWork(n, e)
  BY <1>0, GoneGood
<1>2. Tended(left, {e}, {c}, {})
  BY <1>0, DetachTended DEF Busy
<1>3. /\ left \in Type /\ left.conn = [m.conn EXCEPT ![e] = None]
      /\ left.held = m.held /\ left.pool = m.pool
  BY <1>0, DetachIs
<1> HIDE DEF left
<1>4. ~InUse(left, c)
  <2>1. ASSUME NEW y \in Users(left, c) PROVE FALSE
    <3>1. y \in Easy /\ y # e /\ m.conn[y] = c
      BY <1>0, <1>3 DEF Users
    <3> QED BY <1>0, <3>1 DEF Good, Shared, Users
  <2> QED BY <2>1 DEF InUse
<1>5. Tended(n, {e}, {c} \ {c}, {})
  BY <1>2, <1>3, <1>4, RemoveTended
<1>6. {c} \ {c} = {}
  OBVIOUS
<1>7. Shrunk(left, n, {c})
  BY <1>2, <1>3, RemoveShrunk DEF Tended, Known
<1>8. n.held[e] = None
  BY <1>0, <1>3, <1>7 DEF Shrunk, Busy
<1> HIDE DEF n
<1>9. Busy(n, e)
  BY <1>1, <1>5, <1>6, <1>8 DEF Busy
<1> QED BY <1>9 DEF n, left

LEMMA CreateWakes ==
    ASSUME NEW m, NEW e, AtWork(m, e), Tended(m, {e}, {}, {m.host[e]}), m.held[e] = None,
           m.conn[e] = None, Cardinality(m.pool) < m.limit.total,
           m.limit.host > 0 => Cardinality(Bundle(m, m.host[e])) < m.limit.host,
           NEW n \in Create(m, e)
    PROVE  Tended(n, {}, {}, {}) /\ Awake(n)
<1> DEFINE c == CHOOSE x \in Conn : x \notin m.pool
           a == Curl_conncache_add_conn(m, e, c, m.host[e])
           made == Curl_attach_connection(a, e, c)
           gone == Curl_conncache_remove_conn(Curl_detach_connection(made, e), c)
           w == Now(made, e)
<1>0. /\ e \in Easy /\ m \in Type /\ Good(m, {e}, {}) /\ m.pool \subseteq Conn /\ Room(m)
  BY DEF AtWork, Good, Type
<1>1. \E x \in Conn : x \notin m.pool
  <2>1. SUFFICES ASSUME m.pool = Conn PROVE FALSE
    BY <1>0
  <2>2. Cardinality(Conn) \in Nat
    BY TransfersAssumption, FS_CardinalityType
  <2> QED BY <1>0, <2>1, <2>2 DEF Room
<1>2. c \in Conn /\ c \notin m.pool
  BY <1>1
<1>3. /\ n \in {multistate(w, e, "CONNECTING"), multistate(w, e, "RESOLVING"),
                Failed(Now(gone, e), e)}
  BY DEF Create
<1> HIDE DEF c
<1>4. /\ AtWork(a, e) /\ a.conn = m.conn /\ a.held = m.held
      /\ c \in a.pool /\ a.at[c].only = m.job[e].only /\ a.job = m.job /\ ~a.at[c].mux
  BY <1>2, AddGood
<1>5. Users(a, c) = {} /\ \A x \in Easy : a.held[x] # c
  BY <1>0, <1>2, <1>4, Unused DEF Users
<1>6. Tended(a, {e}, {c}, {})
  BY <1>2, AddTended
<1> HIDE DEF a
<1>7. a \in Type
  BY <1>4 DEF AtWork, Good
<1>8. AtWork(made, e)
  BY <1>4, <1>5, AttachGood
<1>9. /\ Tended(made, {e}, {}, {}) /\ made.held = a.held /\ made.conn[e] = c
      /\ made.pool = a.pool /\ made.at = a.at
  <2>1. Tended(made, {e}, {}, {}) /\ made.held = a.held
    BY <1>0, <1>4, <1>6, <1>7, AttachTended
  <2> QED BY <1>0, <1>2, <1>7, <2>1, AttachIs, ZenonT(60)
<1> HIDE DEF made
<1>10. Busy(made, e)
  BY <1>4, <1>8, <1>9 DEF Busy
<1>11. Busy(w, e)
  BY <1>10, NowBusy
<1>12. Busy(gone, e)
  BY <1>4, <1>9, <1>10, GoneBusy
<1> HIDE DEF w, gone
<1>13. Tended(Failed(Now(gone, e), e), {}, {}, {}) /\ Awake(Failed(Now(gone, e), e))
  BY <1>12, NowBusy, FailedWakes
<1>14. ASSUME NEW s \in {"CONNECTING", "RESOLVING"}
       PROVE  Tended(multistate(w, e, s), {}, {}, {}) /\ Awake(multistate(w, e, s))
  <2>1. w \in Type /\ s \in State /\ s \notin AtRestState /\ s # "PERFORMING"
    BY <1>11 DEF Busy, AtWork, Good, State, AtRestState
  <2> QED BY <1>0, <1>11, <2>1, RestWakes DEF Busy
<1> QED BY <1>3, <1>13, <1>14

LEMMA QueueTended ==
    ASSUME NEW m \in Type, NEW E, Tended(m, E, {}, {}), NEW q \in Seq(Easy)
    PROVE  LET n == [m EXCEPT !.pending = q]
           IN  n \in Type /\ Tended(n, E, {}, {}) /\ n.pending = q /\ n.state = m.state
               /\ n.held = m.held /\ n.conn = m.conn
<1> DEFINE n == [m EXCEPT !.pending = q]
<1>1. /\ n \in Type /\ n.pending = q /\ n.conn = m.conn /\ n.multiuse = m.multiuse
      /\ n.state = m.state /\ n.held = m.held /\ n.pool = m.pool /\ n.at = m.at
  BY DEF Type
<1> HIDE DEF n
<1>2. (\A c : Users(n, c) = Users(m, c)) /\ \A h : Bundle(n, h) = Bundle(m, h)
  BY <1>1 DEF Users, Bundle
<1>3. \A c \in n.pool : Known(n, c) /\ Tidy(n, c)
  BY <1>1, <1>2 DEF Tended, Known, Tidy, InUse
<1>4. \A h \in Host : Guess(n, h, {}, {})
  BY <1>1, <1>2 DEF Tended, Guess, InUse
<1>5. \A x \in Easy \ E : HoldsLast(n, x) /\ SendsUp(n, x)
  BY <1>1 DEF Tended, HoldsLast, SendsUp
<1> QED BY <1>1, <1>3, <1>4, <1>5 DEF Tended, n

------------------------------------------------------------------------------
(* A transfer has to wait, and can rely on another one.                      *)

Relies(m, e) == \E x \in Easy : (x # e /\ m.state[x] \notin AtRestState) \/ m.held[x] # None

LEMMA UserRelies ==
    ASSUME NEW m, NEW e, AtWork(m, e), m.conn[e] = None, NEW c \in m.pool, InUse(m, c)
    PROVE  Relies(m, e)
<1>1. PICK y \in Easy : m.conn[y] = c
  BY DEF InUse, Users
<1>2. c # None
  BY TransfersAssumption DEF AtWork, Good, Type
<1>3. y # e /\ Placed(m, y)
  BY <1>1, <1>2 DEF AtWork, Good
<1>4. m.state[y] \in Active
  BY <1>1, <1>2, <1>3 DEF Placed
<1> QED BY <1>3, <1>4 DEF Relies, Active, AtRestState

LEMMA KeptRelies ==
    ASSUME NEW m, NEW e, AtWork(m, e), m.conn[e] = None, NEW c \in m.pool, Tidy(m, c),
           InUse(m, c) \/ m.at[c].only
    PROVE  Relies(m, e)
<1>1. CASE InUse(m, c)
  BY <1>1, UserRelies
<1>2. CASE ~InUse(m, c)
  <2>1. c # None
    BY TransfersAssumption DEF AtWork, Good, Type
  <2>2. \E x \in Easy : m.held[x] = c
    BY <1>2 DEF Tidy
  <2> QED BY <2>1, <2>2 DEF Relies
<1> QED BY <1>1, <1>2

LEMMA PendWakes ==
    ASSUME NEW m, NEW e, Busy(m, e), Relies(m, e)
    PROVE  Tended(Pend(m, e), {}, {}, {}) /\ Awake(Pend(m, e))
<1> DEFINE s == multistate(m, e, "PENDING")
           q == Append(m.pending, e)
           n == [s EXCEPT !.pending = q]
<1>0. e \in Easy /\ m \in Type /\ m.pending \in Seq(Easy) /\ m.state \in [Easy -> State]
  BY DEF Busy, AtWork, Good, Type
<1>1. Tended(s, {}, {}, {})
  BY <1>0, StateTended DEF Busy, State
<1>2. /\ s \in Type /\ s.state = [m.state EXCEPT ![e] = "PENDING"] /\ s.pending = m.pending
      /\ s.held = m.held
  BY <1>0, StateIs DEF State
<1>3. Pend(m, e) = n
  BY <1>2 DEF Pend
<1>4. q \in Seq(Easy)
  BY <1>0, AppendProperties
<1> HIDE DEF s, q
<1>5. Tended(n, {}, {}, {}) /\ n.state = s.state /\ n.held = s.held
  BY <1>1, <1>2, <1>4, QueueTended
<1> HIDE DEF n
<1>6. \A x \in Easy : x # e => n.state[x] = m.state[x]
  BY <1>0, <1>2, <1>5
<1>7. Awake(n)
  BY <1>2, <1>5, <1>6 DEF Relies, Awake
<1> QED BY <1>3, <1>5, <1>7

LEMMA WaitRelies ==
    ASSUME NEW m, NEW e, Busy(m, e), m.conn[e] = None, WaitsForPipe(m, e)
    PROVE  Relies(m, e)
<1> DEFINE h == m.host[e]
<1>0. AtWork(m, e) /\ h \in Host /\ \A c \in m.pool : Tidy(m, c)
  BY DEF Busy, Tended, AtWork, Good, Type
<1>1. CASE WaitsToKnow(m, e)
  <2>1. PICK c \in Bundle(m, h) : InUse(m, c) \/ m.at[c].only
    BY <1>0, <1>1 DEF WaitsToKnow, Busy, Tended, Guess
  <2>2. c \in m.pool
    BY DEF Bundle
  <2> QED BY <1>0, <2>1, <2>2, KeptRelies
<1>2. CASE \E c \in Candidates(m, e) : ~m.at[c].up
  <2>1. PICK c \in Candidates(m, e) : ~m.at[c].up
    BY <1>2
  <2>2. c \in m.pool /\ InUse(m, c)
    BY <1>0, <2>1 DEF Candidates, Bundle, Tidy
  <2> QED BY <1>0, <2>2, UserRelies
<1> QED BY <1>1, <1>2 DEF WaitsForPipe

\* All connections to the host are in use.
LEMMA FullRelies ==
    ASSUME NEW m, NEW e, Busy(m, e), m.conn[e] = None, RoomAtHost(m, m.host[e]) = {}
    PROVE  Relies(m, e)
<1> DEFINE h == m.host[e]
<1>0. AtWork(m, e) /\ m \in Type /\ m.limit.host \in Nat
  BY DEF Busy, AtWork, Good, Type, Limit
<1>1. /\ m.limit.host > 0 /\ Cardinality(Bundle(m, h)) >= m.limit.host
      /\ IdleIn(m, h) = {}
  BY DEF RoomAtHost
<1>2. Bundle(m, h) # {}
  BY <1>0, <1>1, FS_EmptySet
<1>3. PICK c \in Bundle(m, h) : InUse(m, c)
  BY <1>1, <1>2 DEF IdleIn
<1>4. c \in m.pool
  BY DEF Bundle
<1> QED BY <1>0, <1>3, <1>4, UserRelies

\* There are as many connections as there may be, and none can be given up.
LEMMA AllTakenRelies ==
    ASSUME NEW m, NEW e, Busy(m, e), m.conn[e] = None, RoomInAll(m) = {}
    PROVE  Relies(m, e)
<1>0. AtWork(m, e) /\ m \in Type /\ m.limit.total \in Nat
  BY DEF Busy, AtWork, Good, Type, Limit
<1>1. m.limit.total > 0 /\ Cardinality(m.pool) >= m.limit.total /\ Idle(m) = {}
  BY DEF RoomInAll
<1>2. m.pool # {}
  BY <1>0, <1>1, FS_EmptySet
<1>3. PICK c \in m.pool : InUse(m, c) \/ m.at[c].close \/ m.at[c].only
  BY <1>1, <1>2 DEF Idle
<1>4. Tidy(m, c)
  BY DEF Busy, Tended
<1>5. InUse(m, c) \/ m.at[c].only
  BY <1>3, <1>4 DEF Tidy
<1> QED BY <1>0, <1>4, <1>5, KeptRelies

------------------------------------------------------------------------------
(* Room for a new connection.                                                *)

LEMMA HostRoomTended ==
    ASSUME NEW m, NEW e, Busy(m, e), NEW h \in Host, NEW a \in RoomAtHost(m, h)
    PROVE  /\ Tended(a, {e}, {}, {h}) /\ a.held[e] = None /\ a.conn = m.conn /\ a \in Type
           /\ a = m \/ Cardinality(a.pool) < a.limit.total
<1>0. e \in Easy /\ m \in Type /\ Room(m)
  BY DEF Busy, AtWork, Good
<1>1. Tended(m, {e}, {}, {h})
  BY DEF Busy, Tended, Guess
<1>2. CASE a = m
  BY <1>0, <1>1, <1>2 DEF Busy
<1>3. CASE a # m
  <2>1. PICK c \in IdleIn(m, h) : a = Extract(m, c)
    BY <1>3 DEF RoomAtHost
  <2>2. c \in m.pool /\ ~InUse(m, c) /\ c \in Bundle(m, h)
    BY DEF IdleIn, Bundle
  <2>3. \A g \in Host : m.multiuse[g] = "unknown" /\ g \notin {h} => c \notin Bundle(m, g)
    BY <2>2 DEF Bundle
  <2>4. Shrunk(m, a, {c}) /\ Tended(a, {e}, {} \ {c}, {h})
    BY <1>0, <1>1, <2>1, <2>2, <2>3, ExtractTended
  <2>5. {} \ {c} = {}
    OBVIOUS
  <2>6. Tended(a, {e}, {}, {h})
    BY <2>4, <2>5
  <2>7. Cardinality(a.pool) < a.limit.total
    <3>1. IsFiniteSet(m.pool) /\ Cardinality(m.pool) \in Nat
      BY <1>0, BundleFinite
    <3>2. a.pool = m.pool \ {c} /\ a.limit = m.limit /\ m.limit.total \in Nat
      BY <1>0, <2>4 DEF Shrunk, Type, Limit
    <3>3. Cardinality(m.pool \ {c}) = Cardinality(m.pool) - 1
      BY <2>2, <3>1, FS_RemoveElement
    <3> QED BY <1>0, <3>1, <3>2, <3>3 DEF Room
  <2> QED BY <1>0, <2>4, <2>6, <2>7 DEF Shrunk, Busy
<1> QED BY <1>2, <1>3

LEMMA AllRoomTended ==
    ASSUME NEW m \in Type, NEW e \in Easy, NEW h \in Host, Tended(m, {e}, {}, {h}),
           m.held[e] = None, NEW n \in RoomInAll(m)
    PROVE  Tended(n, {e}, {}, {h}) /\ n.held[e] = None
<1>1. CASE n = m
  BY <1>1
<1>2. CASE n # m
  <2>1. PICK c \in Idle(m) : n = Extract(m, c)
    BY <1>2 DEF RoomInAll
  <2>2. c \in m.pool /\ ~InUse(m, c) /\ ~m.at[c].only
    BY DEF Idle
  <2>3. ASSUME NEW g \in Host, m.multiuse[g] = "unknown" PROVE c \notin Bundle(m, g)
    <3>1. Guess(m, g, {}, {h})
      BY DEF Tended
    <3> QED BY <2>2, <2>3, <3>1 DEF Guess
  <2>4. Shrunk(m, n, {c}) /\ Tended(n, {e}, {} \ {c}, {h})
    BY <2>1, <2>2, <2>3, ExtractTended
  <2>5. {} \ {c} = {}
    OBVIOUS
  <2>6. Tended(n, {e}, {}, {h})
    BY <2>4, <2>5
  <2> QED BY <2>4, <2>6 DEF Shrunk
<1> QED BY <1>1, <1>2

LEMMA NewConnectionWakes ==
    ASSUME NEW m, NEW e, Busy(m, e), m.conn[e] = None, NEW n \in NewConnection(m, e)
    PROVE  Tended(n, {}, {}, {}) /\ Awake(n)
<1> DEFINE h == m.host[e]
           rooms == UNION {RoomInAll(a) : a \in RoomAtHost(m, h)}
<1>0. AtWork(m, e) /\ h \in Host /\ e \in Easy
  BY DEF Busy, AtWork, Good, Type
<1>1. CASE WaitsForPipe(m, e)
  BY <1>1, WaitRelies, PendWakes DEF NewConnection
<1>2. CASE ~WaitsForPipe(m, e) /\ rooms # {}
  <2>1. PICK r \in rooms : n \in Create(r, e)
    BY <1>2 DEF NewConnection
  <2>2. PICK a \in RoomAtHost(m, h) : r \in RoomInAll(a)
    BY <2>1
  <2>3. /\ AtWork(r, e) /\ r.conn = m.conn /\ r.host = m.host
        /\ Cardinality(r.pool) < r.limit.total
        /\ r.limit.host > 0 => Cardinality(Bundle(r, r.host[e])) < r.limit.host
    BY <1>0, <2>2, RoomFor
  <2>4. Tended(r, {e}, {}, {h}) /\ r.held[e] = None
    <3>1. Tended(a, {e}, {}, {h}) /\ a.held[e] = None /\ a \in Type
      BY <1>0, HostRoomTended
    <3> QED BY <1>0, <2>2, <3>1, AllRoomTended
  <2> QED BY <2>1, <2>3, <2>4, CreateWakes
<1>3. CASE ~WaitsForPipe(m, e) /\ rooms = {}
  <2>1. PICK a : /\ n = Pend(a, e)
                 /\ a \in IF RoomAtHost(m, h) = {} THEN {m} ELSE RoomAtHost(m, h)
    BY <1>3 DEF NewConnection
  <2>2. a = m /\ Relies(m, e)
    <3>1. CASE RoomAtHost(m, h) = {}
      BY <2>1, <3>1, FullRelies
    <3>2. CASE RoomAtHost(m, h) # {}
      <4>1. a \in RoomAtHost(m, h) /\ RoomInAll(a) = {}
        BY <1>3, <2>1, <3>2
      <4>2. a = m
        <5>1. SUFFICES ASSUME a # m PROVE FALSE
          OBVIOUS
        <5>2. Cardinality(a.pool) < a.limit.total /\ a \in Type
          BY <1>0, <4>1, <5>1, HostRoomTended
        <5>3. Cardinality(a.pool) \in Nat /\ a.limit.total \in Nat
          BY <5>2, BundleFinite DEF Type, Limit
        <5> QED BY <4>1, <5>2, <5>3 DEF RoomInAll
      <4> QED BY <4>1, <4>2, AllTakenRelies
    <3> QED BY <3>1, <3>2
  <2> QED BY <2>1, <2>2, PendWakes
<1> QED BY <1>1, <1>2, <1>3

LEMMA ClosedBusy ==
    ASSUME NEW m, NEW e, Busy(m, e), NEW cs \in SUBSET m.pool, \A c \in cs : ~InUse(m, c)
    PROVE  LET n == CloseAll(m, cs)
           IN  Busy(n, e) /\ Shrunk(m, n, cs) /\ n.conn = m.conn /\ n.state = m.state
<1> DEFINE n == CloseAll(m, cs)
<1>0. m \in Type /\ e \in Easy
  BY DEF Busy, AtWork, Good
<1>1. Shrunk(m, n, cs)
  BY <1>0, CloseAllShrunk
<1>2. Tended(n, {e}, {} \ cs, {})
  BY <1>0, CloseAllTended DEF Busy
<1> HIDE DEF n
<1>3. AtWork(n, e) /\ n.conn = m.conn /\ n.state = m.state
  BY <1>1, ClearedAtWork DEF Cleared, Busy
<1>4. {} \ cs = {}
  OBVIOUS
<1>5. n.held[e] = None
  BY <1>0, <1>1 DEF Shrunk, Busy
<1> QED BY <1>1, <1>2, <1>3, <1>4, <1>5 DEF Busy, n

LEMMA ConnectWakes ==
    ASSUME Faults = {}, NEW m, NEW e, Busy(m, e), m.conn[e] = None, m.state[e] = "CONNECT",
           NEW n \in Curl_connect(m, e)
    PROVE  Tended(n, {}, {}, {}) /\ Awake(n)
<1>1. \A c \in FoundDead(m, e) : c \in m.pool /\ ~InUse(m, c)
  BY DEF FoundDead, Candidates, Bundle, Dead
<1>2. CASE Reusable(m, e) # {}
  <2>1. PICK dead \in SUBSET FoundDead(m, e), c \in Reusable(m, e) :
              n \in Reuse(CloseAll(m, dead), e, c)
    <3>1. n \in UNION {Reuse(k, e, c) : k \in {CloseAll(m, dead) : dead \in SUBSET FoundDead(m, e)},
                                       c \in Reusable(m, e)}
      BY <1>2 DEF Curl_connect
    <3> QED BY <3>1
  <2> DEFINE k == CloseAll(m, dead)
  <2>2. Busy(k, e) /\ Shrunk(m, k, dead) /\ k.conn = m.conn /\ k.state = m.state
    BY <1>1, ClosedBusy
  <2> HIDE DEF k
  <2>3. /\ c \in m.pool /\ m.at[c].host = m.host[e] /\ ~m.at[c].only /\ ~m.job[e].only
        /\ m.at[c].mux \/ Users(m, c) = {}
        /\ m.at[c].up
    BY DEF Reusable, Candidates, Bundle, Fits, InUse
  <2>4. c \notin dead
    BY DEF Reusable, FoundDead
  <2>5. c \in k.pool /\ k.at[c] = m.at[c] /\ Users(k, c) = Users(m, c) /\ k.host = m.host
        /\ k.job = m.job
    BY <2>2, <2>3, <2>4 DEF Shrunk, Users
  <2>6. ~m.at[c].owes
    BY <2>3 DEF Busy, AtWork, Good, Quiet
  <2>7. n \in Reuse(k, e, c)
    BY <2>1 DEF k
  <2> QED BY <2>2, <2>3, <2>5, <2>6, <2>7, ReuseWakes
<1>3. CASE Reusable(m, e) = {}
  <2>1. n \in NewConnection(CloseAll(m, FoundDead(m, e)), e)
    BY <1>3 DEF Curl_connect
  <2>2. /\ Busy(CloseAll(m, FoundDead(m, e)), e)
        /\ CloseAll(m, FoundDead(m, e)).conn[e] = None
    BY <1>1, ClosedBusy
  <2> QED BY <2>1, <2>2, NewConnectionWakes
<1> QED BY <1>2, <1>3

------------------------------------------------------------------------------
(* Every step keeps all tended, and one awake.                               *)

\* Its host and the number of redirects matter to nobody.
LEMMA RehostTended ==
    ASSUME NEW m \in Type, NEW e \in Easy, Tended(m, {}, {}, {}), Awake(m),
           NEW h \in Host, NEW k \in Nat
    PROVE  LET n == [m EXCEPT !.host[e] = h, !.hops = k]
           IN  Tended(n, {}, {}, {}) /\ Awake(n)
<1> DEFINE n == [m EXCEPT !.host[e] = h, !.hops = k]
           host == [m.host EXCEPT ![e] = h]
<1>1. n = [m EXCEPT !.host = host, !.hops = k] /\ host \in [Easy -> Host]
  BY DEF Type
<1> HIDE DEF n, host
<1>2. /\ n.conn = m.conn /\ n.multiuse = m.multiuse /\ n.pending = m.pending
      /\ n.state = m.state /\ n.held = m.held /\ n.pool = m.pool /\ n.at = m.at
  BY <1>1 DEF Type
<1>3. (\A c : Users(n, c) = Users(m, c)) /\ \A g : Bundle(n, g) = Bundle(m, g)
  BY <1>2 DEF Users, Bundle
<1>4. \A c \in n.pool : Known(n, c) /\ Tidy(n, c)
  BY <1>2, <1>3 DEF Tended, Known, Tidy, InUse
<1>5. \A g \in Host : Guess(n, g, {}, {})
  BY <1>2, <1>3 DEF Tended, Guess, InUse
<1>6. \A x \in Easy : HoldsLast(n, x) /\ SendsUp(n, x)
  BY <1>2 DEF Tended, HoldsLast, SendsUp
<1>7. Awake(n)
  BY <1>2 DEF Awake
<1> QED BY <1>4, <1>5, <1>6, <1>7 DEF Tended, n

LEMMA AtRestBusy ==
    ASSUME NEW e \in Easy, WInv, multi.state[e] \notin {"PENDING", "MSGSENT"}
    PROVE  /\ Busy(multi, e) /\ multi \in Type /\ Placed(multi, e) /\ IInv
           /\ multi.state[e] \in Active =>
                 multi.conn[e] \in multi.pool /\ multi.conn[e] \in Conn
           /\ multi.state[e] \notin Active => multi.conn[e] = None
<1>1. multi.held[e] = None
  BY DEF WInv, Tended, HoldsLast
<1>2. Tended(multi, {e}, {}, {})
  BY DEF WInv, Tended
<1> QED BY <1>1, <1>2, AtRest DEF WInv, IInv, Busy

LEMMA ConnectStepWakes ==
    ASSUME Faults = {}, NEW e \in Easy, WInv, Connect(e)
    PROVE  Tended(multi', {}, {}, {}) /\ Awake(multi')
<1>1. Busy(multi, e) /\ multi.conn[e] = None /\ multi.state[e] = "CONNECT"
  BY AtRestBusy DEF Connect, Active
<1>2. PICK m \in prune_dead_connections(multi) : multi' \in Curl_connect(m, e)
  BY DEF Connect
<1>3. Busy(m, e) /\ m.conn[e] = None /\ m.state[e] = "CONNECT"
  <2> DEFINE dead == {c \in multi.pool : Dead(multi, c)}
  <2>1. dead \in SUBSET multi.pool /\ \A c \in dead : ~InUse(multi, c)
    BY DEF Dead
  <2>2. /\ Busy(CloseAll(multi, dead), e)
        /\ CloseAll(multi, dead).conn = multi.conn /\ CloseAll(multi, dead).state = multi.state
    BY <1>1, <2>1, ClosedBusy
  <2>3. m = multi \/ m = CloseAll(multi, dead)
    BY <1>2 DEF prune_dead_connections
  <2> QED BY <1>1, <2>2, <2>3
<1> QED BY <1>2, <1>3, ConnectWakes

LEMMA RefuseStepWakes ==
    ASSUME NEW e \in Easy, WInv, Refuse(e)
    PROVE  Tended(multi', {}, {}, {}) /\ Awake(multi')
<1>1. Busy(multi, e)
  BY AtRestBusy DEF Refuse
<1>2. Busy(Now(multi, e), e)
  BY <1>1, NowBusy
<1>3. multi' = Failed(multi, e) \/ multi' = Failed(Now(multi, e), e)
  BY DEF Refuse
<1> QED BY <1>1, <1>2, <1>3, FailedWakes

LEMMA ResolvedStepWakes ==
    ASSUME NEW e \in Easy, WInv, Resolved(e)
    PROVE  Tended(multi', {}, {}, {}) /\ Awake(multi')
<1> DEFINE c == multi.conn[e]
           gone == Curl_conncache_remove_conn(Curl_detach_connection(multi, e), c)
<1>1. Busy(multi, e) /\ c \in multi.pool /\ Placed(multi, e) /\ multi.state[e] = "RESOLVING"
      /\ multi \in Type
  BY AtRestBusy DEF Resolved, Active
<1>2. Busy(gone, e)
  BY <1>1, GoneBusy DEF Placed
<1>3. multi' = multistate(multi, e, "CONNECTING") \/ multi' = Failed(gone, e)
  BY DEF Resolved
<1>4. /\ Tended(multistate(multi, e, "CONNECTING"), {}, {}, {})
      /\ Awake(multistate(multi, e, "CONNECTING"))
  BY <1>1, RestWakes DEF Busy, State, AtRestState
<1> HIDE DEF gone
<1> QED BY <1>2, <1>3, <1>4, FailedWakes

LEMMA Http2Tended ==
    ASSUME NEW m, NEW E, Good(m, E, {}), Tended(m, E, {}, {}), NEW c \in m.pool, ~m.at[c].only,
           m.at[c].mux \/ \A x \in Users(m, c) \ E : m.state[x] = "PERFORMING", m.at[c].up
    PROVE  LET n == Http2(m, c)
           IN  Tended(n, E, {}, {}) /\ n.held = m.held /\ n.at[c].up
<1> DEFINE l == [m.at[c] EXCEPT !.mux = TRUE, !.owes = FALSE]
           u == [m.multiuse EXCEPT ![m.at[c].host] = "multi"]
           k == Relinked(m, c, l, u)
           n == process_pending_handles(k)
<1>0. m \in Type /\ c \in Conn /\ m.at[c] \in Link /\ m.at[c].host \in Host
  BY DEF Good, Type, Shared
<1>1. /\ l \in Link /\ l.host = m.at[c].host /\ l.only = m.at[c].only /\ l.mux /\ ~l.owes
      /\ ~l.only /\ l.up /\ l.close = m.at[c].close
  <2>1. /\ l \in Link /\ l.host = m.at[c].host /\ l.only = m.at[c].only /\ l.mux /\ ~l.owes
        /\ l.up = m.at[c].up /\ l.close = m.at[c].close
    BY <1>0, LinkFields, LinkKeeps
  <2> HIDE DEF l
  <2> QED BY <2>1
<1>2. /\ u \in [Host -> {"none", "unknown", "no", "multi"}] /\ u[m.at[c].host] = "multi"
      /\ \A h \in Host : u[h] = m.multiuse[h] \/ u[h] \in {"no", "multi"}
  BY <1>0 DEF Type
<1>3. Http2(m, c) = n
  BY <1>0 DEF Http2, Curl_multi_connchanged, Relinked, Type
<1> HIDE DEF l, u
<1>4. Tended(k, E, {}, {}) /\ k.multiuse = u /\ k.held = m.held /\ k.at[c] = l /\ k \in Type
  <2>1. Tended(k, E, {}, {}) /\ k.multiuse = u /\ k.held = m.held
    BY <1>0, <1>1, <1>2, RelinkTended
  <2> QED BY <1>0, <1>1, <1>2, <2>1, RelinkedIs
<1>5. Good(k, E, {})
  <2>1. l.mux = m.at[c].mux \/ \A x \in Users(m, c) \ E : m.state[x] = "PERFORMING"
    BY <1>0, <1>1 DEF Link
  <2>2. (l.only => ~l.mux /\ ~l.close) /\ (l.owes => m.at[c].owes /\ ~l.mux)
    BY <1>1
  <2> QED BY <1>1, <1>2, <2>1, <2>2, TweakGood
<1> HIDE DEF k
<1>6. Same(k, n) /\ n.multiuse = k.multiuse
  BY <1>4, <1>5, WokenGood, WokenUse
<1> HIDE DEF n
<1>7. Tended(n, E, {}, {})
  BY <1>4, <1>6, SameTended
<1> QED BY <1>1, <1>3, <1>4, <1>6, <1>7 DEF Same

LEMMA ConnectedStepWakes ==
    ASSUME Faults = {}, NEW e \in Easy, WInv, Connected(e)
    PROVE  Tended(multi', {}, {}, {}) /\ Awake(multi')
<1> DEFINE m == multi
           c == m.conn[e]
           h == m.at[c].host
           l == [m.at[c] EXCEPT !.up = TRUE]
           up(u) == Relinked(m, c, l, u)
           no == [m.multiuse EXCEPT ![h] = "no"]
           many == [m.multiuse EXCEPT ![h] = "multi"]
           serial == process_pending_handles(up(no))
           shared == process_pending_handles(up(many))
<1>0. /\ Busy(m, e) /\ c \in m.pool /\ c \in Conn /\ Placed(m, e) /\ m \in Type
      /\ m.state[e] = "CONNECTING" /\ Good(m, {e}, {}) /\ IInv
  BY AtRestBusy DEF Connected, Active, Busy, AtWork
<1>1. ~m.at[c].mux /\ h = m.host[e] /\ ~m.at[c].owes
  BY <1>0, NotOwed DEF Placed, Active, IInv
<1>2. m.at[c] \in Link /\ Shared(m, c) /\ h \in Host
  BY <1>0 DEF Good, Type, Shared
<1>3. /\ l \in Link /\ l.host = h /\ l.only = m.at[c].only /\ l.mux = m.at[c].mux
      /\ l.close = m.at[c].close /\ l.owes = m.at[c].owes /\ l.up
  BY <1>2, LinkFields, LinkKeeps
<1>4. \A u \in {m.multiuse, no, many} :
         /\ u \in [Host -> {"none", "unknown", "no", "multi"}]
         /\ \A g \in Host : u[g] = m.multiuse[g] \/ u[g] \in {"no", "multi"}
  BY <1>0, <1>2 DEF Type
<1>5. \/ h \in Plain /\ multi' \in Do(up(m.multiuse), e)
      \/ multi' \in Do(serial, e)
      \/ m.job[e].only /\ multi' \in Do(shared, e)
      \/ ~m.job[e].only /\ multi' \in Do(Http2(shared, c), e)
  <2>1. [m EXCEPT !.at[c].up = TRUE] = up(m.multiuse)
    BY <1>0 DEF Relinked, Type
  <2>2. Curl_multiuse_state(up(m.multiuse), h, "no") = serial
    BY <1>0 DEF Curl_multiuse_state, Relinked, Type
  <2>3. Curl_multiuse_state(up(m.multiuse), h, "multi") = shared
    BY <1>0 DEF Curl_multiuse_state, Relinked, Type
  <2> HIDE DEF up, serial, shared
  <2> QED BY <2>1, <2>2, <2>3 DEF Connected
<1> HIDE DEF l, no, many
<1>6. ASSUME NEW u \in {m.multiuse, no, many}
      PROVE  /\ Set(up(u), e) /\ up(u).at[c] = l /\ up(u).conn = m.conn
             /\ up(u).job = m.job /\ up(u).pool = m.pool /\ up(u).host = m.host
  <2>1. l.only => ~l.mux /\ ~l.close
    BY <1>2, <1>3 DEF Shared
  <2>2. /\ u \in [Host -> {"none", "unknown", "no", "multi"}]
        /\ \A g \in Host : u[g] = m.multiuse[g] \/ u[g] \in {"no", "multi"}
    BY <1>4
  <2>3. /\ Good(up(u), {e}, {}) /\ up(u).at[c] = l
        /\ up(u).conn = m.conn /\ up(u).state = m.state /\ up(u).pool = m.pool
        /\ up(u).host = m.host /\ up(u).job = m.job /\ up(u).pending = m.pending
    BY <1>0, <1>1, <1>3, <2>1, <2>2, TweakGood, SMT, Z3T(20)
  <2>4. Tended(up(u), {e}, {}, {}) /\ up(u).held = m.held
    <3>1. Tended(m, {e}, {}, {})
      BY <1>0 DEF Busy
    <3> QED BY <1>0, <1>1, <1>3, <2>2, <3>1, RelinkTended, SMT, Z3T(20)
  <2> QED BY <1>0, <1>1, <1>3, <2>3, <2>4 DEF Set, Ready, Busy, AtWork
<1> HIDE DEF up
<1>7. ASSUME NEW k, Set(k, e)
      PROVE  LET n == process_pending_handles(k) IN Set(n, e) /\ Same(k, n)
  <2> DEFINE n == process_pending_handles(k)
  <2>1. Busy(n, e) /\ Same(k, n) /\ Ready(n, e)
    BY <1>7, WokenBusy, ReadyWoken DEF Set
  <2> HIDE DEF n
  <2>2. Set(n, e)
    BY <1>7, <2>1 DEF Set, Same
  <2> QED BY <2>1, <2>2 DEF n
<1>8. Set(up(m.multiuse), e)
  BY <1>6
<1>9. Set(serial, e)
  BY <1>6, <1>7
<1>10. Set(shared, e) /\ Same(up(many), shared)
  BY <1>6, <1>7
<1>11. ASSUME ~m.job[e].only PROVE Set(Http2(shared, c), e)
  <2> DEFINE k == Http2(shared, c)
  <2>1. /\ up(many).at[c] = l /\ up(many).conn = m.conn /\ up(many).pool = m.pool
        /\ up(many).job = m.job /\ up(many).host = m.host
    BY <1>6
  <2>2. /\ shared.conn = m.conn /\ shared.at[c] = l /\ shared.pool = m.pool
        /\ shared.job = m.job /\ shared.host = m.host
    BY <1>10, <2>1 DEF Same
  <2> HIDE DEF shared
  <2>3. /\ e \in Users(shared, c) /\ Shared(shared, c) /\ Good(shared, {e}, {})
        /\ Tended(shared, {e}, {}, {}) /\ shared.held[e] = None /\ shared.state[e] # "PENDING"
    BY <1>0, <1>10, <2>2 DEF Set, Busy, AtWork, Good, Users
  <2>4. ~shared.at[c].only /\ ~shared.at[c].mux /\ shared.at[c].up
    BY <1>1, <1>3, <1>11, <2>2, <2>3 DEF Shared
  <2>5. Users(shared, c) \ {e} = {}
    BY <2>3, <2>4 DEF Shared
  <2>6. /\ Good(k, {e}, {}) /\ k.at[c].host = shared.at[c].host /\ ~k.at[c].owes
        /\ k.conn = shared.conn /\ k.pool = shared.pool /\ k.host = shared.host
        /\ k.job = shared.job
        /\ \A x \in Easy : \/ k.state[x] = shared.state[x]
                           \/ shared.state[x] = "PENDING" /\ k.state[x] = "CONNECT"
    BY <1>0, <2>2, <2>3, <2>4, <2>5, Http2Good
  <2>7. Tended(k, {e}, {}, {}) /\ k.held = shared.held /\ k.at[c].up
    BY <1>0, <2>2, <2>3, <2>4, <2>5, Http2Tended
  <2> HIDE DEF k
  <2>8. k.state[e] # "PENDING" /\ k.held[e] = None
    BY <2>3, <2>6, <2>7
  <2>9. k.conn[e] = c /\ k.at[c].host = k.host[e] /\ c \in k.pool
    BY <1>0, <1>1, <1>3, <2>2, <2>6
  <2> QED BY <2>6, <2>7, <2>8, <2>9 DEF Set, Ready, Busy, AtWork, k
<1> HIDE DEF serial, shared
<1> QED BY <1>5, <1>8, <1>9, <1>10, <1>11, DoWakes

LEMMA UpgradedStepWakes ==
    ASSUME NEW e \in Easy, WInv, Upgraded(e)
    PROVE  Tended(multi', {}, {}, {}) /\ Awake(multi')
<1> DEFINE c == multi.conn[e]
<1>1. /\ c \in multi.pool /\ c \in Conn /\ Placed(multi, e) /\ multi \in Type
      /\ multi.state[e] = "PERFORMING" /\ ~multi.at[c].mux /\ multi' = Http2(multi, c)
      /\ Good(multi, {}, {}) /\ Tended(multi, {}, {}, {}) /\ multi.at[c].up
  BY AtRestBusy DEF Upgraded, IInv, Active, WInv, Tended, SendsUp
<1>2. Shared(multi, c) /\ e \in Users(multi, c)
  BY <1>1 DEF Good, Users
<1>3. ~multi.at[c].only /\ \A x \in Users(multi, c) \ {} : multi.state[x] = "PERFORMING"
  BY <1>1, <1>2 DEF Shared, Placed
<1> HIDE DEF c
<1>4. Tended(multi', {}, {}, {})
  BY <1>1, <1>3, Http2Tended
<1>5. \A x \in Easy : \/ multi'.state[x] = multi.state[x]
                      \/ multi.state[x] = "PENDING" /\ multi'.state[x] = "CONNECT"
  BY <1>1, <1>3, Http2Good
<1> QED BY <1>1, <1>4, <1>5, AwakeSelf DEF AtRestState

LEMMA SettingsStepWakes ==
    ASSUME NEW e \in Easy, WInv, NEW k \in 0 .. 1, Settings(e, k)
    PROVE  Tended(multi', {}, {}, {}) /\ Awake(multi')
<1> DEFINE c == multi.conn[e]
           l == [multi.at[c] EXCEPT !.streams = k]
           n == Relinked(multi, c, l, multi.multiuse)
<1>1. /\ c \in multi.pool /\ c \in Conn /\ multi \in Type /\ Good(multi, {}, {})
      /\ Tended(multi, {}, {}, {}) /\ multi.state[e] = "PERFORMING"
  BY AtRestBusy DEF Settings, IInv, Active, WInv
<1>2. multi.at[c] \in Link /\ multi.multiuse \in [Host -> {"none", "unknown", "no", "multi"}]
  BY <1>1 DEF Type
<1>3. /\ l \in Link /\ l.host = multi.at[c].host /\ l.only = multi.at[c].only
      /\ l.mux = multi.at[c].mux /\ l.close = multi.at[c].close /\ l.owes = multi.at[c].owes
      /\ l.up = multi.at[c].up
  BY <1>2 DEF Link
<1>4. Shared(multi, c) /\ Quiet(multi, c) /\ Known(multi, c)
  BY <1>1 DEF Good, Tended
<1>5. multi' = process_pending_handles(n)
  BY <1>1 DEF Settings, Curl_multi_connchanged, Relinked, Type
<1> HIDE DEF l, c
<1>6. (l.only => ~l.mux /\ ~l.close) /\ (l.owes => multi.at[c].owes /\ ~l.mux)
  BY <1>3, <1>4 DEF Shared, Quiet
<1>7. Good(n, {}, {}) /\ n.state = multi.state
  BY <1>1, <1>2, <1>3, <1>6, TweakGood
<1>8. Tended(n, {}, {}, {})
  <2>1. l.mux => l.up /\ multi.multiuse[multi.at[c].host] # "unknown"
    BY <1>3, <1>4 DEF Known
  <2> QED BY <1>1, <1>2, <1>3, <2>1, RelinkTended
<1> HIDE DEF n
<1>9. Same(n, multi') /\ multi'.multiuse = n.multiuse
  BY <1>5, <1>7, WokenGood, WokenUse DEF Good
<1>10. Tended(multi', {}, {}, {})
  BY <1>8, <1>9, SameTended
<1>11. multi'.state[e] = "PERFORMING"
  BY <1>1, <1>7, <1>9 DEF Same
<1> QED BY <1>10, <1>11, AwakeSelf DEF AtRestState

\* The end of a request tells what the bundle is.
LEMMA AnsweredBusy ==
    ASSUME NEW e \in Easy, WInv, multi.state[e] = "PERFORMING", NEW close \in BOOLEAN
    PROVE  LET n == Answered(multi, e, close)
               c == n.conn[e]
           IN  /\ Busy(n, e) /\ c \in n.pool /\ ~n.at[c].owes /\ Leavable(n, c, FALSE)
               /\ ~n.at[c].only
<1> DEFINE m == multi
           c == m.conn[e]
           b == m.at[c].close \/ (close /\ ~m.at[c].mux)
           s == IF m.at[c].mux THEN "multi" ELSE "no"
           l == [m.at[c] EXCEPT !.owes = FALSE, !.close = b]
           u == [m.multiuse EXCEPT ![m.at[c].host] = s]
           n == Relinked(m, c, l, u)
<1>1. /\ c \in m.pool /\ c \in Conn /\ m \in Type /\ Placed(m, e) /\ Good(m, {}, {})
      /\ Busy(m, e) /\ m.at[c].up /\ Tended(m, {}, {}, {}) /\ IInv
  BY AtRestBusy DEF IInv, Active, WInv, Tended, SendsUp
<1>2. /\ m.at[c] \in Link /\ Shared(m, c) /\ e \in Users(m, c) /\ m.at[c].host \in Host
      /\ InUse(m, c)
  BY <1>1 DEF Good, Type, Users, Shared, InUse
<1>3. b \in BOOLEAN /\ ~m.at[c].only
  BY <1>1, <1>2 DEF Shared, Placed, Link
<1>4. /\ l \in Link /\ l.host = m.at[c].host /\ l.only = m.at[c].only
      /\ l.mux = m.at[c].mux /\ ~l.owes /\ ~l.only /\ l.up
  <2> HIDE DEF b
  <2>1. /\ l \in Link /\ l.host = m.at[c].host /\ l.only = m.at[c].only
        /\ l.mux = m.at[c].mux /\ ~l.owes /\ l.up = m.at[c].up
    BY <1>2, <1>3, LinkAnswered, ZenonT(60)
  <2>2. m.at[c].up
    BY <1>1, <1>2
  <2> HIDE DEF l, c
  <2> QED BY <1>3, <2>1, <2>2
<1>5. /\ u \in [Host -> {"none", "unknown", "no", "multi"}] /\ u[m.at[c].host] # "unknown"
      /\ \A h \in Host : u[h] = m.multiuse[h] \/ u[h] \in {"no", "multi"}
  BY <1>1, <1>2 DEF Type
<1>6. Answered(m, e, close) = n
  BY <1>1, ZenonT(60) DEF Answered, Relinked, Type
<1>7. AtWork(n, e)
  BY <1>1, <1>6, AnsweredGood
<1> HIDE DEF l, u, b, c, s
<1>8. /\ n.at[c] = l /\ n.conn = m.conn /\ n.pool = m.pool
  BY <1>1, <1>4, <1>5, RelinkedIs
<1>9. Tended(n, {}, {}, {}) /\ n.multiuse = u /\ n.held = m.held
  BY <1>1, <1>2, <1>4, <1>5, RelinkTended
<1> HIDE DEF n
<1>10. Busy(n, e)
  BY <1>1, <1>7, <1>9 DEF Busy, Tended
<1>11. c = n.conn[e] /\ c \in n.pool /\ ~n.at[c].owes /\ ~n.at[c].only /\ Leavable(n, c, FALSE)
  BY <1>1, <1>4, <1>5, <1>8, <1>9 DEF Leavable, c
<1> QED BY <1>6, <1>10, <1>11

LEMMA LeaveWakes ==
    ASSUME NEW m, NEW e, Busy(m, e), m.conn[e] \in m.pool, NEW premature \in BOOLEAN,
           m.at[m.conn[e]].owes => m.at[m.conn[e]].close \/ premature,
           Leavable(m, m.conn[e], premature), ~m.at[m.conn[e]].only \/ premature,
           NEW n \in multi_done(m, e, premature)
    PROVE  /\ Busy(n, e) /\ Lit(n, e)
           /\ Tended(Completed(n, e), {}, {}, {}) /\ Awake(Completed(n, e))
           /\ Tended(Failed(n, e), {}, {}, {}) /\ Awake(Failed(n, e))
<1> DEFINE c == m.conn[e]
           K == ToHold(m, c, premature)
<1>1. /\ AtWork(n, e) /\ Lit(n, e) /\ n.held[e] = None /\ Tended(n, {e}, K, {})
  BY DoneTended
<1>2. K = {}
  BY DEF ToHold
<1>3. Busy(n, e)
  BY <1>1, <1>2 DEF Busy
<1>4. Tended(Completed(n, e), {}, {}, {}) /\ Awake(Completed(n, e))
  BY <1>1, <1>3, RestWakes DEF Completed, Busy, State, AtWork, Good
<1> QED BY <1>1, <1>3, <1>4, FailedWakes

LEMMA MaybeWokenBusy ==
    ASSUME NEW m, NEW e, Busy(m, e), NEW n \in {m, process_pending_handles(m)}
    PROVE  Busy(n, e) /\ n.conn = m.conn /\ n.pool = m.pool /\ n.at = m.at
           /\ n.multiuse = m.multiuse
<1>1. /\ Busy(process_pending_handles(m), e) /\ Same(m, process_pending_handles(m))
      /\ process_pending_handles(m).multiuse = m.multiuse
  BY WokenBusy
<1> QED BY <1>1 DEF Same

LEMMA FinishStepWakes ==
    ASSUME NEW e \in Easy, WInv, Finish(e)
    PROVE  Tended(multi', {}, {}, {}) /\ Awake(multi')
<1>1. PICK close \in BOOLEAN :
        LET m == Answered(multi, e, close)
            done == IF m.at[m.conn[e]].mux THEN process_pending_handles(m) ELSE m
        IN  multi' \in {Completed(x, e) : x \in multi_done(done, e, FALSE)}
  BY DEF Finish
<1> DEFINE m == Answered(multi, e, close)
           done == IF m.at[m.conn[e]].mux THEN process_pending_handles(m) ELSE m
           c == m.conn[e]
<1>2. Busy(m, e) /\ c \in m.pool /\ ~m.at[c].owes /\ Leavable(m, c, FALSE) /\ ~m.at[c].only
  BY AnsweredBusy DEF Finish
<1>3. PICK x \in multi_done(done, e, FALSE) : multi' = Completed(x, e)
  BY <1>1
<1>4. done \in {m, process_pending_handles(m)}
  OBVIOUS
<1> HIDE DEF done, m
<1>5. /\ Busy(done, e) /\ done.conn = m.conn /\ done.pool = m.pool /\ done.at = m.at
      /\ done.multiuse = m.multiuse
  BY <1>2, <1>4, MaybeWokenBusy
<1>6. Leavable(done, done.conn[e], FALSE)
  BY <1>2, <1>5 DEF Leavable
<1> QED BY <1>2, <1>3, <1>5, <1>6, LeaveWakes

LEMMA AgainWakes ==
    ASSUME NEW m, NEW e, Busy(m, e), m.conn[e] \in m.pool, NEW h \in Host,
           m.at[m.conn[e]].owes => m.at[m.conn[e]].close,
           Leavable(m, m.conn[e], FALSE), ~m.at[m.conn[e]].only, NEW n \in Again(m, e, h)
    PROVE  Tended(n, {}, {}, {}) /\ Awake(n)
<1>1. PICK x \in multi_done(m, e, FALSE) :
        n = [multistate(x, e, "CONNECT") EXCEPT !.host[e] = h, !.hops = @ + 1]
  BY DEF Again
<1>2. Busy(x, e) /\ e \in Easy /\ x \in Type
  <2>1. Busy(x, e)
    BY LeaveWakes
  <2> QED BY <2>1 DEF Busy, AtWork, Good
<1> DEFINE y == multistate(x, e, "CONNECT")
<1>3. Tended(y, {}, {}, {}) /\ Awake(y)
  BY <1>2, RestWakes DEF Busy, State, AtRestState
<1>4. y \in Type
  BY <1>2, StateIs DEF State
<1>5. n = [y EXCEPT !.host[e] = h, !.hops = y.hops + 1]
  BY <1>1
<1> HIDE DEF y
<1>6. y.hops + 1 \in Nat
  BY <1>4 DEF Type
<1> QED BY <1>2, <1>3, <1>4, <1>5, <1>6, RehostTended

LEMMA RedirectStepWakes ==
    ASSUME NEW e \in Easy, WInv, Redirect(e)
    PROVE  Tended(multi', {}, {}, {}) /\ Awake(multi')
<1>1. PICK close \in BOOLEAN, h \in Host : multi' \in Again(Answered(multi, e, close), e, h)
  BY DEF Redirect
<1> DEFINE m == Answered(multi, e, close)
           c == m.conn[e]
<1>2. Busy(m, e) /\ c \in m.pool /\ ~m.at[c].owes /\ Leavable(m, c, FALSE) /\ ~m.at[c].only
  BY AnsweredBusy DEF Redirect
<1>3. multi' \in Again(m, e, h)
  BY <1>1
<1> HIDE DEF m
<1> QED BY <1>2, <1>3, AgainWakes

LEMMA RetryStepWakes ==
    ASSUME NEW e \in Easy, WInv, Retry(e)
    PROVE  Tended(multi', {}, {}, {}) /\ Awake(multi')
<1> DEFINE m == multi
           c == m.conn[e]
           l == [m.at[c] EXCEPT !.close = TRUE]
           n == Relinked(m, c, l, m.multiuse)
<1>1. /\ c \in m.pool /\ c \in Conn /\ m \in Type /\ Placed(m, e) /\ Good(m, {}, {})
      /\ m.state[e] = "PERFORMING" /\ Busy(m, e) /\ Tended(m, {}, {}, {})
  BY AtRestBusy DEF Retry, IInv, Active, WInv
<1>2. /\ m.at[c] \in Link /\ Shared(m, c) /\ Quiet(m, c) /\ e \in Users(m, c) /\ Known(m, c)
      /\ InUse(m, c)
  BY <1>1 DEF Good, Type, Users, Tended, InUse
<1>3. ~m.at[c].only /\ m.multiuse \in [Host -> {"none", "unknown", "no", "multi"}]
      /\ m.at[c].host \in Host
  BY <1>1, <1>2 DEF Shared, Placed, Type
<1>4. /\ l \in Link /\ l.host = m.at[c].host /\ l.only = m.at[c].only
      /\ l.mux = m.at[c].mux /\ l.close /\ l.owes = m.at[c].owes /\ l.up = m.at[c].up
  BY <1>2, LinkFields, LinkKeeps
<1>5. multi' \in Again(n, e, m.at[c].host)
  <2>1. [m EXCEPT !.at[c].close = TRUE] = n
    BY <1>1 DEF Relinked, Type
  <2> HIDE DEF n
  <2> QED BY <2>1 DEF Retry
<1> HIDE DEF l, c
<1>6. (l.only => ~l.mux /\ ~l.close) /\ (l.owes => m.at[c].owes /\ ~l.mux)
  BY <1>2, <1>3, <1>4 DEF Quiet
<1>7. /\ Good(n, {}, {}) /\ n.at[c] = l
      /\ n.conn = m.conn /\ n.state = m.state /\ n.pool = m.pool /\ n.host = m.host
      /\ n.job = m.job /\ n.pending = m.pending
  BY <1>1, <1>3, <1>4, <1>6, TweakGood
<1>8. Tended(n, {}, {}, {}) /\ n.held = m.held
  <2>1. l.mux => l.up /\ m.multiuse[m.at[c].host] # "unknown"
    BY <1>2, <1>4 DEF Known
  <2> QED BY <1>1, <1>2, <1>3, <1>4, <2>1, RelinkTended
<1> HIDE DEF n
<1>9. Busy(n, e)
  BY <1>1, <1>7, <1>8 DEF Busy, AtWork, Good, Tended
<1>10. c = n.conn[e] /\ c \in n.pool /\ n.at[c].close /\ ~n.at[c].only
  BY <1>1, <1>3, <1>4, <1>7 DEF c
<1> QED BY <1>3, <1>5, <1>9, <1>10, AgainWakes DEF Leavable

LEMMA FailStepWakes ==
    ASSUME NEW e \in Easy, WInv, Fail(e)
    PROVE  Tended(multi', {}, {}, {}) /\ Awake(multi')
<1> DEFINE m == multi
           c == m.conn[e]
           done == IF m.at[m.conn[e]].mux THEN process_pending_handles(m) ELSE m
<1>1. Busy(m, e) /\ c \in m.pool
  BY AtRestBusy DEF Fail, Active
<1>2. multi' \in {Failed(x, e) : x \in multi_done(m, e, TRUE)}
            \cup {Completed(x, e) : x \in multi_done(done, e, TRUE)}
  BY DEF Fail
<1>3. done \in {m, process_pending_handles(m)}
  OBVIOUS
<1>4. Leavable(m, c, TRUE)
  BY <1>1 DEF Leavable, Busy, Tended, Known
<1> HIDE DEF done
<1>5. /\ Busy(done, e) /\ done.conn = m.conn /\ done.pool = m.pool /\ done.at = m.at
      /\ done.multiuse = m.multiuse
  BY <1>1, <1>3, MaybeWokenBusy
<1>6. Leavable(done, done.conn[e], TRUE)
  BY <1>4, <1>5 DEF Leavable
<1>7. CASE multi' \in {Failed(x, e) : x \in multi_done(m, e, TRUE)}
  <2>1. PICK x \in multi_done(m, e, TRUE) : multi' = Failed(x, e)
    BY <1>7
  <2> QED BY <1>1, <1>4, <2>1, LeaveWakes
<1>8. CASE multi' \in {Completed(x, e) : x \in multi_done(done, e, TRUE)}
  <2>1. PICK x \in multi_done(done, e, TRUE) : multi' = Completed(x, e)
    BY <1>8
  <2> QED BY <1>1, <1>5, <1>6, <2>1, LeaveWakes
<1> QED BY <1>2, <1>7, <1>8

LEMMA AddHandleStepWakes ==
    ASSUME NEW e \in Easy, WInv, curl_multi_add_handle(e)
    PROVE  Tended(multi', {}, {}, {}) /\ Awake(multi')
<1> DEFINE y == multistate(multi, e, "CONNECT")
<1>1. Busy(multi, e) /\ multi \in Type
  BY AtRestBusy DEF curl_multi_add_handle
<1>2. Tended(y, {}, {}, {}) /\ Awake(y)
  BY <1>1, RestWakes DEF Busy, State, AtRestState
<1>3. y \in Type /\ y.hops = multi.hops
  BY <1>1, StateIs DEF State
<1>4. multi' = [y EXCEPT !.host[e] = multi.job[e].host]
  BY DEF curl_multi_add_handle
<1> HIDE DEF y
<1>5. multi' = [y EXCEPT !.host[e] = multi.job[e].host, !.hops = y.hops]
  BY <1>3, <1>4 DEF Type
<1>6. multi.job[e].host \in Host /\ y.hops \in Nat
  BY <1>1, <1>3 DEF Type, Job
<1> QED BY <1>2, <1>3, <1>5, <1>6, RehostTended

LEMMA RemoveHandleStepWakes ==
    ASSUME NEW e \in Easy, WInv, curl_multi_remove_handle(e)
    PROVE  Tended(multi', {}, {}, {}) /\ Awake(multi')
<1> DEFINE left == IF multi.conn[e] = None THEN {multi} ELSE multi_done(multi, e, TRUE)
           drop(m) == IF m.held[e] = None THEN m ELSE Curl_conncache_remove_conn(m, m.held[e])
<1>0. multi \in Type /\ IInv /\ Tended(multi, {e}, {}, {})
  BY DEF WInv, IInv, Good, Tended
<1>1. PICK k \in left :
        LET b == process_pending_handles(drop([k EXCEPT !.pending = Without(k.pending, e)]))
        IN  multi' = [multistate(b, e, "out") EXCEPT !.host[e] = multi.job[e].host]
  BY DEF curl_multi_remove_handle
<1>2. Good(k, {e}, {}) /\ k.conn[e] = None /\ Tended(k, {e}, {}, {})
  <2>1. CASE multi.conn[e] = None
    <3>1. k = multi
      BY <2>1
    <3> QED BY <1>0, <2>1, <3>1 DEF IInv, Good
  <2>2. CASE multi.conn[e] # None
    <3>1. multi.state[e] \in Active /\ multi.conn[e] \in multi.pool
      BY <1>0, <2>2 DEF IInv, Good, Placed
    <3>2. Busy(multi, e)
      BY <3>1, AtRestBusy DEF Active
    <3>3. k \in multi_done(multi, e, TRUE)
      BY <2>2
    <3>4. Leavable(multi, multi.conn[e], TRUE)
      BY <1>0, <3>1 DEF Leavable, Tended, Known
    <3>5. Busy(k, e)
      BY <3>1, <3>2, <3>3, <3>4, LeaveWakes
    <3>6. k.conn[e] = None
      BY <3>1, <3>2, <3>3, LeaveGood DEF Busy
    <3> QED BY <3>5, <3>6 DEF Busy, AtWork
  <2> QED BY <2>1, <2>2
<1> DEFINE u == [k EXCEPT !.pending = Without(k.pending, e)]
           d == drop(u)
           b == process_pending_handles(d)
           y == multistate(b, e, "out")
<1>3. multi' = [y EXCEPT !.host[e] = multi.job[e].host]
  BY <1>1
<1>4. Good(u, {e}, {}) /\ Unlisted(u, e) /\ u.conn[e] = None
  BY <1>2, UnlinkGood
<1>5. Tended(u, {e}, {}, {})
  <2>1. k \in Type /\ Without(k.pending, e) \in Seq(Easy)
    BY <1>2, WithoutIs DEF Good, Type, Queue
  <2> HIDE DEF u
  <2> QED BY <1>2, <2>1, QueueTended DEF u
<1> HIDE DEF u
<1>6. d \in Type /\ Unlisted(d, e) /\ Tended(d, {e}, {}, {}) /\ d.held[e] = None /\ Queue(d)
  <2>1. CASE u.held[e] = None
    BY <1>4, <1>5, <2>1 DEF Good
  <2>2. CASE u.held[e] # None
    <3> DEFINE c == u.held[e]
    <3>1. /\ u \in Type /\ c \in u.pool /\ ~InUse(u, c) /\ u.at[c].host \in Host /\ Queue(u)
      BY <1>4, <2>2 DEF Good, HoldsOwn, Shared
    <3>2. d = Curl_conncache_remove_conn(u, c)
      BY <2>2
    <3> HIDE DEF d
    <3>3. Shrunk(u, d, {c})
      BY <3>1, <3>2, RemoveShrunk
    <3>4. Tended(d, {e}, {} \ {c}, {})
      BY <1>5, <3>1, <3>2, RemoveTended
    <3>5. {} \ {c} = {}
      OBVIOUS
    <3>6. d.held[e] = None
      BY <3>3 DEF Shrunk
    <3> HIDE DEF c
    <3> QED BY <1>4, <3>1, <3>3, <3>4, <3>5, <3>6 DEF Shrunk, Unlisted, Queue
  <2> QED BY <2>1, <2>2
<1> HIDE DEF d
<1>7. Same(d, b) /\ b.multiuse = d.multiuse /\ Lit(b, e)
  BY <1>6, Woken, WokenUse, WokenLit
<1> HIDE DEF b
<1>8. b \in Type /\ Tended(b, {e}, {}, {}) /\ b.held[e] = None
  BY <1>6, <1>7, SameTended DEF Same
<1>9. Tended(y, {}, {}, {}) /\ Awake(y)
  BY <1>7, <1>8, RestWakes DEF State
<1>10. y \in Type
  BY <1>8, StateIs DEF State
<1> HIDE DEF y
<1>11. multi' = [y EXCEPT !.host[e] = multi.job[e].host, !.hops = y.hops]
  BY <1>3, <1>10 DEF Type
<1>12. multi.job[e].host \in Host /\ y.hops \in Nat
  BY <1>0, <1>10 DEF Type, Job
<1> QED BY <1>9, <1>10, <1>11, <1>12, RehostTended

LEMMA PeerClosesStepWakes ==
    ASSUME NEW c \in Conn, WInv, PeerCloses(c)
    PROVE  Tended(multi', {}, {}, {}) /\ Awake(multi')
<1> DEFINE m == multi
           l == [m.at[c] EXCEPT !.alive = FALSE]
           n == Relinked(m, c, l, m.multiuse)
<1>1. c \in m.pool /\ m \in Type /\ Tended(m, {}, {}, {}) /\ Awake(m)
  BY DEF PeerCloses, WInv, IInv, Good
<1>2. /\ m.at[c] \in Link /\ Known(m, c)
      /\ m.multiuse \in [Host -> {"none", "unknown", "no", "multi"}]
  BY <1>1 DEF Tended, Type
<1>3. /\ l \in Link /\ l.host = m.at[c].host /\ l.only = m.at[c].only
      /\ l.mux = m.at[c].mux /\ l.close = m.at[c].close /\ l.up = m.at[c].up
  BY <1>2, LinkFields, LinkKeeps
<1>4. multi' = n
  BY <1>1 DEF PeerCloses, Relinked, Type
<1> HIDE DEF l
<1>5. Tended(n, {}, {}, {})
  <2>1. l.mux => l.up /\ m.multiuse[m.at[c].host] # "unknown"
    BY <1>2, <1>3 DEF Known
  <2> QED BY <1>1, <1>2, <1>3, <2>1, RelinkTended
<1>6. n.state = m.state /\ n.pending = m.pending /\ n.held = m.held
  BY <1>1, <1>2, <1>3, RelinkedIs
<1>7. Awake(n)
  BY <1>1, <1>6 DEF Awake
<1> QED BY <1>4, <1>5, <1>7

LEMMA InitWakes == ASSUME Init PROVE WInv
<1>1. multi.pool = {} /\ multi.pending = <<>>
  BY DEF Init
<1>2. \A e \in Easy : multi.held[e] = None /\ multi.state[e] = "out"
  BY DEF Init
<1>3. \A h \in Host : multi.multiuse[h] = "none"
  BY DEF Init
<1>4. Tended(multi, {}, {}, {})
  BY <1>1, <1>2, <1>3 DEF Tended, Guess, Bundle, HoldsLast, SendsUp
<1>5. Awake(multi)
  BY <1>1 DEF Awake
<1> QED BY <1>4, <1>5, InitGood DEF WInv

LEMMA NextWakes == ASSUME Faults = {}, WInv, [Next]_vars PROVE WInv'
<1>1. IInv'
  BY NextGood DEF WInv
<1>2. CASE UNCHANGED vars
  BY <1>1, <1>2 DEF vars, WInv
<1>3. CASE Next
  <2>1. Tended(multi', {}, {}, {}) /\ Awake(multi')
    <3>1. ASSUME NEW c \in Conn, PeerCloses(c)
          PROVE  Tended(multi', {}, {}, {}) /\ Awake(multi')
      BY <3>1, PeerClosesStepWakes
    <3>2. ASSUME NEW e \in Easy,
                 \/ Connect(e) \/ Refuse(e) \/ Resolved(e) \/ Connected(e) \/ Upgraded(e)
                 \/ Finish(e) \/ Redirect(e) \/ Retry(e) \/ Fail(e)
                 \/ \E n \in 0..1 : Settings(e, n)
                 \/ curl_multi_add_handle(e)
                 \/ curl_multi_remove_handle(e)
          PROVE  Tended(multi', {}, {}, {}) /\ Awake(multi')
      <4>1. CASE Connect(e) BY <4>1, ConnectStepWakes
      <4>2. CASE Refuse(e) BY <4>2, RefuseStepWakes
      <4>3. CASE Resolved(e) BY <4>3, ResolvedStepWakes
      <4>4. CASE Connected(e) BY <4>4, ConnectedStepWakes
      <4>5. CASE Upgraded(e) BY <4>5, UpgradedStepWakes
      <4>6. CASE Finish(e) BY <4>6, FinishStepWakes
      <4>7. CASE Redirect(e) BY <4>7, RedirectStepWakes
      <4>8. CASE Retry(e) BY <4>8, RetryStepWakes
      <4>9. CASE Fail(e) BY <4>9, FailStepWakes
      <4>10. CASE \E n \in 0..1 : Settings(e, n) BY <4>10, SettingsStepWakes
      <4>11. CASE curl_multi_add_handle(e) BY <4>11, AddHandleStepWakes
      <4>12. CASE curl_multi_remove_handle(e) BY <4>12, RemoveHandleStepWakes
      <4> QED BY <3>2, <4>1, <4>2, <4>3, <4>4, <4>5, <4>6, <4>7, <4>8, <4>9, <4>10, <4>11, <4>12
    <3> QED BY <1>3, <3>1, <3>2 DEF Next
  <2> QED BY <1>1, <2>1 DEF WInv
<1> QED BY <1>2, <1>3

\* As long as every request can be sent, a transfer that waits for a connection has
\* another one that works or holds a connection, whose end gives it another try: the
\* wake-ups of process_pending_handles, one at a time, leave nobody behind.
THEOREM NobodyIsForgotten == ASSUME Faults = {} PROVE Spec => []NobodyForgotten
<1>1. Init => WInv
  BY InitWakes
<1>2. WInv /\ [Next]_vars => WInv'
  BY NextWakes
<1>3. WInv => NobodyForgotten
  BY DEF WInv, Awake, AtRestState, NobodyForgotten
<1> QED BY <1>1, <1>2, <1>3, PTL DEF Spec
=============================================================================
