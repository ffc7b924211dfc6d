---------------------------- MODULE Tftp_proofs ----------------------------
(* Theorems about Tftp, for every file, every number of sessions and every   *)
(* width of block numbers, as long as packets live less than a wrap-around.  *)
EXTENDS Tftp, TLAPS

-----------------------------------------------------------------------------
(* Block numbers.                                                            *)

LEMMA ModulusType == Modulus \in Nat /\ Modulus > 1 /\ Lifetime \in Nat /\ 0 < Lifetime /\ Lifetime < Modulus
  BY LifetimeAssumption

\* A number is a multiple of the modulus and the block number it wraps to.
LEMMA Division ==
    ASSUME NEW n \in Nat
    PROVE  /\ Wrap(n) \in Block /\ n \div Modulus \in Nat
           /\ n = Modulus * (n \div Modulus) + Wrap(n)
<1>1. n % Modulus \in 0..(Modulus - 1)
  BY ModulusType
<1>2. n \div Modulus \in Nat
  BY ModulusType
<1>3. (n % Modulus) = n - Modulus * (n \div Modulus)
  BY ModulusType, Z3
<1>4. Modulus * (n \div Modulus) \in Int
  BY <1>2, ModulusType
<1>5. n = Modulus * (n \div Modulus) + (n % Modulus)
  BY <1>1, <1>3, <1>4
<1> QED BY <1>1, <1>2, <1>5 DEF Wrap, Block

LEMMA Multiples ==
    ASSUME NEW p \in Nat, NEW q \in Nat, p < q
    PROVE  Modulus * p + Modulus <= Modulus * q
<1>1. p + 1 <= q
  OBVIOUS
<1>2. Modulus * (p + 1) <= Modulus * q
  BY <1>1, ModulusType
<1> QED BY <1>2, ModulusType

\* Numbers less than a wrap-around apart have the same block number only if
\* they are equal.
LEMMA WrapInjective ==
    ASSUME NEW a \in Nat, NEW b \in Nat, Wrap(a) = Wrap(b), a - b < Modulus, b - a < Modulus
    PROVE  a = b
<1> DEFINE p == a \div Modulus
           q == b \div Modulus
           r == Wrap(a)
<1>1. p \in Nat /\ q \in Nat /\ r \in Block /\ a = Modulus * p + r /\ b = Modulus * q + r
  BY Division
<1>2. Modulus * p \in Int /\ Modulus * q \in Int
  BY <1>1, ModulusType
<1> HIDE DEF p, q, r
<1>3. ~(p < q) /\ ~(q < p)
  BY <1>1, <1>2, Multiples, ModulusType DEF Block
<1> QED BY <1>1, <1>3

\* What is left of a number after a multiple of the modulus is its block number.
LEMMA WrapUnique ==
    ASSUME NEW n \in Nat, NEW q \in Nat, NEW r \in Block, n = Modulus * q + r
    PROVE  Wrap(n) = r
<1> DEFINE p == n \div Modulus
           w == Wrap(n)
<1>1. p \in Nat /\ w \in Block /\ n = Modulus * p + w
  BY Division
<1>2. Modulus * p \in Int /\ Modulus * q \in Int
  BY <1>1, ModulusType
<1> HIDE DEF p, w
<1>3. ~(p < q) /\ ~(q < p)
  BY <1>1, <1>2, Multiples, ModulusType DEF Block
<1>4. w = r
  BY <1>1, <1>2, <1>3, ModulusType DEF Block
<1> QED BY <1>4 DEF w

LEMMA WrapSmall == ASSUME NEW r \in Block PROVE Wrap(r) = r
<1>1. Modulus * 0 = 0 /\ r \in Nat /\ r = Modulus * 0 + r
  BY ModulusType DEF Block
<1> QED BY <1>1, WrapUnique

LEMMA AfterWrap == ASSUME NEW n \in Nat PROVE After(Wrap(n)) = Wrap(n + 1)
<1> DEFINE q == n \div Modulus
           r == Wrap(n)
<1>1. q \in Nat /\ r \in Block /\ n = Modulus * q + r
  BY Division
<1> HIDE DEF q, r
<1>2. Modulus * q \in Int /\ Modulus * (q + 1) = Modulus * q + Modulus /\ Modulus * 0 = 0 /\ Modulus * 1 = Modulus
  BY <1>1, ModulusType
<1>3. CASE r + 1 < Modulus
  <2>1. r + 1 \in Block
    BY <1>1, <1>3, ModulusType DEF Block
  <2>2. Wrap(n + 1) = r + 1
    <3>1. n + 1 \in Nat /\ n + 1 = Modulus * q + (r + 1)
      BY <1>1, <1>2, ModulusType DEF Block
    <3> QED BY <3>1, <2>1, <1>1, WrapUnique
  <2>3. Wrap(r + 1) = r + 1
    BY <2>1, WrapSmall
  <2> QED BY <2>2, <2>3 DEF After, Wrap, r
<1>4. CASE r + 1 = Modulus
  <2>1. 0 \in Block
    BY ModulusType DEF Block
  <2>2. Wrap(n + 1) = 0
    BY <2>1, <1>1, <1>2, <1>4, WrapUnique DEF Block
  <2>3. Wrap(r + 1) = 0
    BY <2>1, <1>1, <1>2, <1>4, WrapUnique DEF Block
  <2> QED BY <2>2, <2>3 DEF After, Wrap, r
<1> QED BY <1>1, <1>3, <1>4, ModulusType DEF Block

LEMMA BeforeWrap == ASSUME NEW n \in Nat PROVE Before(Wrap(n + 1)) = Wrap(n)
<1> DEFINE q == n \div Modulus
           r == Wrap(n)
<1>1. q \in Nat /\ r \in Block /\ n = Modulus * q + r
  BY Division
<1> HIDE DEF q, r
<1>2. Modulus * q \in Int /\ Modulus * (q + 1) = Modulus * q + Modulus
  BY <1>1, ModulusType
<1>3. CASE r + 1 < Modulus
  <2>1. r + 1 \in Block
    BY <1>1, <1>3, ModulusType DEF Block
  <2>2. Wrap(n + 1) = r + 1
    <3>1. n + 1 \in Nat /\ n + 1 = Modulus * q + (r + 1)
      BY <1>1, <1>2, ModulusType DEF Block
    <3> QED BY <3>1, <2>1, <1>1, WrapUnique
  <2>3. Before(r + 1) = Wrap(r)
    BY <1>1, ModulusType DEF Before, Wrap, Block
  <2>4. Wrap(r) = r
    BY <1>1, WrapSmall
  <2> QED BY <2>2, <2>3, <2>4 DEF r
<1>4. CASE r + 1 = Modulus
  <2>1. 0 \in Block
    BY ModulusType DEF Block
  <2>2. Wrap(n + 1) = 0
    BY <2>1, <1>1, <1>2, <1>4, WrapUnique DEF Block
  <2>3. Before(0) = Modulus - 1
    BY ModulusType DEF Before
  <2> QED BY <2>2, <2>3, <1>1, <1>4, ModulusType DEF r, Block
<1> QED BY <1>1, <1>3, <1>4, ModulusType DEF Block

-----------------------------------------------------------------------------
(* The inductive invariant.                                                  *)

\* The session follows the client, as long as the client may talk to it.
SessionOK(s) ==
    /\ IF upload THEN Len(server[s].stored) = server[s].at /\ FromBeginning(server[s].stored)
       ELSE server[s].stored = <<>>
    /\ server[s].state = "none" => server[s].at = 0
    /\ peer \in {None, s} =>
          server[s].at \in (IF upload THEN {moved - 1, moved} ELSE {moved, moved + 1})

\* A packet is of the last Lifetime blocks of its sender.
ToClientOK(p) ==
    LET n == server[p.session].at IN
    /\ server[p.session].state # "none"
    /\ p.block = Wrap(p.number) /\ n - Lifetime < p.number /\ p.number <= n
    /\ p.kind = "data" => ~upload /\ p.number > 0 /\ (p.short <=> p.number = File)
    /\ p.kind = "ack" => upload
    /\ p.kind = "oack" => p.number = 0

ToServerOK(p) ==
    /\ p.session = peer
    /\ p.block = Wrap(p.number) /\ moved - Lifetime < p.number /\ p.number <= moved
    /\ p.kind = "ack" => ~upload
    /\ p.kind = "data" => upload /\ p.number > 0

\* The block numbers of the client are those of what it has moved.
ClientOK ==
    /\ code = "run" => expected = Wrap(moved + 1)
    /\ upload => awaiting = Wrap(moved) /\ delivered = <<>>
    /\ ~upload => Len(delivered) = moved /\ FromBeginning(delivered)
    /\ peer = None => moved = 0
    /\ code = "run" /\ ~upload => moved < File
    /\ code = "ok" =>
          IF upload THEN final /\ peer # None /\ server[peer].at = moved ELSE moved = File

IInv ==
    /\ TypeOK /\ ClientOK
    /\ \A s \in Session : SessionOK(s)
    /\ \A p \in toClient : ToClientOK(p)
    /\ \A p \in toServer : ToServerOK(p)

LEMMA InitIInv == ASSUME Init PROVE IInv
<1>1. 0 \in Block /\ 1 \in Block
  BY ModulusType DEF Block
<1>2. Wrap(0) = 0 /\ Wrap(1) = 1
  BY <1>1, WrapSmall
<1>3. TypeOK
  <2>1. server \in [Session -> [state : {"none", "on", "done"}, at : 0..File, stored : Seq(1..File)]]
    <3>1. [state |-> "none", at |-> 0, stored |-> <<>>]
            \in [state : {"none", "on", "done"}, at : 0..File, stored : Seq(1..File)]
      BY FileAssumption
    <3> QED BY <3>1 DEF Init
  <2>2. delivered \in Seq(1..File)
    BY DEF Init
  <2>3. /\ upload \in BOOLEAN /\ peer = None /\ code = "run" /\ moved = 0 /\ expected = 1
        /\ awaiting = 0 /\ final = FALSE /\ toClient = {} /\ toServer = {}
    BY DEF Init
  <2>4. /\ code \in {"run", "ok", "recv_error", "server_error", "timeout", "failed"}
        /\ peer \in Session \cup {None} /\ moved \in 0..File
        /\ expected \in Block /\ awaiting \in Block /\ final \in BOOLEAN
        /\ toClient \subseteq PacketType /\ toServer \subseteq PacketType
    <3>1. 0 \in 0..File
      BY FileAssumption
    <3> QED BY <1>1, <2>3, <3>1, Zenon
  <2> QED BY <2>1, <2>2, <2>3, <2>4, Zenon DEF TypeOK
<1>4. ClientOK
  BY <1>2, FileAssumption DEF Init, ClientOK, FromBeginning
<1>5. ASSUME NEW s \in Session PROVE SessionOK(s)
  <2>1. server[s].state = "none" /\ server[s].at = 0 /\ server[s].stored = <<>> /\ moved = 0
    BY DEF Init
  <2>2. 0 \in (IF upload THEN {moved - 1, moved} ELSE {moved, moved + 1})
    BY <2>1
  <2> QED BY <2>1, <2>2 DEF SessionOK, FromBeginning
<1> QED BY <1>3, <1>4, <1>5 DEF Init, IInv

\* What the client may conclude from the block number of a packet it takes.
LEMMA BlockTaken ==
    ASSUME IInv, NEW p \in toClient, Receive(p)
    PROVE  LET n == server[p.session].at IN
           /\ p \in PacketType /\ p.session \in Session /\ p.number \in 0..File /\ n \in 0..File
           /\ moved \in 0..File /\ p.number <= n /\ n - Lifetime < p.number
           /\ p.block = Wrap(p.number) /\ peer' = p.session
           /\ expected = Wrap(moved + 1)
           /\ n \in (IF upload THEN {moved - 1, moved} ELSE {moved, moved + 1})
           /\ ~upload /\ p.block = expected => p.number = moved + 1 /\ n = moved + 1
           /\ ~upload /\ p.block = Before(expected) => p.number = moved
           /\ upload /\ p.block = awaiting => p.number = moved /\ n = moved
<1> DEFINE n == server[p.session].at
<1>1. /\ p \in PacketType /\ p.session \in Session /\ p.number \in 0..File /\ n \in 0..File
      /\ moved \in 0..File /\ upload \in BOOLEAN
  BY DEF IInv, TypeOK, PacketType
<1>2. p.number <= n /\ n - Lifetime < p.number /\ p.block = Wrap(p.number)
  BY DEF IInv, ToClientOK
<1>3. peer' = p.session /\ peer \in {None, p.session} /\ code = "run"
  BY DEF Receive, FromPeer
<1>4. expected = Wrap(moved + 1) /\ (upload => awaiting = Wrap(moved))
  BY <1>3 DEF IInv, ClientOK
<1>5. n \in (IF upload THEN {moved - 1, moved} ELSE {moved, moved + 1})
  BY <1>1, <1>3 DEF IInv, SessionOK
<1> HIDE DEF n
<1>9. p.number \in Nat /\ moved \in Nat /\ moved + 1 \in Nat
  BY <1>1, FileAssumption
<1>6. ASSUME ~upload, p.block = expected PROVE p.number = moved + 1 /\ n = moved + 1
  <2>1. p.number - (moved + 1) < Modulus /\ (moved + 1) - p.number < Modulus
    BY <1>1, <1>2, <1>5, <1>6, ModulusType, FileAssumption
  <2>2. p.number = moved + 1
    BY <2>1, <1>1, <1>2, <1>4, <1>6, <1>9, WrapInjective
  <2> QED BY <2>2, <1>1, <1>2, <1>5, <1>6, FileAssumption
<1>7. ASSUME ~upload, p.block = Before(expected) PROVE p.number = moved
  <2>1. p.number - moved < Modulus /\ moved - p.number < Modulus
    BY <1>1, <1>2, <1>5, <1>7, ModulusType, FileAssumption
  <2>2. p.block = Wrap(moved)
    BY <1>1, <1>4, <1>7, <1>9, BeforeWrap
  <2> QED BY <2>1, <2>2, <1>1, <1>2, <1>9, WrapInjective
<1>8. ASSUME upload, p.block = awaiting PROVE p.number = moved /\ n = moved
  <2>1. p.number - moved < Modulus /\ moved - p.number < Modulus
    BY <1>1, <1>2, <1>5, <1>8, ModulusType, FileAssumption
  <2>2. p.number = moved
    BY <2>1, <1>1, <1>2, <1>4, <1>8, <1>9, WrapInjective
  <2> QED BY <2>2, <1>1, <1>2, <1>5, <1>8, FileAssumption
<1> QED BY <1>1, <1>2, <1>3, <1>4, <1>5, <1>6, <1>7, <1>8 DEF n

LEMMA WrapType == ASSUME NEW n \in Nat PROVE Wrap(n) \in Block
  BY Division

LEMMA PacketOfType ==
    ASSUME NEW s \in Session, NEW kind \in {"data", "ack", "oack", "error"}, NEW n \in 0..File,
           NEW short \in BOOLEAN
    PROVE  Packet(s, kind, n, short) \in PacketType
<1>1. n \in Nat
  BY FileAssumption
<1> QED BY <1>1, WrapType DEF Packet, PacketType

\* A packet sent to the client: the packets that stay in flight are old by less
\* than Lifetime blocks, whether or not the session has moved on with it.
LEMMA SentToClient ==
    ASSUME IInv, NEW s \in Session, NEW kind \in {"data", "ack", "oack", "error"},
           NEW n \in 0..File, NEW short \in BOOLEAN,
           toClient' = Sent(toClient, Packet(s, kind, n, short)),
           server'[s].at = n, server'[s].state # "none", n \in {server[s].at, server[s].at + 1},
           \A t \in Session \ {s} : server'[t] = server[t],
           kind = "data" => ~upload /\ n > 0 /\ (short <=> n = File),
           kind = "ack" => upload,
           kind = "oack" => n = 0,
           UNCHANGED client
    PROVE  /\ toClient' \subseteq PacketType
           /\ \A p \in toClient' : ToClientOK(p)'
<1> DEFINE new == Packet(s, kind, n, short)
<1>1. new \in PacketType
  BY PacketOfType
<1>2. toClient \subseteq PacketType
  BY DEF IInv, TypeOK
<1>3. toClient' \subseteq PacketType
  BY <1>1, <1>2 DEF Sent
<1>4. /\ new.session = s /\ new.kind = kind /\ new.block = Wrap(n) /\ new.number = n
      /\ new.short = short
  BY DEF Packet
<1>5. ToClientOK(new)'
  BY <1>4, ModulusType, FileAssumption DEF ToClientOK, client
<1>6. ASSUME NEW p \in toClient, p.session # s \/ p.number > n - Lifetime PROVE ToClientOK(p)'
  <2>1. p.session \in Session /\ p.number \in 0..File /\ ToClientOK(p)
    BY <1>2 DEF IInv, PacketType
  <2>2. CASE p.session # s
    BY <2>1, <2>2 DEF ToClientOK, client
  <2>3. CASE p.session = s
    <3>1. p.number <= n /\ n - Lifetime < p.number
      BY <2>1, <2>3, <1>6, FileAssumption, ModulusType DEF ToClientOK, IInv, TypeOK
    <3> QED BY <2>1, <2>3, <3>1 DEF ToClientOK, client
  <2> QED BY <2>2, <2>3
<1>7. \A p \in toClient' :
         p = new \/ (p \in toClient /\ (p.session # s \/ p.number > n - Lifetime))
  BY <1>4 DEF Sent
<1> QED BY <1>3, <1>5, <1>6, <1>7

\* A packet sent to the server, likewise.
LEMMA SentToServer ==
    ASSUME IInv, NEW p \in PacketType, p.kind \in {"data", "ack"},
           p.session = peer', peer \in {None, peer'}, p.block = Wrap(p.number),
           moved' \in {moved, moved + 1},
           moved' - Lifetime < p.number, p.number <= moved',
           p.number = moved' \/ (moved' = moved /\ p.number = 0),
           p.kind = "ack" => ~upload,
           p.kind = "data" => upload /\ p.number > 0,
           toServer' = Sent(toServer, p), upload' = upload
    PROVE  /\ toServer' \subseteq PacketType
           /\ \A q \in toServer' : ToServerOK(q)'
<1>1. toServer \subseteq PacketType /\ moved \in 0..File
  BY DEF IInv, TypeOK
<1>2. toServer' \subseteq PacketType
  BY <1>1 DEF Sent
<1>3. ToServerOK(p)'
  BY DEF ToServerOK
<1>4. ASSUME NEW q \in toServer, q.session # p.session \/ q.number > p.number - Lifetime
      PROVE  ToServerOK(q)'
  <2>1. q.session \in Session /\ q.number \in 0..File /\ ToServerOK(q) /\ p.number \in 0..File
    BY <1>1 DEF IInv, PacketType
  <2>2. q.session = peer /\ peer = peer'
    BY <2>1, NoneAssumption DEF ToServerOK
  <2>3. q.number <= moved' /\ moved' - Lifetime < q.number
    BY <1>1, <1>4, <2>1, <2>2, FileAssumption, ModulusType DEF ToServerOK
  <2> QED BY <2>1, <2>2, <2>3 DEF ToServerOK
<1>5. \A q \in toServer' :
         q = p \/ (q \in toServer /\ (q.session # p.session \/ q.number > p.number - Lifetime))
  BY DEF Sent
<1> QED BY <1>2, <1>3, <1>4, <1>5

-----------------------------------------------------------------------------
(* The steps.                                                                *)

\* What a session does leaves the client as it is; if its block stays or is one
\* further, as the client allows, the invariant is kept.
LEMMA ServerStep ==
    ASSUME IInv, NEW s \in Session, NEW at \in 0..File, NEW state \in {"on", "done"},
           NEW stored \in Seq(1..File), NEW kind \in {"data", "ack", "oack", "error"},
           NEW short \in BOOLEAN,
           at \in {server[s].at, server[s].at + 1},
           Becomes(s, state, at, stored),
           \/ toClient' = Sent(toClient, Packet(s, kind, at, short))
           \/ UNCHANGED toClient /\ at = server[s].at /\ server[s].state # "none",
           kind = "data" => ~upload /\ at > 0 /\ (short <=> at = File),
           kind = "ack" => upload,
           kind = "oack" => at = 0,
           IF upload THEN Len(stored) = at /\ FromBeginning(stored) ELSE stored = <<>>,
           peer \in {None, s} => at \in (IF upload THEN {moved - 1, moved} ELSE {moved, moved + 1}),
           code = "ok" /\ upload /\ peer = s => at = moved,
           UNCHANGED <<client, toServer>>
    PROVE  IInv'
<1> USE DEF client
<1>1. server \in [Session -> [state : {"none", "on", "done"}, at : 0..File, stored : Seq(1..File)]]
  BY DEF IInv, TypeOK
<1>2. /\ server'[s].state = state /\ server'[s].at = at /\ server'[s].stored = stored
      /\ \A t \in Session \ {s} : server'[t] = server[t]
  BY <1>1 DEF Becomes
<1>3. server' \in [Session -> [state : {"none", "on", "done"}, at : 0..File, stored : Seq(1..File)]]
  <2>1. [state |-> state, at |-> at, stored |-> stored]
           \in [state : {"none", "on", "done"}, at : 0..File, stored : Seq(1..File)]
    OBVIOUS
  <2> QED BY <1>1, <2>1 DEF Becomes
<1>4. toClient' \subseteq PacketType /\ \A p \in toClient' : ToClientOK(p)'
  <2>1. CASE UNCHANGED toClient /\ at = server[s].at /\ server[s].state # "none"
    <3>1. \A t \in Session : server'[t].at = server[t].at
      BY <1>2, <2>1
    <3>2. \A t \in Session : server[t].state # "none" => server'[t].state # "none"
      BY <1>2, <2>1
    <3> QED BY <2>1, <3>1, <3>2 DEF IInv, TypeOK, PacketType, ToClientOK
  <2>2. CASE toClient' = Sent(toClient, Packet(s, kind, at, short))
    BY <1>2, <2>2, SentToClient
  <2> QED BY <2>1, <2>2
<1>5. TypeOK'
  BY <1>3, <1>4 DEF IInv, TypeOK
<1>6. ClientOK'
  <2>1. code = "ok" /\ upload => server'[peer].at = moved
    BY <1>2 DEF IInv, ClientOK, TypeOK
  <2> QED BY <2>1 DEF IInv, ClientOK
<1>7. ASSUME NEW t \in Session PROVE SessionOK(t)'
  BY <1>2 DEF IInv, SessionOK
<1>8. \A p \in toServer' : ToServerOK(p)'
  BY DEF IInv, ToServerOK
<1> QED BY <1>4, <1>5, <1>6, <1>7, <1>8 DEF IInv

\* What the client does leaves the sessions and what they sent as they are.
LEMMA ClientStep ==
    ASSUME IInv, UNCHANGED <<upload, server, toClient>>, TypeOK', ClientOK',
           peer' \in Session, peer \in {None, peer'},
           server[peer'].at \in (IF upload THEN {moved' - 1, moved'} ELSE {moved', moved' + 1}),
           \A q \in toServer' : ToServerOK(q)'
    PROVE  IInv'
<1>1. ASSUME NEW s \in Session PROVE SessionOK(s)'
  BY NoneAssumption DEF IInv, SessionOK
<1>2. \A p \in toClient' : ToClientOK(p)'
  BY DEF IInv, ToClientOK
<1> QED BY <1>1, <1>2 DEF IInv

LEMMA NextAppended ==
    ASSUME NEW s \in Seq(1..File), FromBeginning(s), NEW n \in 1..File, n = Len(s) + 1
    PROVE  Append(s, n) \in Seq(1..File) /\ Len(Append(s, n)) = n /\ FromBeginning(Append(s, n))
<1>1. Append(s, n) \in Seq(1..File) /\ Len(Append(s, n)) = n
  OBVIOUS
<1>2. ASSUME NEW i \in DOMAIN Append(s, n) PROVE Append(s, n)[i] = i
  <2>1. CASE i = n
    BY <2>1
  <2>2. CASE i # n
    BY <2>2, <1>1 DEF FromBeginning
  <2> QED BY <2>1, <2>2
<1> QED BY <1>1, <1>2 DEF FromBeginning

\* What a session may conclude from the block number of a packet of the client.
LEMMA BlockServed ==
    ASSUME IInv, NEW p \in toServer
    PROVE  LET s == p.session
               n == server[s].at IN
           /\ s \in Session /\ p.number \in 0..File /\ moved \in 0..File /\ n \in 0..File
           /\ s = peer /\ p.block = Wrap(p.number)
           /\ p.kind = "ack" => ~upload
           /\ p.kind = "data" => upload
           /\ p.kind = "ack" /\ p.block = Wrap(n) => n = moved
           /\ p.kind = "data" /\ p.block = Wrap(n + 1) => p.number = n + 1 /\ n + 1 = moved
<1> DEFINE n == server[p.session].at
<1>1. p.session \in Session /\ p.number \in 0..File /\ moved \in 0..File /\ n \in 0..File
  BY DEF IInv, TypeOK, PacketType
<1>2. /\ p.session = peer /\ p.block = Wrap(p.number) /\ moved - Lifetime < p.number
      /\ p.number <= moved
      /\ p.kind = "ack" => ~upload
      /\ p.kind = "data" => upload
  BY DEF IInv, ToServerOK
<1>3. n \in (IF upload THEN {moved - 1, moved} ELSE {moved, moved + 1})
  BY <1>1, <1>2 DEF IInv, SessionOK
<1> HIDE DEF n
<1>4. p.number \in Nat /\ n \in Nat /\ n + 1 \in Nat /\ moved \in Nat
  BY <1>1, FileAssumption
<1>5. ASSUME p.kind = "ack", p.block = Wrap(n) PROVE n = moved
  <2>1. p.number - n < Modulus /\ n - p.number < Modulus
    BY <1>2, <1>3, <1>4, <1>5, ModulusType
  <2>2. p.number = n
    BY <2>1, <1>2, <1>4, <1>5, WrapInjective
  <2> QED BY <2>2, <1>2, <1>3, <1>4, <1>5
<1>6. ASSUME p.kind = "data", p.block = Wrap(n + 1) PROVE p.number = n + 1 /\ n + 1 = moved
  <2>1. p.number - (n + 1) < Modulus /\ (n + 1) - p.number < Modulus
    BY <1>2, <1>3, <1>4, <1>6, ModulusType
  <2>2. p.number = n + 1
    BY <2>1, <1>2, <1>4, <1>6, WrapInjective
  <2> QED BY <2>2, <1>2, <1>3, <1>4, <1>6
<1> QED BY <1>1, <1>2, <1>5, <1>6 DEF n

LEMMA ServerNext ==
    ASSUME IInv,
           \/ \E s \in Session : StartSession(s) \/ ServerError(s)
           \/ \E p \in toServer : ServerAck(p) \/ ServerData(p)
    PROVE  IInv'
<1> USE FileAssumption
<1>1. ASSUME NEW s \in Session
      PROVE  /\ server[s] \in [state : {"none", "on", "done"}, at : 0..File, stored : Seq(1..File)]
             /\ SessionOK(s) /\ upload \in BOOLEAN
             /\ server[s] = [state |-> server[s].state, at |-> server[s].at, stored |-> server[s].stored]
  BY DEF IInv, TypeOK
<1>2. ASSUME NEW s \in Session, StartSession(s) PROVE IInv'
  <2>1. PICK oack \in BOOLEAN :
          LET n == IF upload \/ oack THEN 0 ELSE 1
              kind == IF oack THEN "oack" ELSE IF upload THEN "ack" ELSE "data"
          IN  /\ Becomes(s, "on", n, <<>>)
              /\ toClient' = Sent(toClient, Packet(s, kind, n, n = File))
    BY <1>2 DEF StartSession
  <2> DEFINE n == IF upload \/ oack THEN 0 ELSE 1
             kind == IF oack THEN "oack" ELSE IF upload THEN "ack" ELSE "data"
  <2>2. server[s].state = "none" /\ server[s].at = 0
    BY <1>1, <1>2 DEF StartSession, SessionOK
  <2>3. /\ n \in 0..File /\ n \in {server[s].at, server[s].at + 1}
        /\ kind \in {"data", "ack", "oack", "error"} /\ (n = File) \in BOOLEAN
        /\ kind = "data" => ~upload /\ n > 0
        /\ kind = "ack" => upload
        /\ kind = "oack" => n = 0
    BY <2>2
  <2>4. Becomes(s, "on", n, <<>>)
    BY <2>1
  <2>5. upload => Len(<<>>) = n /\ FromBeginning(<<>>)
    BY DEF FromBeginning
  <2>6. /\ peer \in {None, s} => n \in (IF upload THEN {moved - 1, moved} ELSE {moved, moved + 1})
        /\ code = "ok" /\ upload /\ peer = s => n = moved
    <3>1. peer \in {None, s} => 0 \in (IF upload THEN {moved - 1, moved} ELSE {moved, moved + 1})
      BY <1>1, <2>2 DEF SessionOK
    <3>2. code = "ok" /\ upload /\ peer = s => 0 = moved
      BY <2>2 DEF IInv, ClientOK
    <3>3. moved \in 0..File
      BY DEF IInv, TypeOK
    <3> QED BY <3>1, <3>2, <3>3
  <2>7. UNCHANGED <<client, toServer>> /\ toClient' = Sent(toClient, Packet(s, kind, n, n = File))
    BY <1>2, <2>1 DEF StartSession
  <2>8. <<>> \in Seq(1..File)
    OBVIOUS
  <2> HIDE DEF n, kind
  <2> QED BY <1>1, <2>3, <2>4, <2>5, <2>6, <2>7, <2>8, ServerStep
<1>3. ASSUME NEW s \in Session, ServerError(s) PROVE IInv'
  <2>1. Becomes(s, "done", server[s].at, server[s].stored)
    BY <1>3 DEF ServerError
  <2>2. code = "ok" /\ upload /\ peer = s => server[s].at = moved
    BY DEF IInv, ClientOK
  <2> QED BY <1>1, <1>3, <2>1, <2>2, ServerStep DEF ServerError, SessionOK
<1>4. ASSUME NEW p \in toServer, ServerAck(p) PROVE IInv'
  <2> DEFINE s == p.session
             n == server[s].at
  <2>1. /\ s \in Session /\ s = peer /\ n = moved /\ ~upload /\ moved \in 0..File
    BY <1>4, BlockServed DEF ServerAck
  <2>2. UNCHANGED <<client, toServer>> /\ server[s].state = "on" /\ server[s].stored = <<>>
    BY <1>1, <1>4, <2>1 DEF ServerAck, SessionOK
  <2>3. CASE n = File
    <3>1. /\ Becomes(s, "done", n, server[s].stored)
          /\ UNCHANGED toClient
      BY <1>4, <2>3 DEF ServerAck
    <3> QED BY <1>1, <2>1, <2>2, <3>1, ServerStep
  <2>4. CASE n # File
    <3>1. /\ Becomes(s, "on", n + 1, server[s].stored)
          /\ toClient' = Sent(toClient, Packet(s, "data", n + 1, n + 1 = File))
      BY <1>4, <2>4 DEF ServerAck
    <3>2. n + 1 \in 0..File /\ n + 1 > 0 /\ n + 1 \in {moved, moved + 1}
      BY <2>1, <2>4
    <3> QED BY <1>1, <2>1, <2>2, <3>1, <3>2, ServerStep
  <2> QED BY <2>3, <2>4
<1>5. ASSUME NEW p \in toServer, ServerData(p) PROVE IInv'
  <2> DEFINE s == p.session
             n == server[s].at + 1
             state == IF p.short THEN "done" ELSE "on"
             stored == Append(server[s].stored, n)
  <2>1. s \in Session /\ s = peer /\ n = moved /\ p.number = n /\ upload /\ n \in 1..File
    <3>1. s \in Session /\ s = peer /\ n = moved /\ p.number = n /\ upload
      BY <1>5, BlockServed DEF ServerData
    <3>2. server[s].at \in 0..File /\ p.number \in 0..File
      BY BlockServed
    <3> QED BY <3>1, <3>2
  <2>2. UNCHANGED <<client, toServer>> /\ server[s].state = "on"
    BY <1>5 DEF ServerData
  <2>3. /\ Becomes(s, state, n, stored)
        /\ toClient' = Sent(toClient, Packet(s, "ack", n, FALSE))
    BY <1>5, <2>1 DEF ServerData
  <2>4. stored \in Seq(1..File) /\ Len(stored) = n /\ FromBeginning(stored)
    BY <1>1, <2>1, NextAppended DEF SessionOK
  <2>5. /\ state \in {"on", "done"} /\ n \in 0..File /\ n \in {server[s].at, server[s].at + 1}
        /\ n \in (IF upload THEN {moved - 1, moved} ELSE {moved, moved + 1})
    BY <2>1
  <2> HIDE DEF state, n, stored
  <2> QED BY <2>1, <2>2, <2>3, <2>4, <2>5, ServerStep
<1> QED BY <1>2, <1>3, <1>4, <1>5

\* The client sends the next block of an upload.
LEMMA NextSent ==
    ASSUME IInv, NEW p \in toClient, Receive(p), upload, SendNext(p), server[p.session].at = moved,
           UNCHANGED <<upload, delivered, server, toClient>>
    PROVE  IInv'
<1> USE FileAssumption
<1>1. /\ p.session \in Session /\ peer' = p.session /\ peer \in {None, peer'} /\ code = "run"
      /\ expected = Wrap(moved + 1) /\ moved \in 0..File
  BY BlockTaken DEF Receive, FromPeer
<1>2. PICK short \in BOOLEAN :
        /\ moved < File /\ moved' = moved + 1
        /\ toServer' = Sent(toServer, [Packet(p.session, "data", moved + 1, short)
                                          EXCEPT !.block = expected])
        /\ awaiting' = expected /\ expected' = After(expected)
        /\ final' = short /\ code' = code
  BY DEF SendNext
<1> DEFINE new == [Packet(p.session, "data", moved + 1, short) EXCEPT !.block = expected]
<1>3. /\ new = Packet(p.session, "data", moved + 1, short)
      /\ new.session = peer' /\ new.kind = "data" /\ new.number = moved + 1
      /\ new.block = Wrap(new.number)
  BY <1>1 DEF Packet
<1>4. new \in PacketType
  <2>1. moved + 1 \in 0..File
    BY <1>1, <1>2
  <2> QED BY <1>1, <1>3, <2>1, PacketOfType
<1>5. toServer' = Sent(toServer, new)
  BY <1>2
<1> HIDE DEF new
<1>6. toServer' \subseteq PacketType /\ \A q \in toServer' : ToServerOK(q)'
  <2>1. moved' - Lifetime < new.number /\ new.number <= moved' /\ new.number > 0
    BY <1>1, <1>2, <1>3, ModulusType
  <2>2. new.number = moved' /\ moved' \in {moved, moved + 1}
    BY <1>2, <1>3
  <2> QED BY <1>1, <1>3, <1>4, <1>5, <2>1, <2>2, SentToServer
<1>7. awaiting' = Wrap(moved') /\ expected' = Wrap(moved' + 1)
  BY <1>1, <1>2, AfterWrap
<1>8. moved' \in 0..File /\ awaiting' \in Block /\ expected' \in Block
  BY <1>1, <1>2, <1>7, WrapType
<1>9. TypeOK'
  BY <1>1, <1>2, <1>6, <1>8 DEF IInv, TypeOK
<1>10. ClientOK'
  BY <1>1, <1>2, <1>7, NoneAssumption DEF IInv, ClientOK
<1> QED BY <1>1, <1>2, <1>6, <1>9, <1>10, ClientStep

LEMMA ClientNext == ASSUME IInv, NEW p \in toClient, Client(p) PROVE IInv'
<1> USE FileAssumption
<1> DEFINE n == server[p.session].at
<1>1. /\ Receive(p) /\ UNCHANGED <<upload, server, toClient>> /\ code = "run" /\ p \in PacketType
      /\ peer' = p.session /\ peer' \in Session /\ peer \in {None, peer'} /\ peer' # None
      /\ n \in (IF upload THEN {moved - 1, moved} ELSE {moved, moved + 1})
      /\ moved \in 0..File /\ p.number \in 0..File /\ p.block = Wrap(p.number)
      /\ expected = Wrap(moved + 1)
  <2>1. Receive(p) /\ UNCHANGED <<upload, server, toClient>>
    BY DEF Client, Data, OptionsOfDownload, Ack, OptionsOfUpload, Error
  <2> QED BY <2>1, BlockTaken, NoneAssumption DEF Receive, FromPeer
<1>2. \* A step in which nothing moves and nothing is sent.
      ASSUME UNCHANGED <<moved, expected, awaiting, final, delivered, toServer>>,
             code' \in {code, "recv_error", "server_error"} \/ (code' = "ok" /\ upload /\ final /\ n = moved)
      PROVE  IInv'
  <2>1. TypeOK'
    BY <1>1, <1>2 DEF IInv, TypeOK
  <2>2. ClientOK'
    BY <1>1, <1>2 DEF IInv, ClientOK
  <2>3. ASSUME NEW q \in toServer' PROVE ToServerOK(q)'
    <3>1. q \in PacketType /\ ToServerOK(q) /\ q.session \in Session
      BY <1>2, <2>3 DEF IInv, TypeOK, PacketType
    <3>2. peer' = peer
      BY <1>1, <3>1, NoneAssumption DEF ToServerOK
    <3> QED BY <1>1, <1>2, <3>1, <3>2 DEF ToServerOK
  <2> QED BY <1>1, <1>2, <2>1, <2>2, <2>3, ClientStep
<1>3. \* A step of a download that acknowledges the packet, and may take its block.
      ASSUME ~upload, NEW number \in 0..File, Acknowledge(p, number), UNCHANGED <<awaiting, final>>,
             number = moved' \/ (moved' = moved /\ number = 0 /\ moved < Lifetime),
             moved' \in {moved, moved + 1}, moved' \in 0..File, n \in {moved', moved' + 1},
             delivered' \in Seq(1..File), Len(delivered') = moved', FromBeginning(delivered'),
             expected' \in Block,
             \/ code' = "run" /\ expected' = Wrap(moved' + 1) /\ moved' < File
             \/ code' = "ok" /\ moved' = File
             \/ code' = "failed"
      PROVE  IInv'
  <2> DEFINE ack == Packet(p.session, "ack", number, FALSE)
  <2>1. ack.session = peer' /\ ack.kind = "ack" /\ ack.block = Wrap(ack.number) /\ ack.number = number
    BY <1>1 DEF Packet
  <2>2. ack \in PacketType
    BY <1>1, PacketOfType
  <2>3. toServer' = Sent(toServer, ack)
    BY <1>3 DEF Acknowledge
  <2> HIDE DEF ack
  <2>4. moved' - Lifetime < number /\ number <= moved'
    <3>1. moved' \in Nat
      BY <1>3
    <3>2. CASE number = moved'
      <4>1. \A m \in Nat : m - Lifetime < m /\ m <= m
        BY ModulusType
      <4>2. moved' - Lifetime < moved' /\ moved' <= moved'
        BY <3>1, <4>1
      <4> QED BY <3>2, <4>2
    <3>3. CASE moved' = moved /\ number = 0 /\ moved < Lifetime
      BY <3>1, <3>3, ModulusType
    <3> QED BY <1>3, <3>2, <3>3
  <2>5. toServer' \subseteq PacketType /\ \A q \in toServer' : ToServerOK(q)'
    BY <1>1, <1>3, <2>1, <2>2, <2>3, <2>4, SentToServer
  <2>6. TypeOK'
    BY <1>1, <1>3, <2>5 DEF IInv, TypeOK
  <2>7. ClientOK'
    BY <1>1, <1>3 DEF IInv, ClientOK
  <2> QED BY <1>1, <1>3, <2>5, <2>6, <2>7, ClientStep
<1>4. CASE Data(p)
  <2>1. ~upload /\ p.kind = "data" /\ UNCHANGED <<awaiting, final>>
    BY <1>4 DEF Data
  <2>2. /\ delivered \in Seq(1..File) /\ Len(delivered) = moved /\ FromBeginning(delivered)
        /\ moved < File /\ expected \in Block
    BY <1>1, <2>1 DEF IInv, TypeOK, ClientOK
  <2>3. p.number > 0 /\ (p.short <=> p.number = File)
    BY <2>1 DEF IInv, ToClientOK
  <2>4. CASE IsNext(p)
    <3>1. /\ delivered' = Append(delivered, p.number) /\ Acknowledge(p, p.number)
          /\ moved' = moved + 1
          /\ IF p.short THEN code' \in {"ok", "failed"} /\ UNCHANGED expected
             ELSE expected' = After(expected) /\ UNCHANGED code
      BY <1>4, <2>4 DEF Data
    <3>2. p.number = moved + 1 /\ n = moved + 1
      BY <1>1, <2>1, <2>4, BlockTaken DEF IsNext
    <3>3. delivered' \in Seq(1..File) /\ Len(delivered') = moved' /\ FromBeginning(delivered')
      BY <1>1, <2>2, <2>3, <3>1, <3>2, NextAppended
    <3>4. After(expected) = Wrap(moved' + 1) /\ Wrap(moved' + 1) \in Block
      <4>1. moved + 1 \in Nat /\ moved' + 1 \in Nat
        BY <1>1, <3>1
      <4> QED BY <1>1, <3>1, <4>1, AfterWrap, WrapType
    <3> QED BY <1>1, <1>3, <2>1, <2>2, <2>3, <3>1, <3>2, <3>3, <3>4
  <2>5. CASE IsAgain(p) /\ ~IsNext(p)
    <3>1. Acknowledge(p, p.number) /\ UNCHANGED <<code, moved, expected, delivered>>
      BY <1>4, <2>5 DEF Data
    <3>2. p.number = moved
      BY <1>1, <2>1, <2>5, BlockTaken DEF IsAgain
    <3> QED BY <1>1, <1>3, <2>1, <2>2, <3>1, <3>2
  <2>6. CASE ~IsNext(p) /\ ~IsAgain(p)
    BY <1>2, <1>4, <2>6 DEF Data
  <2> QED BY <2>4, <2>5, <2>6
<1>5. CASE OptionsOfDownload(p)
  <2>1. /\ ~upload /\ Acknowledge(p, 0)
        /\ UNCHANGED <<code, moved, expected, awaiting, final, delivered>>
    BY <1>5 DEF OptionsOfDownload
  <2>2. /\ delivered \in Seq(1..File) /\ Len(delivered) = moved /\ FromBeginning(delivered)
        /\ moved < File /\ expected \in Block
    BY <1>1, <2>1 DEF IInv, TypeOK, ClientOK
  <2>3. moved < Lifetime
    <3>1. p.number = 0 /\ n - Lifetime < p.number
      BY <1>5 DEF OptionsOfDownload, IInv, ToClientOK
    <3> QED BY <1>1, <2>1, <3>1, ModulusType
  <2> QED BY <1>1, <1>3, <2>1, <2>2, <2>3
<1>6. CASE Ack(p)
  <2>1. upload /\ UNCHANGED delivered
    BY <1>6 DEF Ack
  <2>2. CASE ~Awaited(p)
    BY <1>2, <1>6, <2>1, <2>2 DEF Ack
  <2>3. CASE Awaited(p)
    <3>1. n = moved
      BY <1>1, <2>1, <2>3, BlockTaken DEF Awaited
    <3>2. CASE final
      BY <1>2, <1>6, <2>1, <2>3, <3>1, <3>2 DEF Ack
    <3>3. CASE ~final
      BY <1>1, <1>6, <2>1, <2>3, <3>1, <3>3, NextSent DEF Ack
    <3> QED BY <3>2, <3>3
  <2> QED BY <2>2, <2>3
<1>7. CASE OptionsOfUpload(p)
  <2>1. upload /\ UNCHANGED delivered
    BY <1>7 DEF OptionsOfUpload
  <2>2. CASE awaiting = 0
    <3>1. p.number = 0 /\ p.block = 0
      <4>1. p.number = 0
        BY <1>7 DEF OptionsOfUpload, IInv, ToClientOK
      <4>2. Wrap(0) = 0
        BY WrapSmall, ModulusType DEF Block
      <4> QED BY <1>1, <4>1, <4>2
    <3>2. n = moved
      BY <1>1, <2>1, <2>2, <3>1, BlockTaken
    <3> QED BY <1>1, <1>7, <2>1, <2>2, <3>2, NextSent DEF OptionsOfUpload
  <2>3. CASE awaiting # 0
    BY <1>2, <1>7, <2>1, <2>3 DEF OptionsOfUpload
  <2> QED BY <2>2, <2>3
<1>8. CASE Error(p)
  BY <1>2, <1>8 DEF Error
<1> QED BY <1>4, <1>5, <1>6, <1>7, <1>8 DEF Client

LEMMA NextIInv == ASSUME IInv, [Next]_vars PROVE IInv'
<1>1. ASSUME NEW failure \in {"timeout", "failed"}, Fail(failure) PROVE IInv'
  <2>1. TypeOK'
    BY <1>1 DEF Fail, IInv, TypeOK
  <2>2. ClientOK'
    BY <1>1 DEF Fail, IInv, ClientOK
  <2> QED BY <1>1, <2>1, <2>2 DEF Fail, IInv, SessionOK, ToClientOK, ToServerOK
<1>2. CASE UNCHANGED vars
  <2>1. TypeOK' /\ ClientOK'
    BY <1>2 DEF vars, client, IInv, TypeOK, ClientOK
  <2> QED BY <1>2, <2>1 DEF vars, client, IInv, SessionOK, ToClientOK, ToServerOK
<1> QED BY <1>1, <1>2, ClientNext, ServerNext DEF Next

THEOREM Invariance == Spec => []IInv
<1>1. Init => IInv
  BY InitIInv
<1>2. IInv /\ [Next]_vars => IInv'
  BY NextIInv
<1> QED BY <1>1, <1>2, PTL DEF Spec

-----------------------------------------------------------------------------
(* The theorems.                                                             *)

\* Every variable keeps its type: the client never counts past the file.
THEOREM TypeCorrect == Spec => []TypeOK
<1>1. IInv => TypeOK
  BY DEF IInv
<1> QED BY <1>1, Invariance, PTL

\* The blocks that download_file delivers, and those that a session stores of
\* what upload_file sends, are the file from its beginning, however often the
\* block numbers of 16 bits wrap around.
THEOREM BlocksInOrder == Spec => []InOrder
<1>1. ASSUME IInv PROVE InOrder
  <2>1. FromBeginning(delivered)
    BY <1>1 DEF IInv, ClientOK, FromBeginning, TypeOK
  <2>2. ASSUME NEW s \in Session PROVE FromBeginning(server[s].stored)
    BY <1>1 DEF IInv, SessionOK, FromBeginning
  <2> QED BY <2>1, <2>2 DEF InOrder
<1> QED BY <1>1, Invariance, PTL

\* A transfer that returns CURLE_OK has moved the whole file.
THEOREM OkIsWhole == Spec => []WholeFile
<1>1. ASSUME IInv PROVE WholeFile
  <2>1. ASSUME code = "ok", upload PROVE final /\ peer # None /\ Len(server[peer].stored) = moved
    BY <1>1, <2>1 DEF IInv, ClientOK, SessionOK, TypeOK
  <2>2. ASSUME code = "ok", ~upload PROVE Len(delivered) = File
    BY <1>1, <2>2 DEF IInv, ClientOK
  <2> QED BY <2>1, <2>2 DEF WholeFile
<1> QED BY <1>1, Invariance, PTL

\* The client and the session it is connected to are at most a block apart.
THEOREM InLockstep == Spec => []Lockstep
<1>1. ASSUME IInv PROVE Lockstep
  BY <1>1 DEF IInv, SessionOK, Lockstep, TypeOK
<1> QED BY <1>1, Invariance, PTL
=============================================================================
