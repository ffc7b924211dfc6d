-------------------------------- MODULE Tftp --------------------------------
(***************************************************************************)
(* A TFTP transfer (src/safe/src/protocols/tftp.rs): the client is the      *)
(* thread of the transfer in download_file or upload_file; the sessions of  *)
(* the server and the network are external.                                *)
(*                                                                         *)
(* The network duplicates and reorders packets, and to lose one is not to   *)
(* receive it.  A packet lives until its sender is Lifetime blocks further. *)
(* The request, too, may be duplicated: each copy starts a session of its   *)
(* own, which sends from a port of its own.                                *)
(*                                                                         *)
(* A block of the file is its number in the file; a packet carries it as     *)
(* block % Modulus and, for the properties, as it is.                      *)
(***************************************************************************)
EXTENDS Integers, Sequences

CONSTANTS
    Session,     \* the sessions a request can start
    File,        \* the blocks of a file, the last of which is short; of a file the
                 \* application uploads, the most
    Modulus,     \* block numbers are u16: 65536
    Lifetime,
    None

ASSUME FileAssumption == File \in Nat /\ File > 0
ASSUME LifetimeAssumption ==
    Modulus \in Nat /\ Lifetime \in Nat /\ 0 < Lifetime /\ Lifetime < Modulus
ASSUME NoneAssumption == None \notin Session

VARIABLES
    upload,      \* metadata.upload
    code,        \* "run", or how the transfer ended
    peer,        \* the session the socket is connected to
    moved,       \* blocks delivered, or read from the application and sent
    expected,    \* expected_block, or next_block
    awaiting,    \* awaiting_ack
    final,       \* final_block_sent
    delivered,   \* what the application got: numbers of blocks
    server,      \* for each session: its state, its block and what it stored
    toClient, toServer

client == <<upload, code, peer, moved, expected, awaiting, final, delivered>>
vars == <<client, server, toClient, toServer>>

-----------------------------------------------------------------------------
(* Packets.                                                                  *)

\* Block numbers wrap around.
Wrap(n) == n % Modulus
AfterNoWrap(b) == b + 1
After(b) == (b + 1) % Modulus
Before(b) == (b - 1) % Modulus

Packet(s, kind, n, short) ==
    [session |-> s, kind |-> kind, block |-> Wrap(n), number |-> n, short |-> short]

\* A packet is sent, and what its sender sent Lifetime blocks before is gone.
Sent(net, p) ==
    {q \in net : q.session # p.session \/ q.number > p.number - Lifetime} \cup {p}

-----------------------------------------------------------------------------
(* Sessions of the server, external.                                         *)

Becomes(s, state, at, stored) ==
    server' = [server EXCEPT ![s] = [state |-> state, at |-> at, stored |-> stored]]

StartSession(s) ==
    /\ server[s].state = "none"
    /\ \E oack \in BOOLEAN :
          LET n == IF upload \/ oack THEN 0 ELSE 1
              kind == IF oack THEN "oack" ELSE IF upload THEN "ack" ELSE "data"
          IN  /\ Becomes(s, "on", n, <<>>)
              /\ toClient' = Sent(toClient, Packet(s, kind, n, n = File))
    /\ UNCHANGED <<client, toServer>>

\* An ACK of its block lets the session send the next one.
ServerAck(p) ==
    LET s == p.session
        n == server[s].at
    IN  /\ p.kind = "ack" /\ server[s].state = "on" /\ p.block = Wrap(n)
        /\ IF n = File
           THEN Becomes(s, "done", n, server[s].stored) /\ UNCHANGED toClient
           ELSE /\ Becomes(s, "on", n + 1, server[s].stored)
                /\ toClient' = Sent(toClient, Packet(s, "data", n + 1, n + 1 = File))
        /\ UNCHANGED <<client, toServer>>

\* The next block is stored and acknowledged.
ServerData(p) ==
    LET s == p.session
        n == server[s].at + 1
    IN  /\ p.kind = "data" /\ server[s].state = "on" /\ p.block = Wrap(n)
        /\ Becomes(s, IF p.short THEN "done" ELSE "on", n, Append(server[s].stored, p.number))
        /\ toClient' = Sent(toClient, Packet(s, "ack", n, FALSE))
        /\ UNCHANGED <<client, toServer>>

\* A session may fail at any time.
ServerError(s) ==
    /\ server[s].state = "on"
    /\ Becomes(s, "done", server[s].at, server[s].stored)
    /\ toClient' = Sent(toClient, Packet(s, "error", server[s].at, FALSE))
    /\ UNCHANGED <<client, toServer>>

-----------------------------------------------------------------------------
(* The client.                                                               *)

Init ==
    /\ upload \in BOOLEAN /\ code = "run" /\ peer = None
    /\ moved = 0 /\ expected = 1 /\ awaiting = 0 /\ final = FALSE /\ delivered = <<>>
    /\ server = [s \in Session |-> [state |-> "none", at |-> 0, stored |-> <<>>]]
    /\ toClient = {} /\ toServer = {}

\* The socket is connected to the first that answers; packets of others are
\* dropped.  (If it cannot be connected, the next send fails: Fail.)
FromAnyone(p) == TRUE
FromPeer(p) == peer = None \/ p.session = peer

Receive(p) == code = "run" /\ p \in toClient /\ FromPeer(p) /\ peer' = p.session

\* send_ack
Acknowledge(p, n) == toServer' = Sent(toServer, Packet(p.session, "ack", n, FALSE))

\* A DATA packet of the block expected is delivered, acknowledged (its ACK may
\* fail to be sent) and, if it is not full, the last one.
IsNextLoosely(p) == p.block \in {expected, Before(expected)}
IsNext(p) == p.block = expected
IsAgain(p) == p.block = Before(expected)
Data(p) ==
    /\ ~upload /\ Receive(p) /\ p.kind = "data"
    /\ \/ /\ IsNext(p)
          /\ delivered' = Append(delivered, p.number)
          /\ Acknowledge(p, p.number)
          /\ moved' = moved + 1
          /\ IF p.short THEN code' \in {"ok", "failed"} /\ UNCHANGED expected
             ELSE expected' = After(expected) /\ UNCHANGED code
       \/ /\ IsAgain(p) /\ ~IsNext(p)
          /\ Acknowledge(p, p.number)
          /\ UNCHANGED <<code, moved, expected, delivered>>
       \/ /\ ~IsNext(p) /\ ~IsAgain(p)
          /\ code' = "recv_error" /\ UNCHANGED <<moved, expected, delivered, toServer>>
    /\ UNCHANGED <<upload, awaiting, final, server, toClient>>

\* An OACK in a download.
OptionsOfDownload(p) ==
    /\ ~upload /\ Receive(p) /\ p.kind = "oack"
    /\ Acknowledge(p, 0)
    /\ UNCHANGED <<upload, code, moved, expected, awaiting, final, delivered, server, toClient>>

\* The next block is read and sent; a short one is the final one.
SendNext(p) ==
    \E short \in BOOLEAN :
        /\ moved < File /\ (moved + 1 = File => short)
        /\ moved' = moved + 1
        /\ toServer' = Sent(toServer, [Packet(p.session, "data", moved + 1, short)
                                          EXCEPT !.block = expected])
        /\ awaiting' = expected /\ expected' = After(expected)
        /\ final' = short
        /\ UNCHANGED code

\* An ACK: one that is not awaited is ignored.
AwaitedUnlessFinal(p) == final \/ p.block = awaiting
Awaited(p) == p.block = awaiting
Ack(p) ==
    /\ upload /\ Receive(p) /\ p.kind = "ack"
    /\ IF ~Awaited(p) THEN UNCHANGED <<code, moved, expected, awaiting, final, toServer>>
       ELSE IF final THEN code' = "ok" /\ UNCHANGED <<moved, expected, awaiting, final, toServer>>
       ELSE SendNext(p)
    /\ UNCHANGED <<upload, delivered, server, toClient>>

\* An OACK in an upload stands for the first ACK, and nothing else.
OptionsOfUpload(p) ==
    /\ upload /\ Receive(p) /\ p.kind = "oack"
    /\ IF awaiting = 0 THEN SendNext(p)
       ELSE code' = "recv_error" /\ UNCHANGED <<moved, expected, awaiting, final, toServer>>
    /\ UNCHANGED <<upload, delivered, server, toClient>>

\* An ERROR.
Error(p) ==
    /\ Receive(p) /\ p.kind = "error"
    /\ code' = "server_error"
    /\ UNCHANGED <<upload, moved, expected, awaiting, final, delivered, server, toClient, toServer>>

\* No packet for IO_TIMEOUT, a callback that aborts or a send that fails: the
\* client sends nothing twice, so a packet lost on its way to the server is the
\* end of an upload.
Fail(failure) ==
    /\ code = "run" /\ code' = failure
    /\ UNCHANGED <<upload, peer, moved, expected, awaiting, final, delivered, server,
                   toClient, toServer>>

Client(p) ==
    Data(p) \/ OptionsOfDownload(p) \/ Ack(p) \/ OptionsOfUpload(p) \/ Error(p)
Next ==
    \/ \E p \in toClient : Client(p)
    \/ \E failure \in {"timeout", "failed"} : Fail(failure)
    \/ \E s \in Session : StartSession(s) \/ ServerError(s)
    \/ \E p \in toServer : ServerAck(p) \/ ServerData(p)

Spec == Init /\ [][Next]_vars

-----------------------------------------------------------------------------
(* Properties.                                                               *)

\* Every variable has a value the code can give it.
Block == 0..(Modulus - 1)
PacketType ==
    [session : Session, kind : {"data", "ack", "oack", "error"}, block : Block,
     number : 0..File, short : BOOLEAN]
TypeOK ==
    /\ upload \in BOOLEAN /\ peer \in Session \cup {None}
    /\ code \in {"run", "ok", "recv_error", "server_error", "timeout", "failed"}
    /\ moved \in 0..File /\ expected \in Block /\ awaiting \in Block /\ final \in BOOLEAN
    /\ delivered \in Seq(1..File)
    /\ server \in [Session -> [state : {"none", "on", "done"}, at : 0..File, stored : Seq(1..File)]]
    /\ toClient \subseteq PacketType /\ toServer \subseteq PacketType

\* What arrives, here or at a session of the server, is the file from its
\* beginning: no block is missing, twice or at another's place, although block
\* numbers wrap around, packets are duplicated, overtake each other and come
\* from more sessions than one.
FromBeginning(s) == \A i \in DOMAIN s : s[i] = i
InOrder == FromBeginning(delivered) /\ \A s \in Session : FromBeginning(server[s].stored)

\* A transfer that ends well has moved the whole file: a download all of its
\* blocks, an upload all that the application gave, the last of which is short,
\* and the session that the client talked to has them.
WholeFile ==
    code = "ok" =>
        IF upload THEN final /\ peer # None /\ Len(server[peer].stored) = moved
        ELSE Len(delivered) = File

\* The client and its session are never more than a block apart.
Lockstep ==
    peer # None =>
        LET n == server[peer].at IN
        IF upload THEN n \in {moved - 1, moved} ELSE n \in {moved, moved + 1}
=============================================================================
