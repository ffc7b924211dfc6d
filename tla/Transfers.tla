----------------------------- MODULE Transfers -----------------------------
(***************************************************************************)
(* The multi handle of src/original/lib: the transfers of multi.c, the     *)
(* connections that url.c and conncache.c give them, keep and share out,   *)
(* and the list of transfers that wait for one.                            *)
(*                                                                         *)
(* multi is struct Curl_multi with its easy handles and its connections.   *)
(* An operator named after a function of the code maps multi to multi, or  *)
(* to the set of values it may have next where the code takes the oldest   *)
(* of several connections: time is not modelled.  One action is one call   *)
(* of multi_runsingle for a transfer, from one wait to the next.           *)
(***************************************************************************)
EXTENDS Integers, Sequences, FiniteSets, SequencesExt

CONSTANTS
    Easy,       \* easy handles
    Host,       \* hosts, each with a bundle of its own
    Plain,      \* those that are spoken to without TLS
    Conn,       \* connections that may be open at the same time: a bound, never met
                \* before the limit in all
    None,       \* no connection
    Setups,     \* limits, and what each handle asks for
    Streams,    \* the most streams on a connection
    MaxHops,    \* redirects and retries in all
    Faults      \* {"DO"}: requests that cannot be sent are checked, too

\* CURLMOPT_MAX_HOST_CONNECTIONS, _MAX_TOTAL_CONNECTIONS and _MAXCONNECTS; 0 is no limit.
Limit == [host : Nat, total : Nat, kept : Nat]
\* A URL's host, CURLOPT_PIPEWAIT and CURLOPT_CONNECT_ONLY.
Job == [host : Host, wait : BOOLEAN, only : BOOLEAN]

ASSUME TransfersAssumption ==
    /\ Plain \subseteq Host
    /\ None \notin Conn /\ IsFiniteSet(Conn)
    /\ Setups \subseteq [limit : Limit, job : [Easy -> Job]]
    /\ \A s \in Setups : s.limit.total \in 1 .. Cardinality(Conn)
    /\ {Streams, MaxHops} \subseteq Nat
    /\ Faults \subseteq {"DO"}

VARIABLE multi
vars == <<multi>>

------------------------------------------------------------------------------
(* Transfers on connections, and those that wait for one.                    *)

Users(m, c) == {e \in Easy : m.conn[e] = c}
InUse(m, c) == Users(m, c) # {}
Bundle(m, h) == {c \in m.pool : m.at[c].host = h}

Curl_attach_connection(m, e, c) == [m EXCEPT !.conn[e] = c]
Curl_detach_connection(m, e) == [m EXCEPT !.conn[e] = None]

\* Curl_llist_remove of a handle, which is in the list at most once.
Without(s, e) ==
    IF \E i \in DOMAIN s : s[i] = e
    THEN RemoveAt(s, CHOOSE i \in DOMAIN s : s[i] = e)
    ELSE s

multistate(m, e, s) == [m EXCEPT !.state[e] = s]

\* Only the first that waits is given another try.
process_pending_handles(m) ==
    IF m.pending = <<>> THEN m
    ELSE LET e == Head(m.pending)
         IN  [multistate(m, e, "CONNECT") EXCEPT !.pending = Tail(@), !.woken = @ \cup {e}]

\* Curl_multi_connchanged: the next turn of multi_runsingle's loop, which it
\* causes, looks at the list.
Curl_multi_connchanged(m) == process_pending_handles(m)

------------------------------------------------------------------------------
(* The connection cache.                                                     *)

Closed == [host |-> None, up |-> FALSE, mux |-> FALSE, close |-> FALSE, only |-> FALSE,
           reuse |-> FALSE, alive |-> TRUE, owes |-> FALSE, streams |-> 0]

\* Out of its bundle and closed, whether or not the bundle is empty then.
Extract(m, c) ==
    [m EXCEPT !.pool = @ \ {c}, !.at[c] = Closed,
              !.held = [e \in Easy |-> IF @[e] = c THEN None ELSE @[e]]]

\* The last connection takes its bundle with it.
Curl_conncache_remove_conn(m, c) ==
    LET h == m.at[c].host
    IN  IF Bundle(m, h) = {c} THEN [Extract(m, c) EXCEPT !.multiuse[h] = "none"]
        ELSE Extract(m, c)

Curl_conncache_add_conn(m, e, c, h) ==
    [m EXCEPT !.pool = @ \cup {c},
              !.at[c] = [Closed EXCEPT !.host = h, !.only = m.job[e].only, !.streams = Streams],
              !.multiuse[h] = IF @ = "none" THEN "unknown" ELSE @]

\* Which connection Curl_conncache_extract_bundle may take, and _extract_oldest.
IdleIn(m, h) == {c \in Bundle(m, h) : ~InUse(m, c)}

\* Mutant: a connection in use may go, too.
IdleOrUsed(m) == {c \in m.pool : ~m.at[c].close /\ ~m.at[c].only}

Idle(m) == {c \in m.pool : ~InUse(m, c) /\ ~m.at[c].close /\ ~m.at[c].only}

\* The cache gives up its oldest connection when it has become too large.
Curl_conncache_return_conn(m) ==
    IF m.limit.kept > 0 /\ Cardinality(m.pool) > m.limit.kept /\ Idle(m) # {}
    THEN {Extract(m, c) : c \in Idle(m)}
    ELSE {m}

\* Mutant: those that wait are not looked at.
multi_doneNoWake(m, e, premature) ==
    LET c == m.conn[e]
        left == Curl_detach_connection(m, e)
    IN  IF InUse(left, c) THEN {left}
        ELSE IF m.at[c].close \/ (premature /\ ~m.at[c].mux)
        THEN {Curl_conncache_remove_conn(left, c)}
        ELSE Curl_conncache_return_conn(left)

\* Mutant: a transfer that was broken off leaves its connection to others.
multi_doneKept(m, e, premature) ==
    LET c == m.conn[e]
        left == Curl_detach_connection(process_pending_handles(m), e)
    IN  IF InUse(left, c) THEN {left}
        ELSE IF m.at[c].close THEN {Curl_conncache_remove_conn(left, c)}
        ELSE Curl_conncache_return_conn(left)

\* A transfer leaves its connection, which is kept, shared on or closed.
multi_done(m, e, premature) ==
    LET c == m.conn[e]
        left == Curl_detach_connection(process_pending_handles(m), e)
    IN  IF InUse(left, c) THEN {left}
        ELSE IF m.at[c].close \/ (premature /\ ~m.at[c].mux)
        THEN {Curl_conncache_remove_conn(left, c)}
        ELSE Curl_conncache_return_conn(left)

Completed(m, e) == multistate(m, e, "MSGSENT")

------------------------------------------------------------------------------
(* Finding a connection: create_conn.                                        *)

\* A bundle of which nothing is known yet makes CURLOPT_PIPEWAIT wait.
WaitsToKnow(m, e) == m.job[e].wait /\ m.multiuse[m.host[e]] = "unknown"

Candidates(m, e) ==
    {c \in Bundle(m, m.host[e]) :
        /\ ~m.at[c].only /\ ~m.at[c].close
        /\ InUse(m, c) => m.multiuse[m.host[e]] = "multi"}

\* Mutant: the connection itself is not asked whether it can multiplex.
FitsItsBundle(m, c) ==
    /\ m.at[c].up
    /\ InUse(m, c) => Cardinality(Users(m, c)) < m.at[c].streams

Fits(m, c) ==
    /\ m.at[c].up
    /\ InUse(m, c) => m.at[c].mux /\ Cardinality(Users(m, c)) < m.at[c].streams

Dead(m, c) == ~InUse(m, c) /\ ~m.at[c].alive

\* What ConnectionExists may choose from, and what it finds dead on its way.
Reusable(m, e) ==
    IF m.job[e].only \/ WaitsToKnow(m, e) THEN {}
    ELSE {c \in Candidates(m, e) : Fits(m, c) /\ ~Dead(m, c)}
FoundDead(m, e) ==
    IF m.job[e].only \/ WaitsToKnow(m, e) THEN {}
    ELSE {c \in Candidates(m, e) : Fits(m, c) /\ Dead(m, c)}

\* A connection that may soon be fit to share makes CURLOPT_PIPEWAIT wait, too.
\* (Left out: a plain connection whose upgrade to HTTP/2 is not settled; an idle one is
\* what only a request that could not be sent leaves.)
WaitsForPipe(m, e) ==
    /\ ~m.job[e].only
    /\ \/ WaitsToKnow(m, e)
       \/ m.job[e].wait /\ \E c \in Candidates(m, e) : ~m.at[c].up

CloseAll(m, cs) ==
    LET gone == {h \in Host : Bundle(m, h) # {} /\ Bundle(m, h) \subseteq cs}
    IN  [m EXCEPT !.pool = @ \ cs,
                  !.at = [c \in Conn |-> IF c \in cs THEN Closed ELSE @[c]],
                  !.held = [e \in Easy |-> IF @[e] \in cs THEN None ELSE @[e]],
                  !.multiuse = [h \in Host |-> IF h \in gone THEN "none" ELSE @[h]]]

\* At most once a second.
prune_dead_connections(m) == {m, CloseAll(m, {c \in m.pool : Dead(m, c)})}

\* Mutant: one more than the limit.
RoomAtHostOneMore(m, h) ==
    IF m.limit.host > 0 /\ Cardinality(Bundle(m, h)) > m.limit.host
    THEN {Extract(m, c) : c \in IdleIn(m, h)}
    ELSE {m}

\* Room for one more connection to a host and in all; none when there is none.
RoomAtHost(m, h) ==
    IF m.limit.host > 0 /\ Cardinality(Bundle(m, h)) >= m.limit.host
    THEN {Extract(m, c) : c \in IdleIn(m, h)}
    ELSE {m}
RoomInAll(m) ==
    IF m.limit.total > 0 /\ Cardinality(m.pool) >= m.limit.total
    THEN {Extract(m, c) : c \in Idle(m)}
    ELSE {m}

\* CURLE_NO_CONNECTION_AVAILABLE.
Pend(m, e) == [multistate(m, e, "PENDING") EXCEPT !.pending = Append(@, e)]

\* One that had to wait before lets the next one try when it has not to wait again.
Now(m, e) == IF e \in m.woken THEN process_pending_handles(m) ELSE m

\* The end of a transfer that fails: statemachine_end.
Failed(m, e) == Completed(process_pending_handles(m), e)

------------------------------------------------------------------------------
(* The states of a transfer.                                                 *)

\* MSTATE_DO and MSTATE_DID on a connection that is up.  A request goes out;
\* CURLOPT_CONNECT_ONLY is done and keeps the connection.
Sent(m, e) ==
    LET c == m.conn[e]
        sent == multistate(m, e, "PERFORMING")
    IN  IF m.at[c].mux THEN process_pending_handles(sent) ELSE [sent EXCEPT !.at[c].owes = TRUE]

\* What could not be sent on a new connection leaves it as it is.
NotSent(m, e) == {Failed(x, e) : x \in multi_done(m, e, FALSE)}

Do(m, e) ==
    IF m.job[e].only
    THEN {Completed([x EXCEPT !.held[e] = m.conn[e]], e) : x \in multi_done(m, e, FALSE)}
    ELSE {Sent(m, e)} \cup (IF "DO" \in Faults THEN NotSent(m, e) ELSE {})

Reuse(m, e, c) ==
    Do(Now([Curl_attach_connection(m, e, c) EXCEPT !.at[c].reuse = TRUE], e), e)

\* A new connection; its name is known, is asked for, or cannot be.
Create(m, e) ==
    LET c == CHOOSE x \in Conn : x \notin m.pool
        made == Curl_attach_connection(Curl_conncache_add_conn(m, e, c, m.host[e]), e, c)
        gone == Curl_conncache_remove_conn(Curl_detach_connection(made, e), c)
    IN  { multistate(Now(made, e), e, "CONNECTING"),
          multistate(Now(made, e), e, "RESOLVING"),
          Failed(Now(gone, e), e) }

NewConnection(m, e) ==
    LET rooms == UNION {RoomInAll(n) : n \in RoomAtHost(m, m.host[e])}
    IN  IF WaitsForPipe(m, e) THEN {Pend(m, e)}
        ELSE IF rooms # {} THEN UNION {Create(n, e) : n \in rooms}
        ELSE {Pend(n, e) : n \in IF RoomAtHost(m, m.host[e]) = {} THEN {m}
                                 ELSE RoomAtHost(m, m.host[e])}

Curl_connect(m, e) ==
    IF Reusable(m, e) # {}
    THEN UNION {Reuse(n, e, c) : n \in {CloseAll(m, dead) : dead \in SUBSET FoundDead(m, e)},
                                 c \in Reusable(m, e)}
    ELSE UNION {NewConnection(n, e) : n \in {CloseAll(m, FoundDead(m, e))}}

Connect(e) ==
    /\ multi.state[e] = "CONNECT"
    /\ \E m \in prune_dead_connections(multi) : multi' \in Curl_connect(m, e)

\* An option or a URL that cannot be used, before there is a connection.
Refuse(e) ==
    /\ multi.state[e] = "CONNECT"
    /\ multi' \in {Failed(multi, e), Failed(Now(multi, e), e)}

Resolved(e) ==
    /\ multi.state[e] = "RESOLVING"
    /\ LET m == multi
           gone == Curl_conncache_remove_conn(Curl_detach_connection(m, e), m.conn[e])
       IN  multi' \in {multistate(m, e, "CONNECTING"), Failed(gone, e)}

\* Curl_multiuse_state: ALPN has told what the connection can do.
Curl_multiuse_state(m, h, multiuse) ==
    process_pending_handles([m EXCEPT !.multiuse[h] = multiuse])

\* Curl_http2_switch and Curl_http2_upgrade.
Http2(m, c) ==
    Curl_multi_connchanged([m EXCEPT !.at[c] = [@ EXCEPT !.mux = TRUE, !.owes = FALSE],
                                     !.multiuse[m.at[c].host] = "multi"])

Connected(e) ==
    /\ multi.state[e] = "CONNECTING"
    /\ LET c == multi.conn[e]
           h == multi.at[c].host
           up == [multi EXCEPT !.at[c].up = TRUE]
           serial == Curl_multiuse_state(up, h, "no")
           shared == Curl_multiuse_state(up, h, "multi")
       IN  IF h \in Plain THEN multi' \in Do(up, e)
           ELSE \/ multi' \in Do(serial, e)
                \/ multi' \in Do(IF multi.job[e].only THEN shared ELSE Http2(shared, c), e)

\* The server takes up the offer of HTTP/2 on a plain connection.
Upgraded(e) ==
    /\ multi.state[e] = "PERFORMING"
    /\ LET c == multi.conn[e]
       IN  /\ multi.at[c].host \in Plain /\ ~multi.at[c].mux
           /\ multi' = Http2(multi, c)

\* SETTINGS change the number of streams, GOAWAY allows no more.
Settings(e, n) ==
    /\ multi.state[e] = "PERFORMING"
    /\ LET c == multi.conn[e]
       IN  /\ multi.at[c].mux /\ multi.at[c].streams # n
           /\ multi' = Curl_multi_connchanged([multi EXCEPT !.at[c].streams = n])

\* The response, all of it; its headers tell what the bundle is.
Answered(m, e, close) ==
    LET c == m.conn[e]
    IN  [m EXCEPT !.at[c].owes = FALSE,
                  !.at[c].close = @ \/ (close /\ ~m.at[c].mux),
                  !.multiuse[m.at[c].host] = IF m.at[c].mux THEN "multi" ELSE "no"]

Finish(e) ==
    /\ multi.state[e] = "PERFORMING"
    /\ \E close \in BOOLEAN :
         LET m == Answered(multi, e, close)
             done == IF m.at[m.conn[e]].mux THEN process_pending_handles(m) ELSE m
         IN  multi' \in {Completed(x, e) : x \in multi_done(done, e, FALSE)}

Again(m, e, h) ==
    {[multistate(x, e, "CONNECT") EXCEPT !.host[e] = h, !.hops = @ + 1] :
        x \in multi_done(m, e, FALSE)}

Redirect(e) ==
    /\ multi.state[e] = "PERFORMING" /\ multi.hops < MaxHops
    /\ \E close \in BOOLEAN, h \in Host : multi' \in Again(Answered(multi, e, close), e, h)

\* Curl_retry_request: a reused connection closes before it answers, or a stream
\* was refused.
Retry(e) ==
    /\ multi.state[e] = "PERFORMING" /\ multi.hops < MaxHops
    /\ LET c == multi.conn[e]
       IN  /\ multi.at[c].mux \/ multi.at[c].reuse
           /\ multi' \in Again([multi EXCEPT !.at[c].close = TRUE], e, multi.at[c].host)

\* The connection cannot be made, an error, a timeout; or the progress callback
\* aborts, and the transfer goes through MSTATE_DONE.
Fail(e) ==
    /\ multi.state[e] \in {"RESOLVING", "CONNECTING", "PERFORMING"}
    /\ LET done == IF multi.at[multi.conn[e]].mux THEN process_pending_handles(multi) ELSE multi
       IN  multi' \in {Failed(x, e) : x \in multi_done(multi, e, TRUE)}
                 \cup {Completed(x, e) : x \in multi_done(done, e, TRUE)}

------------------------------------------------------------------------------
(* The application and the peers.                                            *)

\* MSTATE_INIT is part of MSTATE_CONNECT.
curl_multi_add_handle(e) ==
    /\ multi.state[e] = "out"
    /\ multi' = [multistate(multi, e, "CONNECT") EXCEPT !.host[e] = multi.job[e].host]

\* A connection that CURLOPT_CONNECT_ONLY has kept goes with its handle.
curl_multi_remove_handle(e) ==
    /\ multi.state[e] # "out"
    /\ LET left == IF multi.conn[e] = None THEN {multi} ELSE multi_done(multi, e, TRUE)
           unlink(m) == [m EXCEPT !.pending = Without(@, e)]
           drop(m) == IF m.held[e] = None THEN m ELSE Curl_conncache_remove_conn(m, m.held[e])
           out(m) == [multistate(m, e, "out") EXCEPT !.host[e] = multi.job[e].host]
       IN  multi' \in {out(process_pending_handles(drop(unlink(m)))) : m \in left}

\* To a connection that is in use it is Fail or Retry.
PeerCloses(c) ==
    /\ c \in multi.pool /\ ~InUse(multi, c) /\ multi.at[c].alive
    /\ multi' = [multi EXCEPT !.at[c].alive = FALSE]

Init ==
    \E s \in Setups :
        multi = [limit |-> s.limit, job |-> s.job, host |-> [e \in Easy |-> s.job[e].host],
                 state |-> [e \in Easy |-> "out"],
                 conn |-> [e \in Easy |-> None], held |-> [e \in Easy |-> None],
                 pending |-> <<>>, woken |-> {}, hops |-> 0,
                 pool |-> {}, at |-> [c \in Conn |-> Closed],
                 multiuse |-> [h \in Host |-> "none"]]

Next ==
    \/ \E e \in Easy :
          \/ Connect(e) \/ Refuse(e) \/ Resolved(e) \/ Connected(e) \/ Upgraded(e)
          \/ Finish(e) \/ Redirect(e) \/ Retry(e) \/ Fail(e)
          \/ \E n \in 0..1 : Settings(e, n)
          \/ curl_multi_add_handle(e)
          \/ curl_multi_remove_handle(e)
    \/ \E c \in Conn : PeerCloses(c)

Spec == Init /\ [][Next]_vars

------------------------------------------------------------------------------
(* Properties.                                                               *)

\* There are never more connections than the application allows, to a host or in
\* all, whatever is reused, shared, evicted, retried or found dead on the way.
LimitsKept ==
    /\ multi.limit.total > 0 => Cardinality(multi.pool) <= multi.limit.total
    /\ multi.limit.host > 0 =>
          \A h \in Host : Cardinality(Bundle(multi, h)) <= multi.limit.host

\* While a transfer waits for a connection another one is at work, or holds a
\* connection for the application, whose end will let it try again: the chain of
\* wake-ups, one at a time, does not break.
NobodyForgotten ==
    multi.pending # <<>> =>
        \E e \in Easy : multi.state[e] \notin {"out", "PENDING", "MSGSENT"} \/ multi.held[e] # None

\* A connection that cannot multiplex never has two transfers on it.
NotMixed == \A c \in multi.pool : multi.at[c].mux \/ Cardinality(Users(multi, c)) <= 1

\* No connection is evicted, pruned or closed while a transfer uses it, and a
\* transfer leaves its connection before it goes on to another host, waits or ends.
UsedAreOpen ==
    \A e \in Easy :
        IF multi.state[e] \in {"RESOLVING", "CONNECTING", "PERFORMING"}
        THEN multi.conn[e] \in multi.pool /\ multi.at[multi.conn[e]].host = multi.host[e]
        ELSE multi.conn[e] = None

\* A connection that is kept has no answer under way, to be taken for that of
\* the next transfer.
KeptIsClean == \A c \in multi.pool : InUse(multi, c) \/ ~multi.at[c].owes
=============================================================================
