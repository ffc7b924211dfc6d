# Verification of port-libcurl

port-libcurl holds two implementations of one C interface: libcurl itself, in C, under
`src/original/lib`, and a port of it to Rust, `src/safe/src`, which is built in its
place and keeps the original for its headers, its tests and its documentation, where the
promises quoted below come from. They are different programs: the port runs a transfer as a blocking
thread, the original as a state machine that one call of `curl_multi_perform` moves on.
This directory has TLA+ models of those parts of both whose correctness depends on the
order in which things happen, the TLC runs that check them on small instances, and
proofs, checked by TLAPS, for every instance.

Contents: the system · the models · the runs · what was found · what is proved ·
what is not covered · plan.

## The system

### The port: parts, state and operations

| part | code | state | operations |
|---|---|---|---|
| multi handle | `multi/mod.rs` | `MultiInner`: list `easies`, map `records`, queue `messages`, callbacks, assignments, timer, `dead`; an event channel | `curl_multi_*` |
| workers | `multi/mod.rs` 246-276, `transfer/mod.rs` 568-580 | one thread per started transfer | run the transfer, send `Completed`, offer pushes |
| easy handles | `easy/handle.rs`, `easy/perform.rs` | a global registry by the handle's address: options, callbacks, info, attached multi | init, cleanup, setopt, perform, pause |
| pausing | `transfer/mod.rs` 373-433 | a global map of handle address to bits, with a condition variable | set, add, clear, wait |
| connection cache | `conn/cache.rs` | map of peer to connection id, order of use | remember, touch, remove |
| transfer loop | `transfer/mod.rs` 753-1034 | URL, method, body, credentials, count of redirects | one hop at a time |
| HSTS, cookies, Alt-Svc | `http/hsts.rs`, `http/cookies.rs`, `http/altsvc.rs` | a store per handle (or share), a file each | load once, record, look up, flush |
| HTTP/1 response | `transfer/mod.rs` 1211-1556, 2586-2954 | buffer, framing, low speed window | headers, body, trailers, write callback |
| HTTP/2 | `transfer/mod.rs` 2130-2468, `c_shim/http2_transport.c` | nghttp2 session in C | one stream, pushes |
| TFTP | `protocols/tftp.rs` | block numbers, peer, acknowledgement awaited | download, upload |
| other protocols | `protocols/*`, `ssh/mod.rs` | a dialogue on one connection | one transfer each |
| share handle | `share.rs` | shared cookies, HSTS, DNS and a use count by kind | setopt, locked access |
| global state | `global.rs`, `alloc.rs` | reference count, allocator, TLS backend | init, cleanup |
| connect-only, WebSocket | `ws.rs`, `abi/connect_only.rs` | a registry of sessions kept after the connect | send, recv, frames |
| TLS, DNS, DoH, URL API, MIME, headers API, C shims | `tls/`, `dns/`, `doh.rs`, `urlapi.rs`, ... | none that lasts between calls | configuration, parsing, formatting |

### The C library: parts, state and operations

| part | code | state | operations |
|---|---|---|---|
| transfers | `multi.c`, `transfer.c` | `mstate` of each easy handle, lists of those at work, waiting (`pending`) and done | `multi_runsingle`, one state after the other; add, remove |
| finding a connection | `url.c` 880-1370, 3500-3860 | limits, `previouslypending` | `create_conn`, `ConnectionExists`, `prune_dead_connections` |
| connection cache | `conncache.c` | bundles of connections by host, what is known of each (`multiuse`), use counts | add, remove, return, extract the oldest |
| FTP | `ftp.c`, `pingpong.c` | `struct ftp_conn`: state, counters, path, type and TLS level of the control connection; `struct FTP` of a transfer | `ftp_statemachine` by reply, `ftp_do_more`, `ftp_done` |
| IMAP, POP3, SMTP | `imap.c`, `pop3.c`, `smtp.c`, `curl_sasl.c` | a state machine over `pingpong.c` each | connect, do, done |
| HTTP | `http.c`, `http2.c`, `http_chunks.c`, proxies | request and header state, streams | request, headers, body |
| names and sockets | `hostip.c`, `asyn-*.c`, `connect.c`, `cf-*.c` | DNS cache, resolver thread, filters of a connection | resolve, connect, poll |
| stores | `cookie.c`, `hsts.c`, `altsvc.c`, `share.c` | files and lists | load, look up, save |
| TLS, SSH, QUIC | `vtls`, `vssh`, `vquic` | sessions of other libraries | handshake, read, write |
| tool | `src/original/src` | options, files | a user of the library |

### How they interact

In the C library nothing runs but in a call of the application. `multi_runsingle` moves a
transfer on as far as it can go; a transfer that finds no connection and may open none
goes to the list `pending`, and every event that may have made room (a connection comes
up, a transfer ends, streams are free) moves the first of them back. A connection belongs
to the cache and is attached to the transfers that use it; when the last one leaves it is
kept or closed. The protocol handlers, FTP among them, keep what they know of the
server with the connection, for the next transfer on it.

In the port the application calls the C interface on one thread per multi handle. `curl_multi_perform`
drains the event channel, turns `Completed` events into messages, starts a worker
for every record that has none and tells the timer callback. A worker runs the whole
transfer, blocking: it reads the options of its easy handle, calls the application's
write, read, header and progress callbacks *on the worker thread*, waits in the pause
registry when paused, and at last sends `Completed`. Removing a handle joins its
worker. Socket, timer and push callbacks are called on the application's thread with
the lock of the multi handle released, and may call the library again. Shared and
global state is reached from all threads, under a mutex each.

### What is hard

* What a connection remembers (directory, type, TLS level, kind of bundle) must be what
  the server has, after any number of transfers, each of which may fail half way.
* Answers on a control connection belong to commands by their order alone.
* Who waits for a connection is woken by somebody else, one at a time.
* A transfer may end at any moment around add, remove, cleanup, drain and wait, and
  its event may be anywhere between the channel and the messages; handles are known
  by their address, which is reused.
* Callbacks call back into a multi handle that is in the middle of a drain.
* Joins, pauses and waits can wait for one another.
* A chain of redirects carries credentials, a body, allowed protocols and what HSTS
  has learned from hop to hop, with early returns between.
* Data comes cut at any byte, late, twice or never; the connection may end anywhere.
* Counters meet limits: redirects, cache sizes, TFTP's 16 bits, time windows.

`PROJECT.json` lists each hazard at its line with the properties that cover it, or why
none does yet.

### What makes each part correct

* Multi handle: each added transfer ends once and is told once, with its own result,
  unless removed before; lists and registry agree; no worker is forgotten or outlives
  its handle; callbacks do not nest; every call returns; the timer is told in time.
* Connection cache: map and order agree; least recently used goes first; ids differ.
* Transfer loop: credentials stay with their origin; bodies follow methods; the
  protocols allowed stay allowed; a host known to want HTTPS is never asked in the
  clear; what was learned is saved.
* HTTP/1 response: what is delivered is the body, all of it when the transfer
  succeeds; no transfer is aborted as slow while its data comes and is read fast enough.
* FTP of the C library: a command meets the server in the directory, type and offset the
  client believes it to be in; commands and answers stay in step, also across transfers;
  TLS that is required is not given up; success means the whole file; every transfer ends.
* Connections of the C library: limits hold; who waits is woken; nothing in use is closed;
  no connection is shared that cannot be, or kept with an answer under way.
* TFTP: the file arrives from its beginning, in order, once, and whole on success.

## The models

### Multi (with MultiContract)

`Multi.tla` is the multi handle with its easy handles, workers and callbacks. The
application thread is a *stack machine*: `todo` is what is left to do of the calls in
progress. A call pushes its steps (`AddCall`, `RemoveCall`, `PerformCall`, ...), each
step is an action (`Drain`, `Completed`, `Start`, `Spawn`, `Join`, ...), and at a
callback the application may call again, which puts that call's steps on top. This is
how nested calls, early returns (`AfterReturn`) and a drain interrupted by callbacks are
modelled exactly. Steps that no lock, callback, join or channel operation separates in
the code are one action. Workers (`WorkerStart`, `WorkerWait`, `WorkerOffer`, ...) share
only `queue` and `paused` with the application thread.

| model | code |
|---|---|
| `easies`, `records`, `messages`, `dead`, `cbs`, `inCallback`, `assignments` | fields of `MultiInner` and `CallbackState` |
| `queue` | the channel of `EventQueue` |
| `attached`, `alive`, `paused` | registry of `easy/perform.rs`, allocation in `easy/handle.rs`, `PauseRegistry` |
| `worker[w]` | thread of `spawn_transfer`; its slot number stands for the join handle |
| `Handle` | an address: `EasyInit` may return one that was freed |
| `Completed` | `process_event`, which finds its record by address only |
| `owned`, `watched`, `told`, `rc` | what the application knows: for the properties and for early returns |

`MultiContract.tla` says what the multi interface promises of one handle: out, added,
done, told, and out again. `Status` maps a state of `Multi` to it.

### ConnCache (with LruList)

`ConnCache.tla` has the map and the order of `conn/cache.rs` and the limits combined by
`add_handle`; `Reuse` and `Open` are the two ways through `remember`, `Popped` its
eviction loop. `LruList.tla` is one list of connections in the order of use. Ids are
counted to `MaxId`; nothing depends on them but their being different.

### Redirects

`Redirects.tla` is `perform_transfer_impl`: `Hop` is a turn of the loop up to the
request (`preload_hsts`, HSTS upgrade, protocol check, credentials), `Respond` the
response with its redirect decision, next method and body, `Fail` an error; each ends
with what `finalize_hsts` does on that path, or does not. Servers answer anything. Time
is only the expiry of entries (`Expire`); `Reopen` closes the handle and opens another on
the same file.

### HttpBody

`HttpBody.tla` is the response of one HTTP/1 transfer. The server has a stream of symbols
to send; `got` and `used` are how far the client has read and parsed, so the client's
buffer is the part between, and any cut of the stream into packets is a sequence of
`Send` and `Receive`. `step` is the loop the client is in: `read_header_block`,
`transfer_body`, `read_line_buffered`, `ensure_buffered_data`, `consume_chunk_ending`,
the trailer loop, `deliver_write`. Seconds pass by `Tick`, which cannot happen while the
client has something to do, since it polls every 200 ms, unless it is in a callback or
paused. `fast` and `second` watch what the client *reads*, for `FastNotAborted`: a second it
spends in the write callback or paused is one in which it reads nothing.
A response says where its parts are: `blocks` are the places where its header
blocks begin, `body` is that of its body, and `lines` are those of its chunk lines; `ResponseAssumption` states that they are there,
and TLC evaluates it for the responses of the runs.

### Tftp

`Tftp.tla` is a transfer of `protocols/tftp.rs` against sessions of a server, one for
each copy of the request. The network keeps every packet sent in the last `Lifetime`
blocks and may deliver it again, in any order, or never. A packet has its number in the
file, which the properties use, and `number % Modulus`, which is all the code sees.

### Transfers (C library)

`Transfers.tla` is one record `multi`: the state, host and connection of each easy
handle, the list `pending`, and the connections with what `struct connectdata` and the
bundles say of them. An operator named after a function maps `multi` to `multi`
(`process_pending_handles`, `multi_done`, `Curl_conncache_remove_conn`), or to the set of values
it may have next where the code takes the oldest of several connections. One action is a
call of `multi_runsingle` from one wait to the next: `Connect` with all of `create_conn`
(pruning, reuse, waiting, limits, evictions), `Resolved`, `Connected` with the request
that goes out at once, and the ways in which a transfer ends or starts over.

| model | code |
|---|---|
| `state`, `pending`, `woken` | `mstate`, `multi->pending`, `previouslypending` |
| `conn`, `held` | `data->conn`; the connection CURLOPT_CONNECT_ONLY has left (`lastconnect_id`) |
| `pool`, `at` | the connections of `conncache` and their bits; `owes`: an answer is on its way |
| `multiuse` | `bundle->multiuse`, "none" without a bundle |
| `limit` | CURLMOPT_MAX_HOST_CONNECTIONS, _MAX_TOTAL_CONNECTIONS, _MAXCONNECTS |

MSTATE_INIT is part of MSTATE_CONNECT and MSTATE_DO to DID are one step, since nothing
waits between them on the protocols modelled. A connection in use that the peer closes is
`Fail` or `Retry`. The fault "DO" is a request that cannot be sent on a new connection.

### Ftp (C library)

`Ftp.tla` is the client of `ftp.c`: `ftpc` is `struct ftp_conn` and `struct FTP` with the
bits of the connection they use, `phase` the state of the multi handle (connect, doing,
more, perform, final, postquote, idle). `ftp_statemachine` maps `ftpc` and a reply to the next
`ftpc`, by one operator per state (`CwdResp`, `ProtResp`, `SizeResp`, ...) as the code has one
case or function per state; what they send is collected in `out`. The server is any
server that answers each command once: it has its own directory, type, offset and TLS
state, refuses what it likes, tells sizes or does not, and may lose the data connection at any
byte. A request is a download, upload, listing or question with its path, type, range,
quotes and dates. Paths are sequences of names, and replies are a code with the one word
or number the client takes from the text.

`Faults` are things that do go wrong with the properties as they stand; see the divergences.
A connection whose last answer the client has stopped waiting for (`GivenUp`) is kept by the code;
the model does not follow it further.

A definition whose name extends that of the next one (`AddCallNoDrain` before `AddCall`)
is a plausible slip. Nothing uses it: it is there to show that the property checked
against it can fail.

## The runs

`tlc -config <run>.cfg <module>`; all finish in minutes.

| run | module | checks | instance |
|---|---|---|---|
| `multi_core` | MCMulti | AttachedHaveRecords, WorkersHeld, TimerAnnounced, EndIsHeard, OwnResult, ContractSafety | 2 handles, 3 workers, 2 poll sockets; socket and timer callback, either may fail; no call out of a callback |
| `multi_reentrant` | MCMulti | EasiesUnique, MessagesUnique, CallbackExclusive, FreedIsForgotten | add and remove called inside the socket callback, which may fail; pushes, which the application may deny and which may get no worker |
| `multi_pause` | MCMulti | UnpausedEnds | pausing from both threads, fair |
| `multi_live` | MCMulti | ContractSpec, CallsReturn | fair; add, remove, wait, read, clean up |
| `conn_cache` | MCConnCache | OrderIsEntries, IdsUnique, LruSpec | 4 peers, limits none, 1, 2, 3 |
| `redirects` | MCRedirects | TypeOK, CredentialsStay, NeverPlain, FileIsStore, BodyFollowsRedirects | a host and its subdomain; 5 methods, 5 statuses, CURLOPT_POSTREDIR |
| `http_body` | MCHttpBody | OnlyBody, OkIsWhole, FastNotAborted, Ends | 14 responses, one with more than its Content-Length, cut and broken off anywhere; a limit of 1 byte/s over 2 s |
| `ftp` | MCFtp | CacheAgrees, InStep, KeptIsQuiet, TlsKept, OkIsWhole, Ends | 7 requests, any number of them in any order, 4 directories, files of 0 to 2 bytes, CURLOPT_USE_SSL all |
| `transfers` | MCTransfers | LimitsKept, NobodyForgotten, NotMixed, UsedAreOpen, KeptIsClean | 3 handles, 2 hosts with and without TLS, 2 connections, 2 streams, one redirect or retry, 3 setups |
| `tftp` | MCTftp | TypeOK, InOrder, WholeFile, Lockstep | 7 blocks numbered modulo 4, 2 sessions |

Why the bounds are enough. Every interaction in `Multi` is between a handle and itself
(reused address, old and new worker) or between two handles (list order, a callback
editing the other's record), so two handles, one more worker than handles, and a shortage
of sockets show each; `MaxQueue` only bounds what workers may *add* for no reason (wakeups,
offers), never `Completed`. The cache needs more peers than its largest limit. A chain
of redirects never needs more than three hops to leave a host, come back, and change
scheme; `HostsOrMethods` keeps the two questions apart that TLC need not multiply, who is
asked and with which method, and with HSTS leaves out the URLs no request can be made for. A chunked body of two chunks has every kind of boundary. With a file of 7 blocks
modulo 4 the numbers wrap within the file, and `Lifetime` 3 is the longest for which a
packet cannot be mistaken; the theorem is for every modulus. The low speed clock stops
only when it has counted more seconds than any response has bytes (`StopAssumption`).
In `ftp` a transfer is related to the one before it on the same connection, and what is
remembered is a directory, a type, an offset and a few flags, so requests that differ from
each other in each of these, in any order and number, show every pair; two
directories below the home directory make every CWD, MKD and CWD again. In `transfers`
three handles are one that holds a connection, one that waits for it, and one that waits
behind; two connections are the limit and one host more than that makes an eviction; one
hop takes a transfer from one host to the other or back to the start.
`multi_reentrant` does without the check for deadlock: workers whose record is gone keep
their number, and TLC runs out of numbers where the program would not. `tftp` does so since
a transfer ends.

Fairness. `Multi!Fairness`: steps of the library go on, callbacks return, each worker
goes on and ends its transfer (there are timeouts, or the peer answers), and the
application calls `curl_multi_perform` and `curl_multi_info_read` again and again, as an
application must; strong fairness, since those calls are possible only between others.
`HttpBody!Fairness`: the thread and time go on, a paused transfer is unpaused at some
time, and the write callback does not pause for ever. Nothing is asked of the server.
`Ftp!FairSpec`: weak fairness of `Progress`, that is, something happens while something
can: the application drives its transfer and the server answers what it is asked. Aborts and timeouts
are not in `Progress`; transfers end without them.

## What was found

These runs end in a violation on purpose: the property is what the documentation says,
the counterexample is what the code does. `PROJECT.json` has each with its quotation.

| run | property | the code |
|---|---|---|
| `remove_paused` | CallsReturn | `curl_multi_remove_handle` joins a worker that waits to be unpaused, for ever |
| `pipewait_forgotten` | NobodyForgotten | C library: a request that cannot be sent on a new connection leaves a bundle of unknown kind, for which CURLOPT_PIPEWAIT waits though nobody is at work on it |

### Divergences

The models follow the code also where a single line of it differs from the documentation
in `src/original/docs/libcurl`. No run is spent on these, the line says it all:

The port:

| code | the code | documentation |
|---|---|---|
| `multi/mod.rs` 1112 | the event of a transfer finds its record by the address of its handle, and a handle allocated for a push, at the address of a freed one, takes the result of the former transfer (why `OwnResult` is checked without pushes) | `curl_multi_info_read.3` 69 |
| `transfer/mod.rs` 2845 | HSTS is stored for the host CURLOPT_CONNECT_TO leads to and looked up for that of the URL (why `StaysSecure` assumes hosts connected to directly) | `opts/CURLOPT_CONNECT_TO.3` 62 |
| `transfer/mod.rs` 2779 | a chunked body whose last empty line comes in a packet of its own does not end while the server keeps the connection | `src/original/lib/http_chunks.c` 72 |
| `multi/mod.rs` 389 | an accepted push that gets no worker is freed, though the application owns it by then and is not told (`PushLaunch` takes it out of `owned`: to use it would be to use freed memory) | `opts/CURLMOPT_PUSHFUNCTION.3` 79 |
| `multi/mod.rs` 560 | removing a running handle closes its socket without CURL_POLL_REMOVE | `opts/CURLMOPT_SOCKETFUNCTION.3` 80 |
| `multi/mod.rs` 806 | `curl_multi_assign` takes any socket | `curl_multi_assign.3` 43 |
| `multi/mod.rs` 1260 | after a callback has returned -1 running transfers still succeed | `opts/CURLMOPT_SOCKETFUNCTION.3` 63 |
| `multi/mod.rs` 509 | an easy handle's CURLOPT_MAXCONNECTS enlarges the cache of the multi handle | `opts/CURLMOPT_MAXCONNECTS.3` 42 |
| `transfer/mod.rs` 922 | a worker that begins clears a pause set before | `curl_easy_pause.3` 67 |
| `transfer/mod.rs` 807 | the redirect protocols replace the allowed ones | `opts/CURLOPT_REDIR_PROTOCOLS_STR.3` 44 |
| `http/request.rs` 77 | a redirect past the limit is the result of a transfer that succeeds | `opts/CURLOPT_MAXREDIRS.3` 36 |
| `transfer/mod.rs` 795 | a limit of -1 is a limit of 0 | `opts/CURLOPT_MAXREDIRS.3` 42 |
| `transfer/mod.rs` 994 | a read-only HSTS file is written | `opts/CURLOPT_HSTS_CTRL.3` 51 |
| `transfer/mod.rs` 2836 | HSTS is learned from plain HTTP, too | `opts/CURLOPT_HSTS_CTRL.3` 39 |
| `transfer/mod.rs` 829 | a redirect no request can be made for loses what was learned (why `FileIsStore` leaves it out) | `opts/CURLOPT_HSTS.3` 35 |
| `transfer/mod.rs` 1422 | a body shorter than Content-Length is a success, and what is read past Content-Length is delivered with it (why `OkIsWhole` is about chunked bodies and bodies sent whole, and `OnlyBody` about `Body`, which has the surplus) | `libcurl-errors.3` 94 |
| `transfer/mod.rs` 1470 | a chunk that takes longer than the window is aborted however fast it comes (why `FastNotAborted` leaves chunks out) | `opts/CURLOPT_LOW_SPEED_LIMIT.3` 37 |
| `transfer/mod.rs` 357 | the time a transfer was paused, or was in its write callback, counts as slow: it is aborted however fast the server sends (why `FastNotAborted` is about seconds in which the client reads) | `curl_easy_pause.3` 60 |
| `transfer/mod.rs` 358 | a burst at the start of a window hides a silence longer than the window | `opts/CURLOPT_LOW_SPEED_TIME.3` 37 |
| `transfer/mod.rs` 1421 | CURLOPT_TIMEOUT ends no transfer | `opts/CURLOPT_TIMEOUT.3` 36 |

The C library. Paths are those in `src/original/lib`; with the setting named, `Ftp` or
`Transfers` violates the property named:

| code | the code | against |
|---|---|---|
| `ftp.c` 3549 | the type is remembered when TYPE is sent, and a refusal does not undo it: the next transfer leaves it out (`Faults` = {"TYPE"}, CacheAgrees) | the comment above it |
| `ftp.c` 2958 | a PWD that is refused leaves no entry path, and a later transfer on the connection has nowhere to start its relative path from but where the last one ended ({"PWD"}, CacheAgrees) | |
| `ftp.c` 3072 | a MKD that fails does not set `cwdfail`, so the path is remembered though the server is not in it (a request with `create` 1, CacheAgrees) | `ftp.h` 160 |
| `ftp.c` 1716 | a resumed download in ASCII sends RETR without SIZE and REST, so it asks for the whole file (a request with `ascii` and `resume` other than 0, CacheAgrees) | `opts/CURLOPT_RESUME_FROM.3` |
| `ftp.c` 377 | the server did not connect in time: the connection is kept, with the last word still to come (why KeptIsQuiet leaves `GivenUp` out) | |
| `ftp.c` 3372 | an abort, or a postquote command that is not answered in time, ends the wait for an answer and keeps the connection (the same) | |
| `ftp.c` 3607 | a TLS handshake that fails after RETR was sent goes back to DOING as if EPSV had failed ({"TLS"}, InStep) | the comment above it |
| `ftp.c` 2293 | a range that starts at the end of the file sets PPTRANSFER_NONE; `ftp_done` sends ABOR for it (3335), does not read the answer (3346) and keeps the connection (a request with `resume` = `len` and `max` > 0, or a range of a listing that is answered 450, KeptIsQuiet; why the theorems assume `RangesFit`) | the comment at 3378 |
| `conncache.c` 437 | the eviction for CURLMOPT_MAX_HOST_CONNECTIONS takes an idle connection that is held for CURLOPT_CONNECT_ONLY | `opts/CURLOPT_CONNECT_ONLY.3` 51 |
| `url.c` 784 | a connection held for CURLOPT_CONNECT_ONLY with input to be read counts as dead and is pruned | `opts/CURLOPT_CONNECT_ONLY.3` 51 |
| `multi.c` 3680 | one waiting transfer is moved, the comment says all are | `multi.c` 3678 |
| `multi.c` 3680 | a transfer that waits for a connection is not subject to its timeout | `opts/CURLOPT_TIMEOUT.3` 48 |
| `url.c` 954 | a transfer with CURLOPT_PIPEWAIT waits while a connection to a plain host is held for CURLOPT_CONNECT_ONLY, since its bundle stays unknown (why `NobodyForgotten` counts holders) | `opts/CURLOPT_PIPEWAIT.3` 53 |

## What is proved

By TLAPS, for every value of the constants that meets the module's assumptions (named
`...Assumption`, each weak: handles are finitely many and none is `NoHandle`, bounds are
natural numbers, `Lifetime < Modulus`).

**Multi** (`Multi_proofs`, with `RemoveAt_proofs` on removing from a sequence).
`TypeCorrect`, `EasiesAreRecords`, `CallbacksExclusive`. None of them is inductive by
itself: that a step finds a handle where it needs one, or that a callback's `CallbackReturn`
clears the flag of the right one, depends on the shape of the stack. `IInv` adds this
(`StackOK`): every step on the stack has the operand its kind needs, below every step that may return early
there is a "return" with no callback in between, and there is at most one callback
exactly when `in_callback` is set. A few lemmas say that
putting a well-formed body on top, taking the head and dropping to the next "return" keep
`StackOK`; each action then has a short proof.

**Contract** (`Multi_proofs` too). `MessagesAreOfFinished` and `KeepsContract`: without a
push callback every step of `Multi` is a step of `MultiContract` or a stutter. `Change`
lists the few ways in which records and messages change at all (a record is put in,
taken out, completed together with its message; a message is read; all are cleared), `ChangeStep`
shows that each action is one of them, and the two theorems need only `Change`. With
pushes neither holds as strongly (see the divergence at `multi/mod.rs` 1112), which is why they assume
that no push callback is used; the runs cover pushes for small instances.

**One call at a time** (`Multi_proofs`, the last part). `RegistryAgrees`, `NoOrphanWorkers`,
`TimerIsAnnounced` and `ResultsAreOwn` prove `AttachedHaveRecords`, `WorkersHeld`,
`TimerAnnounced` and the action property `OwnResult` under the assumption `OneCall`: no push
callback is used, and no callback adds or removes a handle. That is what libcurl asks of an
application (`curl_multi_remove_handle.3` 46: a handle may be removed "just not from within any
libcurl callback function"; CURLM_RECURSIVE_API_CALL, `libcurl-errors.3` 323), and what the run
`multi_core` checks on a small instance. All of them speak of states in the middle of
a call, where a record has been taken out but its worker is not joined yet, or a
worker has been spawned but its record does not know; so their inductive invariant
`CallInvariant` is about the steps that are still on the stack. `Arranged` says in which
order they lie: what stands above what, that a timer update follows every step that
may need one, that each handle is started at most once. `Facts` says what each pending
step knows: `Attachment` which handles are attached, have a record and are alive while one is
being added or removed; `Ownership` and `Gone` what is still to come for a handle that is
removed or freed; `Held` that a running worker is its record's or is about to be joined,
`Unheld` that nobody else refers to it; `Reported` that an event in the queue or being drained
comes from the worker the record holds. `TimerDue` says that while transfers wait to be
started the application has been told, or the timer update is the next step; `MessageDue` that
while a message is unread it has been told, or a step that will tell it is still to come
(`Announcing`). Each step is shown to keep the order, then
each fact, mostly through what it adds to or takes from the stack and to whom.

**What is freed** (`Multi_proofs`, the end). `FreedAreForgotten` is `FreedIsForgotten` for every
instance, with no assumption on callbacks: streams are pushed, denied, accepted and left
without a worker, while callbacks add and remove handles. The library frees a handle several
steps after it decided to, and in between the application runs: so the
invariant `Forgotten` says what each pending step may rely on. `Claims` says that a handle
about to be freed is not owned and has no record but one that is still to be taken out, and that a
pushed one whose acceptance is being looked at has none; `Ordered` that no two steps on the stack disagree
about a handle (`Compatible`); `Detaching` that a handle is detached right after it is unlinked, or
when the multi handle has no record of it.

**ConnCache** (`ConnCache_proofs`). `CacheAgrees`, `IdsAreUnique` and `ImplementsLru`,
the refinement of `LruList` under `list <- Connections`. The eviction loop pops exactly
one key because the order has just the keys of the map (`PopsOne`), and that is why
`OrderIsEntries` must be proved first.

**Redirects** (`Redirects_proofs`). `CredentialsKept` and `BodyAsMethod` for all hosts,
options and chains. `FileSaved` assumes that redirects lead to schemes a request can be
made for, `StaysSecure` that hosts are connected to directly and HSTS is on: without
these neither holds: see the divergences at `transfer/mod.rs` 829 and 2845. `TypeCorrect` bounds the
redirects a transfer follows by its limit.

**HttpBody** (`HttpBody_proofs`). `OnlyTheBody`, `SuccessIsWhole` and `FastIsNotAborted`, for all
responses that meet `ResponseAssumption`, those with more or less than their Content-Length
included. Proofs cannot compute what a response built from any number of
chunks looks like, so a response says where its parts are (`blocks`, `body`, `lines`) and the
assumption says, place by place, what follows there (`BlocksFit`, `PlainFits`, `ChunksFit`);
it asks nothing of a response from where it is malformed on, and the TLC run evaluates
it for each of its responses, the malformed ones included. One thing in it is a limit: the client finds the
end of a header block at the same place whatever comes after, which is not so for a
response with bare line feeds whose body holds an empty line that ends in CR LF, as `find_header_end`
(`transfer/mod.rs` 3774) looks for that one first. The invariant `Parsed` says for each
loop of the client where in the response it is: at a header block, in a body of which all that
was read is delivered or about to be (`InBody`), at the line of a chunk with just the
chunks before delivered (`AtLine`), at the data of one (`InChunk`), or at the end of a
connection that broke off before the body (`Lost`), and it always says that what
was delivered and what is being delivered are the next of `Body` (`Copied`): the payload of a
chunked response, all that follows the headers of any other.
`FastIsNotAborted` needs of this only the types: `Paced` says that since the second in which a
window began the bytes counted in it are at least twice the limit for each second, and
the one second that may be missing is made up for by the factor of two (`NotTooSlow`).

**Tftp** (`Tftp_proofs`). `BlocksInOrder`, `OkIsWhole`, `InLockstep`, `TypeCorrect` for
every file length, modulus and number of sessions. The invariant says how far client
and session are apart, and that a packet in the network is less than `Lifetime` blocks
old; as numbers less than a modulus apart are equal when their residues are
(`WrapInjective`), the 16-bit number then identifies the block (`BlockTaken`). The
arithmetic of `%` is proved from the division property, not assumed.

**Transfers** (`Transfers_proofs`). `LimitsAlwaysKept`, `NeverMixed`, `UsedStayOpen` and
`KeptStayClean`, for all numbers of transfers, hosts, connections, streams and redirects,
whether or not requests fail to be sent. They are proved together, as parts of one
invariant `Good`: that no connection is evicted under a transfer, for one, needs the list
of those that wait to hold only transfers that wait, each once, so that a wake-up never
disturbs one at work; and that a new transfer reads no answer of an old one needs a
connection that cannot multiplex to have one user. Inside a step parts of it are broken for a while:
`Good(m, E, D)` says all but the placing of the transfers `E`, which are being moved, and the
answers on the connections `D`, which are about to be closed. Each operator of the model
has a lemma that tells what it does to `Good`, and the action that uses it cites that. The
assumption that total connections are limited by `Conn` is needed for `Create` to find a
connection at all.

**Wake-ups** (`Transfers_proofs`, the second part). `NobodyIsForgotten`: `NobodyForgotten` for all constants, under
the assumption `Faults = {}` that every request can be sent; without it the property does not
hold, as the run `pipewait_forgotten` shows. `process_pending_handles` wakes one transfer
at a time, so it is to be shown that whoever is woken either goes on, and wakes the next when it
ends, or waits again because of somebody else who will. `NobodyForgotten` says nothing of why a
transfer may wait, so it is not inductive: `WInv` adds to the invariant above that
a connection nobody uses can be had, unless the application holds it (`Tidy`), that a bundle is of
unknown kind only while all its connections are in use or held (`Guess`), and what is
known of a connection that multiplexes (`Known`). From these follow the three reasons to
wait, each with a user or a holder behind it: `WaitRelies` for CURLOPT_PIPEWAIT, `FullRelies`
for the limits, and `AllTakenRelies` for the limit in all. Every step that ends or moves a transfer
has first woken another (`Lit`).

**Ftp** (`Ftp_proofs`). `AlwaysInStep`, `KeptConnectionsAreQuiet`, `TlsIsKept` and `CachesAreRight`: for all
requests, directories, levels of CURLOPT_USE_SSL and refusals, over any number of transfers on one
connection. The client never knows whose answer it reads, so the invariant `Talk` says what it waits
for: `Awaits` computes from the phase and the state alone whether that is the answer to a
command, the last word on a transfer, nothing, or the end of the connection; `Agree` says
what is then under way (`Unserved` or `Served`, `LastWordDue`, `Quiet`, `AtEnd`), and
`ClientOK` what the client keeps meanwhile: which states occur in which phase, that a second connection
that is still to be made leaves the state at STOP, that `datassl` is what the server was told with PROT.
It also keeps where ABOR can be due (`Aborts`), as `ftp_done` does not read its answer.
Each handler has a lemma that from an answer read (`Quiet`, or
`LastWordDue` after 150) it leaves the client waiting for just what it has sent, if anything; `AfterLogin`,
`AfterDoing`, `AfterMore` and the lemmas on `ftp_done` (`DoneQuiet`, `DoneLast`, `DoneTimeout`) sum these up
by phase, and each step of `TalkNext` cites one. Two assumptions are made: `"TLS" \notin Faults`, as a handshake
that fails after RETR sends a command while the transfer's last word is still due, and `RangesFit`,
as a range that begins at the end of a file sends ABOR and keeps the connection: without them
`InStep` and `KeptIsQuiet` do not hold (the divergences at `ftp.c` 3607 and 2293). All other
faults are allowed.

`CachesAreRight` is about what the client leaves out because it believes it done: CWD, TYPE
and REST. That a file is named in the right directory depends on transfers long past, so `Cached` adds to `Talk` where
the server is at each state: `PathKept` its directory, `TypeKept` its type, `RestKept` its
offset. Each takes the `Code` of the answer about to be read: until a CWD is answered the server is in
the directory of the items before (`Reached`), or already one further if the answer says so.
`Command` says that the command under way does to the server what the client takes it to do. A
handler then leaves `CacheNext`: a further state of which the same holds, or the state STOP with the
server in place (`Settled`), or a result after which `ftp_done` may remember the path
(`Leaving`; `Harmless` results are those that keep the connection). That `ftp_done` remembers only a path
that has been entered (`cwdfail`, `cwddone`) is where the invariant could break, and where it is needed. The
theorem assumes, besides the two above, `Followed`: neither TYPE nor PWD is refused, no request has
CURLFTP_CREATE_DIR (`create` 1; 0 and 2 are allowed), none resumes an ASCII download, and none has the path that stands
for "nothing remembered". Each of the first four is a divergence (`ftp.c` 3549,
2958, 3072 and 1716) with which `CacheAgrees` does not hold. That a server forgets REST with the
RETR after it, refused or not, is what RFC 959 says of the server, not something the code sees to.

**Only model-checked.** Liveness (`ContractSpec`, `CallsReturn`, `UnpausedEnds`, `Ends`):
fairness and ENABLED are beyond the proof system. `EndIsHeard` of `Multi`; and
`OkIsWhole` of `Ftp`, which needs that what is on the data connection is what the answer to RETR announced.

## What is not covered

* In `Multi`: one application thread and one multi handle; a worker that cannot be
  spawned for an added handle; `curl_multi_wait`'s extra descriptors; `curl_easy_perform`.
* In `Redirects`: one transfer at a time, WebSocket and connect-only transfers, file errors, the HSTS callbacks, challenges of
  Digest and NTLM.
* In `HttpBody`: the request and its body, proxy tunnels, the meaning of headers other than
  their framing; more than one interim response in a run, so that a server which sends them
  without end (each starts the wait for headers anew) is not looked at. A run of bytes the client examines only as a whole is one symbol.
* In `Tftp`: mode and option negotiation in detail; the size of blocks; that the client
  sends nothing again when its answer is lost (`protocols/tftp.rs` 168) but fails.
* In `Transfers`: sockets and their callback, timers, the DNS cache, the share handle, the retry of a
  request over HTTP/1.1 when a server asks for it, proxies. There is always a limit in all,
  as `Conn` is finite; CURLMOPT_MAXCONNECTS 0 stands for no limit, where the code takes
  four times the number of handles. A request that cannot be sent on a connection that was in
  use before is sent again on a new one (`multi.c` 2197 to 2244), which the model has as `Sent` and
  a later `Retry`. The branch `url.c` 1096 to 1105, by which a transfer with CURLOPT_PIPEWAIT waits for a plain
  connection whose upgrade to HTTP/2 is not settled, is left out: an idle one of that kind is left only by a
  request that could not be sent, the fault of the run `pipewait_forgotten`. `UsedAreOpen`
  speaks of the connections of transfers, not of those held for CURLOPT_CONNECT_ONLY, which the code
  does evict (`conncache.c` 437).
* The run `ftp` has CURLUSESSL_ALL and no CCC, and neither refused TYPE or PWD nor `create` 1, with which
  `CacheAgrees` fails (see the divergences); the other levels of TLS rest on the theorems alone. No request of
  the run has a range that begins at the end of its file.
* In `Ftp`: uploads whose size is not told (CURLOPT_INFILESIZE -1) or changes on the way
  (CURLOPT_CRLF), so the comparison of `ftp.c` 3408 is with the file's size; a server that sends a reply
  below 400 while the client waits for it to connect (the client has the branch, `NotAccepted`);
  wildcards, IPv6 and proxies, retries on a connection that turns out closed, QUIT, TLS beyond
  whether it is on, and what becomes of a connection on which an answer was given up.
* What an application does against the documentation is modelled (`CallbackCalls`) but only
  the properties of `multi_reentrant` are claimed of it. A handle removed by the callback
  that announces its socket still gets its worker (`multi/mod.rs` 1011 to 1026: the code
  checks only after the spawn that the record is there), so nobody holds or joins that
  worker; when the handle is added anew its transfer can be completed by the event of
  the old worker. With `CallbackCalls` = {"remove"} TLC finds WorkersHeld and OwnResult
  violated in this way. `AttachedHaveRecords`, `TimerAnnounced` and `EndIsHeard` are neither proved
  nor checked by a run where callbacks add or remove handles. A pushed handle that the push
  callback itself has added to the multi handle blocks its thread for good (`multi/mod.rs` 343
  to 346 clean it up under the lock that its removal takes again): `Accept` takes no step then,
  and as the run `multi_reentrant` does without the check for deadlock, no run tells of it.
* A wakeup that is lost cannot be seen: `Wait` may time out, as the code's does, and whoever
  waits goes on.
* Hazards of the port that no property covers yet: a worker that cannot be spawned leaves
  those behind it waiting (`multi/mod.rs` 1011); a pause set before the worker begins is
  cleared (`transfer/mod.rs` 922); `curl_easy_perform` of a handle that is in a multi
  handle (`easy/perform.rs` 2449); two workers that write the same HSTS or cookie file
  (`http/hsts.rs` 154, `http/cookies.rs` 85); the lock callbacks of a share handle and its cleanup
  while it is used (`share.rs` 223, 113); handles that initialise the library at the same time
  (`global.rs` 91, 166).
* Not modelled: see the components with status `not_modelled` in `PROJECT.json`. Most
  are parsing or formatting, TLS configuration, or dialogues of one thread with one server.

## Plan

1. `Global` and `Share`: initialisation raced by first handles, cleanup with handles
   alive; shared stores used by several workers, lock callbacks, cleanup while in use;
   the cookie jar and HSTS file with several handles, file errors and crashes.
2. `EasyPerform`: `curl_easy_perform`, `curl_easy_reset` and `curl_easy_duphandle` beside
   the multi handle; failing spawns in `Multi`.
3. `HttpUpload`: read callback, chunked request, trailers, pausing of sending, an
   answer that comes before the request is sent; the HTTP/2 stream state.
4. The C library: `Resolve` and `HappyEyeballs` (a resolver thread, two families raced by
   timers), the HTTP/2 streams of `http2.c` with their windows, the mail protocols on
   `pingpong.c`, whose dialogue is that of `Ftp` without a second connection.
5. `ConnectOnly` and WebSocket frames; RTSP, MQTT.
6. Theorems: `OkIsWhole` of `Ftp`; `EndIsHeard` of `Multi`; `AttachedHaveRecords`,
   `TimerAnnounced` and `EndIsHeard` where callbacks add and remove handles.
