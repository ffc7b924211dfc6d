------------------------------ MODULE HttpBody ------------------------------
(***************************************************************************)
(* The response of an HTTP/1 transfer, from its headers to the end of its   *)
(* body (execute_http_transfer of src/safe/src/transfer/mod.rs).  The client *)
(* is the thread of the transfer, the application pauses it and provides the *)
(* write callback; the server and the network are external.                  *)
(*                                                                         *)
(* The server sends the symbols of response.stream in order, in pieces of    *)
(* any length, and may close at any place.  The client has read `got` of     *)
(* them and has used up `used`: the bytes between are its buffer.  A symbol   *)
(* stands for one byte, or for a run of bytes the client only looks at whole. *)
(***************************************************************************)
EXTENDS Integers, Sequences, SequencesExt

CONSTANTS
    Responses,   \* what the server may send: Response(...)
    Limit,       \* CURLOPT_LOW_SPEED_LIMIT
    Window,      \* CURLOPT_LOW_SPEED_TIME
    HeaderWait,  \* HEADER_WAIT_TIMEOUT
    MaxHeaders,  \* MAX_RESPONSE_HEADERS_BYTES
    MaxElapsed   \* the clock of a window stops here; 0: no time passes

ASSUME ClockAssumption ==
    {Limit, Window, HeaderWait, MaxHeaders, MaxElapsed} \subseteq Nat
\* When the clock stops no response has enough bytes for the seconds it has counted.
ASSUME StopAssumption ==
    MaxElapsed > 0 /\ Limit > 0 =>
        \A r \in Responses : Limit * MaxElapsed > Len(r.stream) /\ MaxElapsed >= Window

VARIABLES
    response,    \* what the server sends
    sent,        \* how much of it has been sent
    closed,      \* the server has closed the connection
    got, used,
    step,        \* where the client is
    framing,     \* how the client takes the body to be framed
    need,        \* chunk_size
    chunk,       \* what is being delivered
    delivered,   \* what the write callback has taken
    paused,      \* CURLPAUSE_RECV of the pause registry
    result,
    waited,      \* seconds in read_header_block
    elapsed,     \* LowSpeedGuard: seconds of the window
    windowBytes, \* LowSpeedGuard: window_bytes
    polled,      \* the client has polled the socket since the last Tick
    \* for the properties only:
    second,      \* bytes the client has read in this second
    fast         \* in every second of the body it has read twice the limit

server == <<response, sent, closed>>
parser == <<got, used, step, framing, need, chunk, delivered>>
guard == <<elapsed, windowBytes>>
observed == <<second, fast>>
vars == <<server, parser, paused, result, waited, guard, polled, observed>>

-----------------------------------------------------------------------------
(* Responses.                                                                *)

CrLf == << <<"cr", 0>>, <<"lf", 0>> >>
Lf == << <<"lf", 0>> >>
Symbol == {"cr", "lf", "status", "field", "size", "data", "surplus"} \X Nat

Block(status, eol) == << <<"status", status>> >> \o eol \o eol
Payload(from, to) == [i \in 1 .. to - from |-> <<"data", from + i>>]
Total(sizes, k) == LET sum[i \in 0 .. k] == IF i = 0 THEN 0 ELSE sum[i - 1] + sizes[i] IN sum[k]
SizeLine(n, eol) == << <<"size", n>> >> \o eol
Trailer(fields, eol) == (IF fields THEN << <<"field", 0>> >> \o eol ELSE <<>>) \o eol

Chunks(sizes, eol) ==
    FlattenSeq([k \in 1 .. Len(sizes) |->
        SizeLine(sizes[k], eol) \o Payload(Total(sizes, k - 1), Total(sizes, k)) \o eol])

\* Where the parts of a response are: `blocks` are the places where header blocks
\* begin, `body` that of the body, and `lines` those of the lines of chunks, with how
\* much of the payload is in the chunks before.
\* A response with `interim` blocks before its own, a body of the given chunks (a
\* body that is not chunked has one), and some bytes more.  `bodyless` has the
\* result of a transfer that wants no body of it.
Response(interim, kind, sizes, fields, eol, surplus, bodyless) ==
    LET body == Payload(0, Total(sizes, Len(sizes)))
        head == Len(Block(200, eol))
        start(k) == (interim + 1) * head + Len(Chunks(SubSeq(sizes, 1, k), eol))
    IN  [framing |-> kind, bodyless |-> bodyless, payload |-> body,
         blocks |-> {i * head : i \in 0 .. interim}, body |-> (interim + 1) * head,
         lines |-> [p \in {start(k) : k \in IF kind = "chunked" THEN 0 .. Len(sizes) ELSE {}} |->
                       Total(sizes, CHOOSE k \in 0 .. Len(sizes) : start(k) = p)],
         stream |-> FlattenSeq([i \in 1 .. interim |-> Block(100, eol)])
             \o Block(200, eol)
             \o (IF kind = "chunked" THEN Chunks(sizes, eol) \o SizeLine(0, eol) \o Trailer(fields, eol)
                 ELSE body)
             \o [i \in 1 .. surplus |-> <<"surplus", i>>]]

\* find_header_end: where a buffer has an empty line, 0 if nowhere.  An empty
\* line by itself, with no line before it, is none.
FindHeaderEnd(b) ==
    LET ends(eol) == {i \in 1 .. Len(b) : IsSuffix(eol \o eol, SubSeq(b, 1, i))}
        first(S) == CHOOSE i \in S : \A j \in S : i <= j
    IN  IF ends(CrLf) # {} THEN first(ends(CrLf)) ELSE IF ends(Lf) # {} THEN first(ends(Lf)) ELSE 0

\* The client finds the end of a header block once all of it has come, and in the same
\* place whatever comes after; the block of an interim response is followed by another.
BlocksFit(r) ==
    /\ 0 \in r.blocks
    /\ \A p \in r.blocks : \E n \in 1 .. Len(r.stream) - p :
          /\ \A q \in p .. Len(r.stream) :
                FindHeaderEnd(SubSeq(r.stream, p + 1, q)) = IF q < p + n THEN 0 ELSE n
          /\ p + n <= r.body
          /\ IF r.stream[p + 1] = <<"status", 100>> THEN p + n \in r.blocks
             ELSE r.stream[p + 1][1] = "status" => p + n = r.body

\* A body that is not chunked follows the headers; where the end of the connection is
\* its end, there is nothing after it.
PlainFits(r) ==
    /\ r.body + Len(r.payload) <= Len(r.stream)
    /\ r.framing = "close" => r.body + Len(r.payload) = Len(r.stream)
    /\ \A i \in 1 .. Len(r.payload) : r.stream[r.body + i] = r.payload[i]

\* The line of a chunk ends at e, its data follow and, unless the response is malformed
\* there, the end of a line and the line of the next chunk.  The last is of size 0.
EndsAt(r, p, e) == r.stream[e] = Lf[1] /\ \A i \in p + 1 .. e - 1 : r.stream[i] # Lf[1]
ChunksFit(r) ==
    /\ r.body \in DOMAIN r.lines /\ r.lines[r.body] = 0
    /\ \A p \in DOMAIN r.lines : \A e \in p + 1 .. Len(r.stream) :
          r.stream[p + 1][1] = "size" /\ EndsAt(r, p, e) =>
              LET n == r.stream[p + 1][2]
              IN  /\ n = 0 => r.lines[p] = Len(r.payload)
                  /\ n > 0 /\ e + n <= Len(r.stream) =>
                        /\ r.lines[p] + n <= Len(r.payload)
                        /\ \A i \in 1 .. n : r.stream[e + i] = r.payload[r.lines[p] + i]
                  /\ \A eol \in {Lf, CrLf} : LET next == e + n + Len(eol) IN
                        n > 0 /\ next <= Len(r.stream) /\ SubSeq(r.stream, e + n + 1, next) = eol =>
                            next \in DOMAIN r.lines /\ r.lines[next] = r.lines[p] + n

Fits(r) == BlocksFit(r) /\ (IF r.framing = "chunked" THEN ChunksFit(r) ELSE PlainFits(r))

ASSUME ResponseAssumption ==
    \A r \in Responses :
        /\ r.framing \in {"chunked", "length", "close"}
        /\ r.bodyless \in {"no", "OK", "RANGE_ERROR", "HTTP_RETURNED_ERROR"}
        /\ r.stream \in Seq(Symbol) /\ r.payload \in Seq(Symbol)
        /\ r.body \in 0 .. Len(r.stream) /\ r.blocks \subseteq 0 .. Len(r.stream)
        /\ r.lines \in [DOMAIN r.lines -> 0 .. Len(r.payload)]
        /\ DOMAIN r.lines \subseteq 0 .. Len(r.stream)
        /\ Fits(r)

\* The server, external.
Send(n) ==
    /\ ~closed /\ sent + n <= Len(response.stream) /\ sent' = sent + n
    /\ UNCHANGED <<response, closed, parser, paused, result, waited, guard, polled, observed>>

Close ==
    /\ ~closed /\ closed' = TRUE
    /\ UNCHANGED <<response, sent, parser, paused, result, waited, guard, polled, observed>>

-----------------------------------------------------------------------------
(* What the client sees in its buffer.                                       *)

Buffer == SubSeq(response.stream, used + 1, got)
Received == SubSeq(response.stream, got + 1, sent)

StartsWith(eol) == IsPrefix(eol, Buffer)

HeaderEnd == FindHeaderEnd(Buffer)

LineEnd ==
    LET ends == {i \in 1 .. Len(Buffer) : Buffer[i] = <<"lf", 0>>}
    IN  IF ends = {} THEN 0 ELSE CHOOSE i \in ends : \A j \in ends : i <= j

TooLong == Len(Buffer) > MaxHeaders

\* transfer_body: what has come is as long as Content-Length says.
LongEnough == framing = "length" /\ Len(delivered) >= Len(response.payload)

\* The client goes on only when it has read more.
ChunkEnded == StartsWith(CrLf) \/ StartsWith(Lf) \/ Len(Buffer) >= 2
NeedsMore ==
    \/ step = "headers" /\ HeaderEnd = 0 /\ ~TooLong /\ waited < HeaderWait
    \/ step = "body" /\ ~LongEnough
    \/ step = "line" /\ LineEnd = 0
    \/ step = "data" /\ Len(Buffer) < need
    \/ step = "ending" /\ ~ChunkEnded
    \/ step = "fields" /\ HeaderEnd = 0 /\ ~TooLong

-----------------------------------------------------------------------------
(* LowSpeedGuard.                                                            *)

TooSlow(bytes) ==
    Limit > 0 /\ Window > 0 /\ elapsed >= Window /\ bytes < Limit * elapsed

\* LowSpeedGuard::new
NewGuard == elapsed' = 0 /\ windowBytes' = 0

\* observe_progress, when it is not too slow
ObserveProgressNoRestart(n) ==
    IF Limit > 0 /\ Window > 0 /\ elapsed >= Window
    THEN windowBytes' = 0 /\ UNCHANGED elapsed
    ELSE windowBytes' = windowBytes + n /\ UNCHANGED elapsed
ObserveProgress(n) ==
    IF Limit > 0 /\ Window > 0 /\ elapsed >= Window
    THEN elapsed' = 0 /\ windowBytes' = 0
    ELSE windowBytes' = windowBytes + n /\ UNCHANGED elapsed

-----------------------------------------------------------------------------
(* The client.                                                               *)

Init ==
    /\ response \in Responses /\ sent = 0 /\ closed = FALSE
    /\ got = 0 /\ used = 0 /\ step = "headers" /\ framing = "none"
    /\ need = 0 /\ chunk = <<>> /\ delivered = <<>>
    /\ paused = FALSE /\ result = "none" /\ waited = 0 /\ polled = FALSE
    /\ elapsed = 0 /\ windowBytes = 0
    /\ second = 0 /\ fast = TRUE

Finish(code) == result' = code /\ step' = "done"
Continue(where) == step' = where /\ UNCHANGED result

\* In a body that is not chunked, whatever has come is delivered.
DeliverAll(bytes) ==
    chunk' = bytes /\ Continue(IF bytes = <<>> THEN "body" ELSE "deliver")

\* What has come goes to the buffer or, in transfer_body, to the write callback.
Receive ==
    /\ NeedsMore /\ got < sent
    /\ got' = sent /\ second' = second + (sent - got) /\ polled' = FALSE
    /\ IF step = "body" THEN used' = sent /\ DeliverAll(Received)
       ELSE UNCHANGED <<used, step, chunk, result>>
    /\ UNCHANGED <<server, framing, need, delivered, paused, waited, guard,
                   fast>>

\* Nothing has come for IO_POLL_INTERVAL.
IdleChunksOnly ==
    /\ NeedsMore /\ got = sent /\ ~closed /\ ~polled
    /\ polled' = TRUE
    /\ IF step \notin {"headers", "body"} /\ TooSlow(windowBytes) THEN Finish("OPERATION_TIMEDOUT")
       ELSE UNCHANGED <<step, result>>
    /\ UNCHANGED <<server, got, used, framing, need, chunk, delivered, paused, waited,
                   guard, observed>>
Idle ==
    /\ NeedsMore /\ got = sent /\ ~closed /\ ~polled
    /\ polled' = TRUE
    /\ IF step # "headers" /\ TooSlow(windowBytes) THEN Finish("OPERATION_TIMEDOUT")
       ELSE UNCHANGED <<step, result>>
    /\ UNCHANGED <<server, got, used, framing, need, chunk, delivered, paused, waited,
                   guard, observed>>

\* The headers have been processed, and `rest` came after them.
BeginBody(kind, rest) ==
    /\ framing' = kind /\ NewGuard /\ second' = Len(rest)
    /\ \/ response.bodyless # "no" /\ Finish(response.bodyless) /\ UNCHANGED chunk
       \/ response.bodyless = "no" /\ kind = "chunked" /\ Continue("line") /\ UNCHANGED chunk
       \/ response.bodyless = "no" /\ kind # "chunked" /\ DeliverAll(rest)
       \/ Finish("ABORTED_BY_CALLBACK") /\ UNCHANGED chunk

\* The connection ends.  Headers that have begun are taken to be complete; with
\* their end is lost what they say of the body, or even the status line.
EofResultAlwaysOk == "OK"
EofResult == IF step = "body" THEN "OK" ELSE "READ_ERROR"
Eof ==
    /\ NeedsMore /\ got = sent /\ closed
    /\ used' = got
    /\ \/ Finish(EofResult) /\ UNCHANGED <<framing, chunk, guard, second>>
       \/ /\ step = "headers" /\ Buffer # <<>>
          /\ \E kind \in {"close", response.framing} : BeginBody(kind, <<>>)
    /\ UNCHANGED <<server, got, need, delivered, paused, waited, polled, fast>>

\* The connection is reset, and what has not been read is lost.
Reset ==
    /\ NeedsMore /\ closed /\ Finish("READ_ERROR")
    /\ UNCHANGED <<server, got, used, framing, need, chunk, delivered, paused, waited, guard,
                   polled, observed>>

\* read_header_block has a whole block, which may be that of an interim response;
\* process_response_header_block may refuse it.
Refusal ==
    IF HeaderEnd > MaxHeaders THEN {"RECV_ERROR"}
    ELSE IF Buffer[1][1] # "status" THEN {"READ_ERROR"}
    ELSE {"WRITE_ERROR", "BAD_CONTENT_ENCODING"}
Acceptable == HeaderEnd <= MaxHeaders /\ Buffer[1][1] = "status"
Headers ==
    /\ step = "headers" /\ HeaderEnd # 0
    /\ \/ /\ Acceptable /\ Buffer[1] = <<"status", 100>>
          /\ used' = used + HeaderEnd /\ waited' = 0
          /\ UNCHANGED <<step, framing, chunk, result, guard, second>>
       \/ /\ Acceptable /\ Buffer[1] # <<"status", 100>>
          /\ used' = IF response.framing = "chunked" THEN used + HeaderEnd ELSE got
          /\ BeginBody(response.framing, SubSeq(Buffer, HeaderEnd + 1, Len(Buffer)))
          /\ UNCHANGED waited
       \/ /\ \E code \in Refusal : Finish(code)
          /\ UNCHANGED <<used, framing, chunk, waited, guard, second>>
    /\ UNCHANGED <<server, got, need, delivered, paused, polled, fast>>

\* read_header_block gives up.
NoHeaders ==
    /\ step = "headers" /\ HeaderEnd = 0
    /\ \/ TooLong /\ Finish("RECV_ERROR")
       \/ ~TooLong /\ waited >= HeaderWait /\ Finish("OPERATION_TIMEDOUT")
    /\ UNCHANGED <<server, got, used, framing, need, chunk, delivered, paused, waited, guard,
                   polled, observed>>

\* transfer_body ends: all that Content-Length promised has come.
LengthReached ==
    /\ step = "body" /\ LongEnough /\ Finish("OK")
    /\ UNCHANGED <<server, got, used, framing, need, chunk, delivered, paused, waited, guard,
                   polled, observed>>

\* read_line_buffered has the line of a chunk.  After the last chunk an empty line
\* that is already there ends the body: process_trailer_block.
EmptyLine(rest) ==
    IF IsPrefix(CrLf, rest) THEN 2 ELSE IF IsPrefix(Lf, rest) THEN 1 ELSE 0
ChunkLine ==
    /\ step = "line" /\ LineEnd # 0
    /\ LET rest == SubSeq(Buffer, LineEnd + 1, Len(Buffer))
           size == Buffer[1]
       IN  /\ used' = used + LineEnd + (IF size = <<"size", 0>> THEN EmptyLine(rest) ELSE 0)
           /\ \/ size[1] # "size" /\ Finish("READ_ERROR") /\ UNCHANGED need
              \/ size[1] = "size" /\ size[2] > 0 /\ Continue("data") /\ need' = size[2]
              \/ size = <<"size", 0>> /\ EmptyLine(rest) = 0 /\ Continue("fields") /\ UNCHANGED need
              \/ /\ size = <<"size", 0>> /\ EmptyLine(rest) > 0 /\ UNCHANGED need
                 /\ Finish("OK") \/ Finish("WRITE_ERROR")
    /\ UNCHANGED <<server, got, framing, chunk, delivered, paused, waited, guard, polled, observed>>

\* ensure_buffered_data has the chunk.
ChunkDataUncut ==
    /\ step = "data" /\ Len(Buffer) >= need
    /\ chunk' = Buffer /\ used' = used + need
    /\ Continue("ending")
    /\ UNCHANGED <<server, got, framing, need, delivered, paused, waited, guard, polled, observed>>
ChunkData ==
    /\ step = "data" /\ Len(Buffer) >= need
    /\ chunk' = SubSeq(Buffer, 1, need) /\ used' = used + need
    /\ Continue("ending")
    /\ UNCHANGED <<server, got, framing, need, delivered, paused, waited, guard, polled, observed>>

\* consume_chunk_ending
ChunkEnding ==
    /\ step = "ending" /\ ChunkEnded
    /\ used' = used + EmptyLine(Buffer)
    /\ IF EmptyLine(Buffer) > 0 THEN Continue("deliver") ELSE Finish("READ_ERROR")
    /\ UNCHANGED <<server, got, framing, need, chunk, delivered, paused, waited, guard,
                   polled, observed>>

\* process_trailer_block has read fields up to an empty line, or too much.
TrailerFields ==
    /\ step = "fields" /\ (HeaderEnd # 0 \/ TooLong)
    /\ used' = used + HeaderEnd
    /\ \/ HeaderEnd # 0 /\ (Finish("OK") \/ Finish("WRITE_ERROR"))
       \/ HeaderEnd = 0 /\ Finish("RECV_ERROR")
    /\ UNCHANGED <<server, got, framing, need, chunk, delivered, paused, waited, guard,
                   polled, observed>>

\* deliver_write: the callback takes the chunk; then the guard and the progress
\* callback may end the transfer.
AfterDelivery == IF framing = "chunked" THEN "line" ELSE "body"
Taken ==
    /\ step = "deliver" /\ ~paused
    /\ delivered' = delivered \o chunk /\ chunk' = <<>>
    /\ IF TooSlow(windowBytes + Len(chunk))
       THEN Finish("OPERATION_TIMEDOUT") /\ UNCHANGED guard
       ELSE /\ ObserveProgress(Len(chunk))
            /\ Continue(AfterDelivery) \/ Finish("ABORTED_BY_CALLBACK")
    /\ UNCHANGED <<server, got, used, framing, need, paused, waited, polled, observed>>

\* The callback takes nothing: CURL_WRITEFUNC_PAUSE has the chunk delivered again.
NotTaken ==
    /\ step = "deliver" /\ ~paused
    /\ \/ paused' = TRUE /\ UNCHANGED <<step, result>>
       \/ Finish("WRITE_ERROR") /\ UNCHANGED paused
    /\ UNCHANGED <<server, got, used, framing, need, chunk, delivered, waited, guard, polled, observed>>

-----------------------------------------------------------------------------
(* The application and time.                                                 *)

\* curl_easy_pause
Pause(receiving) ==
    /\ result = "none" /\ paused # receiving /\ paused' = receiving
    /\ UNCHANGED <<server, parser, result, waited, guard, polled, observed>>

\* A second passes.  The client polls several times a second, so it does not
\* while there is something for the client to do, unless a callback takes long.
Clock(t, stop) == IF t < stop THEN t + 1 ELSE t
Waiting == step = "deliver" \/ (NeedsMore /\ got = sent /\ ~closed /\ polled)
Tick ==
    /\ MaxElapsed > 0 /\ Waiting
    /\ waited' = Clock(waited, HeaderWait)
    /\ elapsed' = Clock(elapsed, MaxElapsed)
    /\ polled' = FALSE
    /\ fast' = (fast /\ (framing = "none" \/ second >= 2 * Limit))
    /\ second' = 0
    /\ UNCHANGED <<server, parser, paused, result, windowBytes>>

\* The transfer is over.
Finished == step = "done" /\ UNCHANGED vars

Client ==
    \/ Receive \/ Idle \/ Eof \/ Reset
    \/ Headers \/ NoHeaders \/ LengthReached
    \/ ChunkLine \/ ChunkData \/ ChunkEnding \/ TrailerFields
    \/ Taken \/ NotTaken

Next ==
    \/ \E n \in 1 .. Len(response.stream) : Send(n)
    \/ Close
    \/ Client
    \/ \E receiving \in BOOLEAN : Pause(receiving)
    \/ Tick
    \/ Finished

Spec == Init /\ [][Next]_vars

\* The thread runs, time passes, an application that pauses unpauses and its
\* callback takes what it is offered in the end.  Nothing is expected of the server.
Fairness == WF_vars(Client) /\ WF_vars(Tick) /\ WF_vars(Pause(FALSE)) /\ SF_vars(Taken)
FairSpec == Spec /\ Fairness

-----------------------------------------------------------------------------
(* Properties.                                                               *)

\* What the client may deliver: of a chunked response the payload, of any other
\* whatever follows the headers, what comes after a body of Content-Length included.
Body(r) == IF r.framing = "chunked" THEN r.payload ELSE SubSeq(r.stream, r.body + 1, Len(r.stream))

\* The write callback is given the body, in order and nothing twice, whatever the
\* pieces it came in and however often the callback pauses: no headers, and of a
\* chunked body no framing, no trailer and nothing that follows it.  (transfer_body
\* delivers all that it reads, so also what follows a body of Content-Length.)
OnlyBody == IsPrefix(delivered \o chunk, Body(response))

\* A chunked transfer that succeeds has delivered the whole body, also when the
\* server closes early, as has any other whose server has sent the whole body.
OkIsWhole ==
    /\ result = "OK" /\ response.bodyless = "no"
    /\ framing = "chunked" \/ sent >= response.body + Len(response.payload)
    => IsPrefix(response.payload, delivered)

\* A body that is not chunked is not aborted for its speed while the client reads
\* twice the limit of it in every second.  A second the client spends in a callback,
\* or paused, is one in which it reads nothing, whatever the server has sent:
\* deliver_write waits inside the window of the guard, so such a transfer may be
\* aborted.  (A chunk is counted only when all of it has come, so a long one may be.)
FastNotAborted ==
    fast /\ Window >= 2 /\ framing \in {"length", "close"} => result # "OPERATION_TIMEDOUT"

\* With a low speed limit every transfer ends, whatever the server does or does not
\* do: the wait for headers and the wait for the body both have an end.
Ends == <>(result # "none")
=============================================================================
