----------------------------- MODULE MCHttpBody -----------------------------
(* Small responses for HttpBody. *)
EXTENDS HttpBody

\* Every framing, line ending and trailer, interim responses, bytes after a chunked
\* body and after one of Content-Length, transfers that want no body, and bodies long
\* enough to be slow.
Wellformed ==
    {Response(0, "chunked", <<1, 2>>, TRUE, Lf, 0, "no"),
     Response(0, "chunked", <<2>>, FALSE, CrLf, 0, "no"),
     Response(1, "chunked", <<1>>, FALSE, Lf, 2, "no"),
     Response(0, "chunked", <<1>>, FALSE, Lf, 0, "HTTP_RETURNED_ERROR"),
     Response(1, "length", <<3>>, FALSE, CrLf, 0, "no"),
     Response(0, "length", <<0>>, FALSE, Lf, 0, "OK"),
     Response(0, "length", <<5>>, FALSE, Lf, 0, "no"),
     Response(0, "length", <<2>>, FALSE, Lf, 2, "no"),
     Response(0, "close", <<5>>, FALSE, Lf, 0, "no")}

\* A line that is no size, a chunk longer than its size, no status line, headers
\* and a trailer that are too long.
Fields(n) == [i \in 1 .. n |-> <<"field", 0>>]
Malformed ==
    {[framing |-> "chunked", bodyless |-> "no", payload |-> Payload(0, 1), stream |-> s[2] \o s[3],
      blocks |-> {0}, body |-> Len(s[2]), lines |-> s[1]] : s \in {
        <<(3 :> 0), Block(200, Lf), Payload(0, 1) \o Lf>>,
        <<(3 :> 0), Block(200, Lf), SizeLine(1, Lf) \o Payload(0, 2) \o Lf>>,
        <<(3 :> 0), Trailer(TRUE, Lf), <<>> >>,
        <<(8 :> 0), << <<"status", 200>> >> \o Fields(5) \o Lf \o Lf, <<>> >>,
        <<(3 :> 0 @@ 7 :> 1), Block(200, Lf),
          Chunks(<<1>>, Lf) \o SizeLine(0, Lf) \o Fields(6) \o Lf \o Lf>>}}

All == Wellformed \cup Malformed
=============================================================================
