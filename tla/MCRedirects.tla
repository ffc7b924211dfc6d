----------------------------- MODULE MCRedirects -----------------------------
(* Small instances of Redirects for TLC: a host and one of its subdomains.   *)
EXTENDS Redirects

Hosts == {"example", "www.example"}
ParentsOf == [h \in Hosts |-> IF h = "www.example" THEN {"example"} ELSE {}]
Direct == [h \in Hosts |-> h]

Base == [follow |-> TRUE, max_redirs |-> 2, unrestricted_auth |-> FALSE,
         postredir |-> {}, method |-> "GET", body |-> "none",
         allowed_protocols |-> Unset, redirect_protocols |-> Unset, hsts |-> TRUE]
With(f, S) == {[Base EXCEPT ![f] = v] : v \in S}

\* Who is asked, and how often.
HostOptions == {Base} \cup With("max_redirs", {0, 3})
                \cup With("unrestricted_auth", {TRUE}) \cup With("follow", {FALSE})
                \cup With("redirect_protocols", {{"https"}}) \cup With("hsts", {FALSE})

\* What the request is.
MethodOptions ==
    {[Base EXCEPT !.method = mb[1], !.body = mb[2], !.postredir = p, !.hsts = FALSE,
                  !.max_redirs = n] :
        mb \in {<<"GET", "none">>, <<"HEAD", "bytes">>, <<"POST", "parts">>, <<"PUT", "bytes">>,
                 <<"CUSTOM", "bytes">>},
        p \in {{}, {301}, {302, 303}}, n \in {-1, 3}}
    \cup {[Base EXCEPT !.method = "POST", !.body = "bytes", !.postredir = {302},
                       !.hsts = FALSE, !.max_redirs = Unset]}
AllOptions == HostOptions \cup MethodOptions

\* Bound: a transfer is followed either for the hosts it visits, by redirects of
\* one kind to URLs a request can be made for (see FileIsStore), or for its
\* method, at one host and with nothing stored.
HostsOrMethods ==
    IF opt \in MethodOptions
    THEN url.host = "example" /\ store \cup file \cup asked = {}
    ELSE url.scheme # "ftp" /\ seen \subseteq {302}
=============================================================================
