------------------------------ MODULE Redirects ------------------------------
(***************************************************************************)
(* An HTTP transfer of an easy handle: the loop over redirects of           *)
(* perform_transfer_impl (src/safe/src/transfer/mod.rs), the decision to    *)
(* follow one (src/safe/src/http/request.rs) and the HSTS store that both   *)
(* consult and the responses change (src/safe/src/http/hsts.rs), with the   *)
(* file the store is kept in between handles.                              *)
(*                                                                         *)
(* A transfer is sequential: it builds a request (Hop), then a response or  *)
(* an error decides how it goes on (Respond, Fail).  What the server says   *)
(* is any input.  A host stands for a name with a port other than the       *)
(* default one of its scheme, which a URL has after an upgrade as before.   *)
(* A definition whose name extends that of the next one is a slip a change  *)
(* of the code could make; nothing uses it.                                *)
(***************************************************************************)
EXTENDS Integers, FiniteSets

CONSTANTS
    Host,        \* the hosts of URLs
    Parents,     \* the hosts each host is a subdomain of
    Target,      \* the host each is connected to (CURLOPT_CONNECT_TO)
    Option,      \* the options a transfer can have (OptionAssumption)
    Location,    \* the schemes servers redirect to
    Status,      \* the redirects they answer with
    Unset        \* an option that was not set

Scheme == {"http", "https", "ftp"}
\* "CUSTOM" stands for any other text of CURLOPT_CUSTOMREQUEST.
Method == {"GET", "HEAD", "POST", "PUT", "CUSTOM"}
Redirect == {301, 302, 303, 307, 308}
Url == [scheme : Scheme, host : Host]

\* EasyMetadata, what of it the loop reads.  A body of parts is read from files,
\* which can fail.
OptionType ==
    [follow : BOOLEAN, max_redirs : {Unset} \cup Int, unrestricted_auth : BOOLEAN,
     postredir : SUBSET Redirect, method : Method, body : {"none", "bytes", "parts"},
     allowed_protocols : {Unset} \cup SUBSET Scheme,
     redirect_protocols : {Unset} \cup SUBSET Scheme,
     hsts : BOOLEAN]

ASSUME HostAssumption == Parents \in [Host -> SUBSET Host] /\ Target \in [Host -> Host]
ASSUME OptionAssumption == Option \subseteq OptionType
ASSUME LocationAssumption == Location \subseteq Scheme
ASSUME StatusAssumption == Status \subseteq Redirect

VARIABLES
    phase,      \* "idle", "hop" at the head of the loop, "wait" for a response
    opt,        \* the options of the transfer
    origin,     \* initial_origin
    url,        \* current_url
    method,     \* the method of the request, method_override
    send_body,
    allow,      \* allow_cross_origin_auth
    count,      \* redirect_count
    result,     \* the code of the last transfer
    store,      \* HstsStore: the entries of the handle that have not expired
    loaded,     \* HstsStore.loaded_paths: the file was read
    file,       \* the file of CURLOPT_HSTS
    \* What happened, for the properties.
    seen,       \* the redirects followed by the transfer
    asked       \* the entries servers asked for while the transfer used HSTS,
                \* not withdrawn nor expired since

loopVars == <<opt, origin, url, method, send_body, allow, count, seen>>
vars == <<phase, loopVars, result, store, loaded, file, asked>>

Entry == [host : Host, sub : BOOLEAN]

-----------------------------------------------------------------------------
(* HstsStore.                                                                *)

Forget(s, h) == {x \in s : x.host # h}
Remember(s, h, sub) == Forget(s, h) \cup {[host |-> h, sub |-> sub]}

\* lookup finds an entry: of the host, or of a parent that includes subdomains.
Knows(s, h) == \E x \in s : x.host = h \/ (x.sub /\ x.host \in Parents[h])

\* load_from_path: the entries of the file replace those of their hosts, once.
Load(s) ==
    IF loaded THEN s
    ELSE file \cup {x \in s : \A y \in file : y.host # x.host}

\* maybe_upgrade_hsts_url.
Upgrade(u, s) ==
    IF u.scheme = "http" /\ Knows(s, u.host) THEN [u EXCEPT !.scheme = "https"] ELSE u

\* A Strict-Transport-Security header: none, one that withdraws the host, one
\* for the host and one for its subdomains, too.
Header == {"none", "withdraw", "host", "subdomains"}
Recorded(s, h, header) ==
    CASE header = "none" -> s
      [] header = "withdraw" -> Forget(s, h)
      [] OTHER -> Remember(s, h, header = "subdomains")

-----------------------------------------------------------------------------
(* The loop.                                                                 *)

Init ==
    /\ phase = "idle" /\ result = "ok"
    /\ opt \in Option /\ origin \in Url /\ url = origin /\ method = opt.method
    /\ send_body = FALSE /\ allow = FALSE /\ count = 0 /\ seen = {}
    /\ store = {} /\ loaded = FALSE /\ file = {} /\ asked = {}

\* redirect_limit: REDIRECT_LIMIT when the option is not set.
REDIRECT_LIMIT == 8
LimitOf(o) ==
    IF ~o.follow THEN 0
    ELSE IF o.max_redirs = Unset THEN REDIRECT_LIMIT
    ELSE IF o.max_redirs < 0 THEN 0 ELSE o.max_redirs

BodyFor(o, m) == o.body # "none" /\ m \notin {"GET", "HEAD"}

\* perform_transfer_impl up to the loop.
Begin(o, u) ==
    LET known == IF o.hsts THEN Load(store) ELSE store
        first == IF o.hsts THEN Upgrade(u, known) ELSE u
    IN  /\ phase = "idle" /\ u.scheme \in {"http", "https"}
        /\ phase' = "hop" /\ opt' = o /\ url' = first /\ origin' = first
        /\ method' = o.method /\ send_body' = BodyFor(o, o.method)
        /\ allow' = FALSE /\ count' = 0 /\ seen' = {}
        /\ store' = known /\ loaded' = (loaded \/ o.hsts)
        /\ UNCHANGED <<result, file, asked>>

\* Both ways out of the loop; finalize_hsts writes the file.
Return(code) ==
    /\ phase' = "idle" /\ result' = code
    /\ UNCHANGED <<loopVars, loaded>>
FinalizeNever(s) == UNCHANGED file
Finalize(s) == file' = IF opt.hsts THEN s ELSE file

\* protocol_allowed.
AllowedProtocols ==
    IF count > 0 /\ opt.redirect_protocols # Unset THEN opt.redirect_protocols
    ELSE opt.allowed_protocols
ProtocolAllowed(u) == IF AllowedProtocols = Unset THEN TRUE ELSE u.scheme \in AllowedProtocols

\* The URL of the request.
NextUrlNotAgain == url
NextUrl == IF opt.hsts THEN Upgrade(url, store) ELSE url

\* The head of the loop: the request is built and sent, or the scheme is not
\* one for this transfer, or RequestContext cannot be built, which is the way out
\* that does not write the file.  The loop never runs out: see Follows.
Hop ==
    LET u == NextUrl IN
        /\ phase = "hop"
        /\ \/ /\ ProtocolAllowed(u) /\ u.scheme \in {"http", "https"}
              /\ phase' = "wait" /\ url' = u
              /\ UNCHANGED <<opt, origin, method, send_body, allow, count, seen,
                             result, loaded, file>>
           \/ ~ProtocolAllowed(u) /\ Finalize(store) /\ Return("unsupported")
           \/ /\ ProtocolAllowed(u)
              /\ u.scheme \notin {"http", "https"} \/ (send_body /\ opt.body = "parts")
              /\ Return("unsupported") /\ UNCHANGED file
        /\ UNCHANGED <<store, asked>>

\* allow_server_credentials: the request carries the credentials.
WithCredentials == url = origin \/ allow

\* The header is recorded for the host connected to; it was meant for that of
\* the URL.
Record(header) ==
    /\ store' = Recorded(store, Target[url.host], header)
    /\ LET known == Recorded(asked, url.host, header)
       IN  asked' = IF opt.hsts THEN known ELSE asked \cap known

\* redirect_method.
NextMethod(status) ==
    IF status = 303 /\ method # "GET"
    THEN IF method = "POST" /\ 303 \in opt.postredir THEN "POST"
         ELSE IF method = "HEAD" THEN "HEAD" ELSE "GET"
    ELSE IF method = "POST" /\ status \in {301, 302} \ opt.postredir THEN "GET"
    ELSE method

\* decide_redirect.
FollowsTooLate(status, location) ==
    /\ opt.follow /\ count <= LimitOf(opt)
    /\ status \in Redirect /\ location # Unset
Follows(status, location) ==
    /\ opt.follow /\ count < LimitOf(opt)
    /\ status \in Redirect /\ location # Unset

AllowSticky(location) == allow \/ opt.unrestricted_auth \/ location = origin
Allow(location) == opt.unrestricted_auth \/ location = origin

NextBodyKept(status) == send_body
NextBody(status) == BodyFor(opt, NextMethod(status))

\* A response.
Respond(status, location, header) ==
    /\ phase = "wait"
    /\ Record(header)
    /\ \/ /\ Follows(status, location)
          /\ phase' = "hop" /\ url' = location /\ allow' = Allow(location)
          /\ method' = NextMethod(status) /\ send_body' = NextBody(status)
          /\ count' = count + 1 /\ seen' = seen \cup {status}
          /\ UNCHANGED <<opt, origin, result, loaded, file>>
       \/ /\ ~Follows(status, location)
          /\ Finalize(store') /\ Return("ok")

\* An error, before or after the header has come in.
Fail(header) ==
    /\ phase = "wait"
    /\ Record(header)
    /\ Finalize(store') /\ Return("failed")

\* An entry expires; an expired one is not found, and not written.
Expire(h) ==
    /\ \E x \in store \cup file \cup asked : x.host = h
    /\ store' = Forget(store, h) /\ file' = Forget(file, h) /\ asked' = Forget(asked, h)
    /\ UNCHANGED <<phase, loopVars, result, loaded>>

\* curl_easy_cleanup, and a handle of curl_easy_init in its place.
Reopen ==
    /\ phase = "idle" /\ loaded
    /\ store' = {} /\ loaded' = FALSE
    /\ UNCHANGED <<phase, loopVars, result, file, asked>>

Locations == {Unset} \cup [scheme : Location, host : Host]
Next ==
    \/ \E o \in Option, u \in Url : Begin(o, u)
    \/ Hop
    \/ \E status \in Status \cup {200}, location \in Locations, header \in Header :
          Respond(status, location, header)
    \/ \E header \in Header : Fail(header)
    \/ \E h \in Host : Expire(h)
    \/ Reopen

Spec == Init /\ [][Next]_vars

-----------------------------------------------------------------------------
(* Properties.                                                               *)

\* Every variable has a value the code can give it.
TypeOK ==
    /\ phase \in {"idle", "hop", "wait"} /\ opt \in Option
    /\ origin \in Url /\ url \in Url
    /\ method \in Method /\ send_body \in BOOLEAN /\ allow \in BOOLEAN
    /\ count \in 0..LimitOf(opt)
    /\ result \in {"ok", "unsupported", "failed"}
    /\ store \subseteq Entry /\ loaded \in BOOLEAN /\ file \subseteq Entry
    /\ seen \subseteq Redirect
    /\ asked \subseteq Entry

\* Unless the application allows it (CURLOPT_UNRESTRICTED_AUTH), credentials go
\* to the initial host only and, when the transfer began over TLS, over TLS
\* only, however many redirects lead there and back.
CredentialsStay ==
    phase = "wait" /\ WithCredentials /\ ~opt.unrestricted_auth =>
        /\ url.host = origin.host
        /\ origin.scheme = "https" => url.scheme = "https"

\* A host that asked for HSTS is contacted over TLS until the entry expires or
\* the host withdraws it: by the redirect that follows at once, by later
\* transfers, and after the handle was closed and the file read again.
NeverPlain ==
    phase = "wait" /\ opt.hsts /\ url.scheme = "http" => ~Knows(asked, url.host)

\* A request has the body exactly when every redirect that led to it keeps the
\* method and the first request had it; one that switched to GET is GET for
\* the rest of the transfer.
ToGet(o, status) ==
    \/ status = 303 /\ ~(o.method = "POST" /\ 303 \in o.postredir)
    \/ o.method = "POST" /\ status \in {301, 302} \ o.postredir
BodyFollowsRedirects ==
    phase = "wait" =>
        LET switched == \E status \in seen : ToGet(opt, status)
        IN  /\ method = IF switched /\ opt.method # "HEAD" THEN "GET" ELSE opt.method
            /\ send_body <=> opt.body # "none" /\ ~switched /\ opt.method \notin {"GET", "HEAD"}

\* The file says what the handle knows whenever no transfer is on, as long as
\* every redirect leads to a URL a request can be made for: a transfer that ends
\* at another returns without writing.
FileIsStore == phase = "idle" /\ loaded /\ opt.hsts => file = store
=============================================================================
