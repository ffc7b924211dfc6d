-------------------------- MODULE Redirects_proofs --------------------------
(***************************************************************************)
(* Theorems of Redirects, for all hosts, subdomains and options.            *)
(***************************************************************************)
EXTENDS Redirects, TLAPS


\* The types of what the loop keeps.
LoopType ==
    /\ phase \in {"idle", "hop", "wait"} /\ opt \in Option
    /\ origin \in Url /\ url \in Url
    /\ method \in Method /\ send_body \in BOOLEAN /\ allow \in BOOLEAN
    /\ count \in Int /\ 0 <= count /\ count <= LimitOf(opt)
    /\ result \in {"ok", "unsupported", "failed"}
    /\ seen \subseteq Redirect
LEMMA OptionFields ==
  ASSUME NEW o \in Option
  PROVE  /\ o.max_redirs \in {Unset} \cup Int /\ o.method \in Method
         /\ o.follow \in BOOLEAN /\ o.unrestricted_auth \in BOOLEAN
         /\ o.hsts \in BOOLEAN
  BY OptionAssumption DEF OptionType

LEMMA LimitIsNat == ASSUME NEW o \in Option PROVE LimitOf(o) \in Int /\ 0 <= LimitOf(o)
  BY OptionFields DEF LimitOf, REDIRECT_LIMIT

LEMMA UpgradeType == ASSUME NEW u \in Url, NEW s PROVE Upgrade(u, s) \in Url
  BY DEF Upgrade, Url, Scheme

LEMMA LoopTyped == Spec => []LoopType
<1>1. Init => LoopType
  <2> SUFFICES ASSUME Init PROVE LoopType
    OBVIOUS
  <2>1. opt \in Option /\ opt.method \in Method
    BY OptionFields DEF Init
  <2>2. LimitOf(opt) \in Int /\ 0 <= LimitOf(opt)
    BY <2>1, LimitIsNat
  <2>3. method \in Method /\ origin \in Url /\ url \in Url /\ phase = "idle"
    BY <2>1 DEF Init
  <2>4. result = "ok" /\ seen = {}
    BY DEF Init
  <2>5. send_body \in BOOLEAN /\ allow \in BOOLEAN
    BY DEF Init
  <2>6. count \in Int /\ 0 <= count /\ count <= LimitOf(opt)
    BY <2>2 DEF Init
  <2> QED
    BY <2>1, <2>3, <2>4, <2>5, <2>6 DEF LoopType
<1>2. LoopType /\ [Next]_vars => LoopType'
  <2> SUFFICES ASSUME LoopType, [Next]_vars PROVE LoopType'
    OBVIOUS
  <2> USE DEF LoopType
  <2>0. LimitOf(opt) \in Int /\ 0 <= LimitOf(opt)
    BY LimitIsNat
  <2>1. ASSUME NEW o \in Option, NEW u \in Url, Begin(o, u) PROVE LoopType'
    <3>1. LimitOf(o) \in Int /\ 0 <= LimitOf(o)
      BY LimitIsNat
    <3>2. o.method \in Method
      BY OptionFields
    <3>3. BodyFor(o, o.method) \in BOOLEAN
      BY DEF BodyFor
    <3>4. \A s : Upgrade(u, s) \in Url
      BY UpgradeType
    <3>5. url' \in Url /\ origin' \in Url
      BY <2>1, <3>4 DEF Begin
    <3>6. opt' = o /\ count' = 0 /\ seen' = {} /\ allow' = FALSE /\ phase' = "hop"
          /\ method' = o.method /\ send_body' = BodyFor(o, o.method)
          /\ UNCHANGED result
      BY <2>1 DEF Begin
    <3>7. count' <= LimitOf(opt)' /\ 0 <= count' /\ count' \in Int
      BY <3>1, <3>6 DEF LimitOf
    <3>8. send_body' \in BOOLEAN /\ allow' \in BOOLEAN
      BY <3>3, <3>6
    <3> QED
      BY <3>1, <3>2, <3>5, <3>6, <3>7, <3>8
  <2>2. ASSUME Hop PROVE LoopType'
    <3>1. NextUrl \in Url
      BY UpgradeType DEF NextUrl
    <3> QED
      BY <2>2, <3>1, <2>0 DEF Hop, Return, loopVars
  <2>3. ASSUME NEW status \in Status \cup {200}, NEW location \in Locations,
               NEW header \in Header, Respond(status, location, header)
        PROVE  LoopType'
    <3>1. CASE Follows(status, location) /\ phase' = "hop"
      <4>1. location \in Url /\ status \in Redirect
        BY <3>1, LocationAssumption DEF Follows, Locations, Url
      <4>2. NextMethod(status) \in Method
        BY DEF NextMethod, Method
      <4>3. NextBody(status) \in BOOLEAN /\ Allow(location) \in BOOLEAN
        BY OptionFields DEF NextBody, BodyFor, Allow
      <4>4. url' = location /\ allow' = Allow(location) /\ method' = NextMethod(status)
            /\ send_body' = NextBody(status) /\ count' = count + 1
            /\ seen' = seen \cup {status}
            /\ UNCHANGED <<opt, origin, result, loaded, file>>
        BY <2>3, <3>1 DEF Respond, Return
      <4>5. count < LimitOf(opt)
        BY <3>1 DEF Follows
      <4> QED
        BY <3>1, <4>1, <4>2, <4>3, <4>4, <4>5, <2>0
    <3>2. CASE phase' # "hop"
      <4>1. Return("ok")
        BY <2>3, <3>2 DEF Respond
      <4> QED
        BY <4>1 DEF Return, loopVars
    <3> QED
      BY <2>3, <3>1, <3>2 DEF Respond, Return
  <2>4. ASSUME NEW header \in Header, Fail(header) PROVE LoopType'
    BY <2>4 DEF Fail, Return, loopVars
  <2>5. ASSUME NEW h \in Host, Expire(h) PROVE LoopType'
    BY <2>5 DEF Expire, loopVars
  <2>6. ASSUME Reopen PROVE LoopType'
    BY <2>6 DEF Reopen, loopVars
  <2>7. ASSUME UNCHANGED vars PROVE LoopType'
    BY <2>7 DEF vars, loopVars
  <2> QED
    BY <2>1, <2>2, <2>3, <2>4, <2>5, <2>6, <2>7 DEF Next
<1> QED
  BY <1>1, <1>2, PTL DEF Spec

\* The types of the HSTS store, its file, and what the servers asked for.
StoreType ==
    /\ store \subseteq Entry /\ loaded \in BOOLEAN /\ file \subseteq Entry
    /\ asked \subseteq Entry

LEMMA RecordedType ==
  ASSUME NEW s \in SUBSET Entry, NEW h \in Host, NEW header
  PROVE  Recorded(s, h, header) \subseteq Entry
<1>1. Forget(s, h) \subseteq Entry
  BY DEF Forget
<1>2. \A sub \in BOOLEAN : Remember(s, h, sub) \subseteq Entry
  BY <1>1 DEF Remember, Entry
<1>3. (header = "subdomains") \in BOOLEAN
  OBVIOUS
<1> QED BY <1>1, <1>2, <1>3 DEF Recorded

LEMMA RecordType ==
  ASSUME LoopType, StoreType, NEW header, Record(header)
  PROVE  store' \subseteq Entry /\ asked' \subseteq Entry
<1>1. url.host \in Host /\ Target[url.host] \in Host
  BY HostAssumption DEF LoopType, Url
<1>2. /\ Recorded(store, Target[url.host], header) \subseteq Entry
      /\ Recorded(asked, url.host, header) \subseteq Entry
  BY <1>1, RecordedType DEF StoreType
<1> QED BY <1>2 DEF Record, StoreType

\* Every variable keeps its type, whatever the servers answer: a transfer never has
\* followed more redirects than its limit (decide_redirect), and the stores of hsts.rs hold
\* entries of the hosts only.
THEOREM TypeCorrect == Spec => []TypeOK
<1>1. Init => StoreType
  BY DEF Init, StoreType
<1>2. LoopType /\ StoreType /\ [Next]_vars => StoreType'
  <2> SUFFICES ASSUME LoopType, StoreType, [Next]_vars PROVE StoreType'
    OBVIOUS
  <2>1. ASSUME NEW o \in Option, NEW u \in Url, Begin(o, u) PROVE StoreType'
    <3>1. o.hsts \in BOOLEAN
      BY OptionFields
    <3> QED BY <2>1, <3>1 DEF Begin, StoreType, Load
  <2>2. ASSUME Hop PROVE StoreType'
    BY <2>2 DEF Hop, Finalize, Return, StoreType
  <2>3. ASSUME NEW status, NEW location, NEW header, Respond(status, location, header)
        PROVE  StoreType'
    <3>1. Record(header) /\ UNCHANGED loaded /\ (UNCHANGED file \/ Finalize(store'))
      BY <2>3 DEF Respond, Return
    <3> QED BY <3>1, RecordType DEF Finalize, StoreType
  <2>4. ASSUME NEW header, Fail(header) PROVE StoreType'
    <3>1. Record(header) /\ UNCHANGED loaded /\ Finalize(store')
      BY <2>4 DEF Fail, Return
    <3> QED BY <3>1, RecordType DEF Finalize, StoreType
  <2>5. ASSUME NEW h \in Host, Expire(h) PROVE StoreType'
    BY <2>5 DEF Expire, Forget, StoreType
  <2>6. CASE Reopen
    BY <2>6 DEF Reopen, StoreType
  <2>7. CASE UNCHANGED vars
    BY <2>7 DEF vars, StoreType
  <2> QED BY <2>1, <2>2, <2>3, <2>4, <2>5, <2>6, <2>7 DEF Next
<1>3. LoopType /\ StoreType => TypeOK
  BY LimitIsNat DEF LoopType, StoreType, TypeOK
<1> QED BY <1>1, <1>2, <1>3, LoopTyped, PTL DEF Spec

-----------------------------------------------------------------------------
(* Credentials.                                                              *)

\* allow_cross_origin_auth was set for the origin itself, whose URL may have
\* been upgraded since.
AllowedHere ==
    /\ phase # "idle" /\ allow /\ ~opt.unrestricted_auth =>
          url.host = origin.host /\ url.scheme \in {origin.scheme, "https"}

LEMMA UpgradeKeeps ==
  ASSUME NEW u \in Url, NEW s
  PROVE  Upgrade(u, s).host = u.host /\ Upgrade(u, s).scheme \in {u.scheme, "https"}
  BY DEF Upgrade, Url

LEMMA AllowedHereAlways == Spec => []AllowedHere
<1>1. Init => AllowedHere
  BY DEF Init, AllowedHere
<1>2. LoopType /\ AllowedHere /\ [Next]_vars => AllowedHere'
  <2> SUFFICES ASSUME LoopType, AllowedHere, [Next]_vars,
                      phase' # "idle", allow', ~(opt'.unrestricted_auth)
               PROVE  url'.host = origin'.host /\ url'.scheme \in {origin'.scheme, "https"}
    BY DEF AllowedHere
  <2>0. url \in Url /\ origin \in Url
    BY DEF LoopType
  <2>1. ASSUME NEW o \in Option, NEW u \in Url, Begin(o, u) PROVE FALSE
    BY <2>1 DEF Begin
  <2>2. CASE Hop
    <3>1. NextUrl.host = url.host /\ NextUrl.scheme \in {url.scheme, "https"}
      BY <2>0, UpgradeKeeps DEF NextUrl
    <3>2. url' = NextUrl /\ UNCHANGED <<opt, origin, allow>> /\ phase # "idle"
      BY <2>2 DEF Hop, Return
    <3> QED
      BY <3>1, <3>2 DEF AllowedHere
  <2>3. ASSUME NEW status \in Status \cup {200}, NEW location \in Locations,
               NEW header \in Header, Respond(status, location, header)
        PROVE  url'.host = origin'.host /\ url'.scheme \in {origin'.scheme, "https"}
    <3>1. url' = location /\ allow' = Allow(location) /\ UNCHANGED <<opt, origin>>
      BY <2>3 DEF Respond, Return
    <3> QED
      BY <3>1, <2>0 DEF Allow
  <2>4. ASSUME NEW header \in Header, Fail(header) PROVE FALSE
    BY <2>4 DEF Fail, Return
  <2>5. CASE UNCHANGED <<phase, loopVars>>
    BY <2>5 DEF loopVars, AllowedHere
  <2> QED
    BY <2>1, <2>2, <2>3, <2>4, <2>5 DEF Next, Expire, Reopen, vars
<1> QED
  BY <1>1, <1>2, LoopTyped, PTL DEF Spec

\* Whatever hosts redirect to whatever others, a request carries credentials to
\* the initial host only, and in clear text only if the transfer began so.
THEOREM CredentialsKept == Spec => []CredentialsStay
<1>1. LoopType /\ AllowedHere => CredentialsStay
  BY DEF CredentialsStay, AllowedHere, WithCredentials, LoopType
<1> QED
  BY <1>1, LoopTyped, AllowedHereAlways, PTL

-----------------------------------------------------------------------------
(* The body.                                                                 *)

\* BodyFollowsRedirects from the moment a redirect is followed.
BodyKept ==
    phase # "idle" =>
        LET switched == \E status \in seen : ToGet(opt, status)
        IN  /\ method = IF switched /\ opt.method # "HEAD" THEN "GET" ELSE opt.method
            /\ send_body <=> opt.body # "none" /\ ~switched /\ opt.method \notin {"GET", "HEAD"}

\* A redirect takes the method on as ToGet says, which looks at the method the
\* transfer began with.
LEMMA MethodOfRedirect ==
  ASSUME LoopType, BodyKept, phase # "idle", NEW status \in Redirect
  PROVE  LET switched == \E s \in seen \cup {status} : ToGet(opt, s)
         IN  NextMethod(status) =
                IF switched /\ opt.method # "HEAD" THEN "GET" ELSE opt.method
<1> DEFINE before == \E s \in seen : ToGet(opt, s)
<1>1. (\E s \in seen \cup {status} : ToGet(opt, s)) <=> before \/ ToGet(opt, status)
  OBVIOUS
<1>2. method = IF before /\ opt.method # "HEAD" THEN "GET" ELSE opt.method
  BY DEF BodyKept
<1>3. opt.method \in Method
  BY OptionFields DEF LoopType
<1> HIDE DEF before
<1>4. NextMethod(status) =
         IF (before \/ ToGet(opt, status)) /\ opt.method # "HEAD" THEN "GET" ELSE opt.method
  BY <1>2, <1>3 DEF NextMethod, ToGet, Method
<1> QED
  BY <1>1, <1>4

\* A request has a body exactly when the method it was left with has one and no
\* redirect in between took it away, in whatever order the redirects came.
THEOREM BodyAsMethod == Spec => []BodyFollowsRedirects
<1>1. Init => BodyKept
  BY DEF Init, BodyKept
<1>2. LoopType /\ BodyKept /\ [Next]_vars => BodyKept'
  <2> SUFFICES ASSUME LoopType, BodyKept, [Next]_vars PROVE BodyKept'
    OBVIOUS
  <2>1. ASSUME NEW o \in Option, NEW u \in Url, Begin(o, u) PROVE BodyKept'
    <3>1. seen' = {} /\ opt' = o /\ method' = o.method /\ send_body' = BodyFor(o, o.method)
      BY <2>1 DEF Begin
    <3> QED
      BY <3>1 DEF BodyKept, BodyFor
  <2>2. ASSUME NEW status \in Status \cup {200}, NEW location \in Locations,
               NEW header \in Header, Respond(status, location, header), phase' # "idle"
        PROVE  BodyKept'
    <3>1. /\ status \in Redirect /\ seen' = seen \cup {status} /\ opt' = opt
          /\ method' = NextMethod(status) /\ send_body' = NextBody(status)
          /\ phase # "idle"
      BY <2>2 DEF Respond, Follows, Return
    <3> DEFINE switched == \E s \in seen \cup {status} : ToGet(opt, s)
    <3>2. method' = IF switched /\ opt.method # "HEAD" THEN "GET" ELSE opt.method
      BY <3>1, MethodOfRedirect
    <3>3. send_body' = (opt.body # "none" /\ method' \notin {"GET", "HEAD"})
      BY <3>1 DEF NextBody, BodyFor
    <3>4. opt.method \in Method
      BY OptionFields DEF LoopType
    <3>5. (\E s \in seen' : ToGet(opt', s)) <=> switched
      BY <3>1 DEF ToGet
    <3> HIDE DEF switched
    <3>6. send_body' <=> opt.body # "none" /\ ~switched /\ opt.method \notin {"GET", "HEAD"}
      BY <3>2, <3>3, <3>4
    <3> QED
      BY <3>1, <3>2, <3>5, <3>6 DEF BodyKept
  <2>3. CASE phase' = "idle"
    BY <2>3 DEF BodyKept
  <2>4. CASE UNCHANGED <<opt, method, send_body, seen>> /\ phase # "idle"
    BY <2>4 DEF BodyKept, ToGet
  <2>5. CASE UNCHANGED <<phase, loopVars>>
    BY <2>5 DEF BodyKept, ToGet, loopVars
  <2> QED
    BY <2>1, <2>2, <2>3, <2>4, <2>5 DEF Next, Hop, Fail, Return, Expire, Reopen, vars
<1>3. BodyKept => BodyFollowsRedirects
  BY DEF BodyKept, BodyFollowsRedirects
<1> QED
  BY <1>1, <1>2, <1>3, LoopTyped, PTL DEF Spec

-----------------------------------------------------------------------------
(* HSTS, where servers redirect to HTTP and HTTPS only, and bodies can always   *)
(* be read.                                                                  *)

WebOnly == Location \subseteq {"http", "https"}
Readable == \A o \in Option : o.body # "parts"
WebUrl == phase # "idle" => url.scheme \in {"http", "https"}

LEMMA WebUrlAlways == ASSUME WebOnly PROVE Spec => []WebUrl
<1>1. Init => WebUrl
  BY DEF Init, WebUrl
<1>2. LoopType /\ WebUrl /\ [Next]_vars => WebUrl'
  <2> SUFFICES ASSUME LoopType, WebUrl, [Next]_vars, phase' # "idle"
               PROVE  url'.scheme \in {"http", "https"}
    BY DEF WebUrl
  <2>1. ASSUME NEW o \in Option, NEW u \in Url, Begin(o, u)
        PROVE  url'.scheme \in {"http", "https"}
    <3>1. \A s : Upgrade(u, s).scheme \in {u.scheme, "https"}
      BY UpgradeKeeps
    <3> QED
      BY <2>1, <3>1 DEF Begin
  <2>2. CASE Hop
    <3>1. NextUrl.scheme \in {url.scheme, "https"}
      BY UpgradeKeeps DEF NextUrl, LoopType
    <3> QED
      BY <2>2, <3>1 DEF Hop, Return, WebUrl
  <2>3. ASSUME NEW status \in Status \cup {200}, NEW location \in Locations,
               NEW header \in Header, Respond(status, location, header)
        PROVE  url'.scheme \in {"http", "https"}
    <3>1. url' = location /\ location # Unset
      BY <2>3 DEF Respond, Follows, Return
    <3>2. location.scheme \in Location
      BY <3>1 DEF Locations
    <3> QED
      BY <3>1, <3>2 DEF WebOnly
  <2>4. ASSUME NEW header \in Header, Fail(header) PROVE FALSE
    BY <2>4 DEF Fail, Return
  <2>5. CASE UNCHANGED <<phase, loopVars>>
    BY <2>5 DEF WebUrl, loopVars
  <2> QED
    BY <2>1, <2>2, <2>3, <2>4, <2>5 DEF Next, Expire, Reopen, vars
<1> QED
  BY <1>1, <1>2, LoopTyped, PTL DEF Spec

\* The file that the next handle reads is what this one knows, whichever way
\* the transfers ended, unless one was redirected to a scheme that is not HTTP
\* or had parts to read again.
THEOREM FileSaved == ASSUME WebOnly, Readable PROVE Spec => []FileIsStore
<1>1. Init => FileIsStore
  BY DEF Init, FileIsStore
<1>2. LoopType /\ WebUrl /\ FileIsStore /\ [Next]_vars => FileIsStore'
  <2> SUFFICES ASSUME LoopType, WebUrl, FileIsStore, [Next]_vars,
                      phase' = "idle", loaded', opt'.hsts
               PROVE  file' = store'
    BY DEF FileIsStore
  <2>1. CASE Hop
    <3>1. NextUrl.scheme \in {"http", "https"}
      BY <2>1, UpgradeKeeps DEF NextUrl, LoopType, WebUrl, Hop
    <3>2. opt.body # "parts"
      BY DEF LoopType, Readable
    <3> QED
      BY <2>1, <3>1, <3>2 DEF Hop, Return, Finalize, loopVars
  <2>2. ASSUME NEW status \in Status \cup {200}, NEW location \in Locations,
               NEW header \in Header, Respond(status, location, header)
        PROVE  file' = store'
    BY <2>2 DEF Respond, Return, Finalize, loopVars
  <2>3. ASSUME NEW header \in Header, Fail(header) PROVE file' = store'
    BY <2>3 DEF Fail, Return, Finalize, loopVars
  <2>4. ASSUME NEW h \in Host, Expire(h) PROVE file' = store'
    BY <2>4 DEF Expire, FileIsStore, Forget, loopVars
  <2>5. CASE UNCHANGED vars
    BY <2>5 DEF FileIsStore, vars, loopVars
  <2> QED
    BY <2>1, <2>2, <2>3, <2>4, <2>5 DEF Next, Begin, Reopen
<1> QED
  BY <1>1, <1>2, LoopTyped, WebUrlAlways, PTL DEF Spec

HstsAlwaysOn == \A o \in Option : o.hsts
Unrouted == \A h \in Host : Target[h] = h

\* The handle, or the file while no handle has read it, knows what was asked.
KnowsAsked ==
    /\ loaded => store = asked
    /\ ~loaded => phase = "idle" /\ store = {} /\ file = asked
    /\ phase = "wait" /\ url.scheme = "http" => ~Knows(store, url.host)

LEMMA UpgradeKnown ==
  ASSUME NEW u \in Url, NEW s, Upgrade(u, s).scheme = "http"
  PROVE  ~Knows(s, Upgrade(u, s).host)
  BY DEF Upgrade, Url

LEMMA KnowsAskedStep ==
  ASSUME HstsAlwaysOn, Unrouted
  PROVE  LoopType /\ FileIsStore /\ KnowsAsked /\ [Next]_vars => KnowsAsked'
<1> SUFFICES ASSUME LoopType, FileIsStore, KnowsAsked, [Next]_vars PROVE KnowsAsked'
  OBVIOUS
<1>0. opt.hsts /\ url \in Url /\ url.host \in Host
  BY DEF LoopType, HstsAlwaysOn, Url
<1>1. ASSUME NEW o \in Option, NEW u \in Url, Begin(o, u) PROVE KnowsAsked'
  <2>1. Load(store) = asked
    BY DEF Load, KnowsAsked
  <2>2. loaded' = TRUE /\ store' = Load(store) /\ asked' = asked /\ phase' = "hop"
    BY <1>1 DEF Begin, HstsAlwaysOn
  <2> QED
    BY <2>1, <2>2 DEF KnowsAsked
<1>2. CASE Hop
  <2>1. UNCHANGED <<store, asked, loaded>> /\ loaded
    BY <1>2 DEF Hop, Return, KnowsAsked
  <2>2. phase' = "wait" => url' = NextUrl
    BY <1>2 DEF Hop, Return
  <2>3. NextUrl.scheme = "http" => ~Knows(store, NextUrl.host)
    BY <1>0, UpgradeKnown DEF NextUrl
  <2> QED
    BY <2>1, <2>2, <2>3 DEF KnowsAsked, Knows
<1>3. ASSUME NEW header \in Header, Record(header), phase = "wait", phase' # "wait",
             UNCHANGED loaded
      PROVE  KnowsAsked'
  <2>1. loaded /\ store = asked
    BY <1>3 DEF KnowsAsked
  <2>2. store' = asked'
    BY <1>0, <1>3, <2>1 DEF Record, Unrouted
  <2> QED
    BY <1>3, <2>1, <2>2 DEF KnowsAsked
<1>4. ASSUME NEW h \in Host, Expire(h) PROVE KnowsAsked'
  <2>1. /\ store' = Forget(store, h) /\ file' = Forget(file, h) /\ asked' = Forget(asked, h)
        /\ UNCHANGED <<phase, url, loaded>>
    BY <1>4 DEF Expire, loopVars
  <2>2. \A x : Knows(Forget(store, h), x) => Knows(store, x)
    BY DEF Knows, Forget
  <2>3. store = {} => Forget(store, h) = {}
    BY DEF Forget
  <2>4. phase' = "wait" /\ url'.scheme = "http" => ~Knows(store', url'.host)
    BY <2>1, <2>2 DEF KnowsAsked
  <2> QED
    BY <2>1, <2>3, <2>4 DEF KnowsAsked
<1>5. CASE Reopen
  BY <1>0, <1>5 DEF Reopen, KnowsAsked, FileIsStore
<1>6. CASE UNCHANGED vars
  BY <1>6 DEF KnowsAsked, Knows, vars, loopVars
<1>7. ASSUME NEW status \in Status \cup {200}, NEW location \in Locations,
             NEW header \in Header, Respond(status, location, header)
      PROVE  KnowsAsked'
  BY <1>3, <1>7 DEF Respond, Return
<1>8. ASSUME NEW header \in Header, Fail(header) PROVE KnowsAsked'
  BY <1>3, <1>8 DEF Fail, Return
<1> QED
  BY <1>1, <1>2, <1>4, <1>5, <1>6, <1>7, <1>8 DEF Next

\* Where no connection is rerouted, no transfer turns HSTS off, no server
\* redirects out of HTTP and every body can be read, a host that asked for HSTS is never contacted in clear
\* text, through any number of transfers, handles and expiries.
THEOREM StaysSecure ==
    ASSUME WebOnly, Readable, HstsAlwaysOn, Unrouted
    PROVE  Spec => []NeverPlain
<1>1. Init => KnowsAsked
  BY DEF Init, KnowsAsked
<1>2. LoopType /\ FileIsStore /\ KnowsAsked /\ [Next]_vars => KnowsAsked'
  BY KnowsAskedStep
<1>3. KnowsAsked => NeverPlain
  BY DEF KnowsAsked, NeverPlain
<1> QED
  BY <1>1, <1>2, <1>3, LoopTyped, FileSaved, PTL DEF Spec
=============================================================================
