----------------------------- MODULE Ftp_proofs -----------------------------
(***************************************************************************)
(* Theorems about Ftp for every value of its constants.                     *)
(*                                                                         *)
(* The client never knows whose answer it reads, so the proof is about what *)
(* it waits for: Awaits says it, from the phase and the state alone, Agree   *)
(* says what is then under way between client and server, and ClientOK what *)
(* the client keeps meanwhile.  Cached, in the last part, adds where the    *)
(* server is: its directory, type and offset.                               *)
(***************************************************************************)
EXTENDS Ftp, SequenceTheorems, TLAPS

\* A range is one of a file, and does not begin where the file ends: ABOR is sent, and
\* its answer not read, when there is nothing to abort.
RangesFit ==
    \A r \in Requests :
        r.kind # "put" /\ r.max > 0 => r.file /\ (r.resume = 0 \/ r.resume # r.len)

\* The fields of ftpc and of srv.
Fields == DOMAIN NewConn(None)
ServerFields == {"cwd", "type", "rest", "job", "left", "kept", "tls", "private", "port", "dirs"}

-----------------------------------------------------------------------------
(* The states of ftp_statemachine, by what they have in common.              *)

\* Whose answers the login waits for: before PROT, and after it.
NameState == {"USER", "PASS", "ACCT"}
EarlyState == {"WAIT220", "AUTH", "PBSZ", "PROT"} \cup NameState
LateState == {"CCC", "PWD", "SYST", "NAMEFMT"}
\* Before there is a data connection: questions, and the ways to have one.
AskState == {"QUOTE", "CWD", "MKD", "MDTM", "TYPE", "SIZE", "REST", "RETR_PREQUOTE"}
DataState == {"PRET", "PASV", "PORT"}
\* With a data connection, for an upload, a download and a listing.
StorState == {"STOR_TYPE", "STOR_PREQUOTE", "STOR_SIZE", "STOR"}
SizeState == {"RETR_TYPE", "RETR_PREQUOTE", "RETR_SIZE"}
RetrState == SizeState \cup {"RETR_REST", "RETR"}
ListState == {"LIST_TYPE", "LIST"}
\* The answer may be that a transfer begins.
TransferState == {"LIST", "RETR", "STOR"}

TransferVerb == {"LIST", "RETR", "STOR", "APPE"}
NameVerb == {"USER", "PASS", "ACCT"}
OtherVerb == {"PBSZ", "PRET", "PWD", "SYST", "NAMEFMT", "QUOTE", "CWD", "MKD", "TYPE",
              "MDTM", "SIZE", "REST", "EPSV", "PASV", "EPRT", "PORT"}
Verb == TransferVerb \cup NameVerb \cup OtherVerb \cup {"AUTH", "PROT", "CCC"}

-----------------------------------------------------------------------------
(* What is under way between client and server.                              *)

Abor == [verb |-> "ABOR", arg |-> None]

\* The transfer is one that ABOR cuts short.
Aborts(f) == f.dont_check /\ f.maxdownload > 0

Forsaken(f) == f.result \in {"FTP_ACCEPT_TIMEOUT", "ABORTED"}

\* c may be the command whose answer f waits for.
Ordinary(c, f) ==
    /\ c.verb \in Verb
    /\ c.verb \in TransferVerb <=> f.state \in TransferState
    /\ c.verb \in NameVerb <=> f.state \in NameState
    /\ c.verb = "AUTH" <=> f.state = "AUTH"
    /\ c.verb = "CCC" <=> f.state = "CCC"
    /\ c.verb = "PROT" <=> f.state = "PROT"
    /\ c.verb = "PROT" => c.arg = IF f.use_ssl = "control" THEN "C" ELSE "P"
    /\ f.state = "RETR_SIZE" => c.verb = "SIZE"
    /\ f.state = "STOP" => c.verb = "QUOTE"

\* r may be the answer that f waits for.
Heard(r, f) ==
    /\ f.state \in TransferState => r.code = 150 \/ r.code >= 400
    /\ r.code = 150 => f.state \in TransferState
    /\ f.state = "RETR_SIZE" /\ r.code = 213 => r.size = f.req.len
    /\ f.state = "AUTH" /\ r.code \in {234, 334} => srv.tls
    /\ f.state = "PROT" =>
          srv.private = IF r.code \div 100 = 2 THEN f.use_ssl # "control" ELSE f.datassl

Working == srv.job # "none"

Quiet == todo = <<>> /\ replies = <<>> /\ ~Working

LastWordDue ==
    /\ todo = <<>>
    /\ \/ Working /\ replies = <<>>
       \/ ~Working /\ \E r : replies = <<r>>

Unserved(f) ==
    /\ \E c : todo = <<c>> /\ Ordinary(c, f)
    /\ replies = <<>> /\ ~Working
    /\ f.state = "PROT" => f.datassl = srv.private

Served(f) ==
    /\ todo = <<>>
    /\ \E r : /\ Heard(r, f)
              /\ \/ r.code # 150 /\ ~Working /\ replies = <<r>>
                 \/ r.code = 150 /\ Working /\ replies = <<r>>
                 \/ r.code = 150 /\ ~Working /\ \E s : replies = <<r, s>>

\* What the client waits for: the answer to a command, the last word on a transfer,
\* nothing, or that the connection is closed or left alone.
Awaits(f) ==
    CASE f.phase \in {"connect", "doing", "postquote"} -> "answer"
      [] f.phase = "more" -> IF f.state # "STOP" THEN "answer" ELSE IF f.wait THEN "last" ELSE "nothing"
      [] f.phase = "perform" -> "last"
      [] f.phase = "final" -> IF Aborts(f) THEN "end" ELSE "last"
      [] f.phase = "idle" -> IF f.open /\ ~Forsaken(f) THEN "nothing" ELSE "end"

AtEnd ==
    \/ todo \in {<<>>, <<Abor>>}
    \/ (\E c : todo = <<c>> /\ c.verb = "QUOTE") /\ replies = <<>> /\ ~Working

Agree(f) ==
    CASE Awaits(f) = "answer" -> Unserved(f) \/ Served(f)
      [] Awaits(f) = "nothing" -> Quiet
      [] Awaits(f) = "last" -> LastWordDue
      [] Awaits(f) = "end" -> AtEnd

-----------------------------------------------------------------------------
(* What the client keeps, phase by phase.                                    *)

\* Both ends protect the data of a transfer alike, and do so where they must.
Private(f) == f.datassl = srv.private /\ (f.use_ssl = "all" => f.datassl)

\* A command of the login is on its way, or is about to be.
LoginKept(f) ==
    /\ f.state \in EarlyState => (f.tls => srv.tls)
    /\ f.state \in NameState /\ Level(f.use_ssl) >= 2 => f.tls
    /\ f.state # "PROT" => f.datassl = srv.private
    /\ f.state \notin EarlyState => Private(f)
    /\ f.state \in {"WAIT220", "AUTH"} => f.datassl = FALSE

ConnectKept(f) ==
    /\ f.state \in EarlyState \cup LateState
    /\ ~f.do_more /\ f.maxdownload = -1 /\ f.way = None /\ ~f.wait
    /\ LoginKept(f)

DoingKept(f) ==
    /\ f.state \in AskState \cup DataState
    /\ ~f.wait /\ f.ctl_valid /\ f.way = None /\ f.maxdownload = -1
    /\ f.state \in DataState => f.transfer = "BODY"
    /\ f.state = "RETR_PREQUOTE" => f.transfer # "BODY"
    /\ f.do_more => f.state = "PASV"

\* A range is that of the request; resume is, too, until ftp_state_retr.
Ranged(f) ==
    /\ f.maxdownload > 0 => f.req.kind # "put" /\ f.req.max > 0
    /\ f.state \in SizeState => f.resume = f.req.resume

MoreKept(f) ==
    /\ f.state \in {"STOP"} \cup StorState \cup RetrState \cup ListState
    /\ f.ctl_valid /\ f.transfer = "BODY" /\ f.way = None
    /\ f.state = "STOP" => ~f.pending
    /\ f.state # "STOP" => ~f.wait
    /\ f.second = "connecting" => f.state = "STOP" /\ ~f.wait /\ f.maxdownload = -1
    /\ f.state \in StorState => f.req.kind = "put"
    /\ f.state \in RetrState => f.req.file /\ f.req.kind # "put"
    /\ f.state \in ListState => ~f.req.file
    /\ Ranged(f)

PerformKept(f) ==
    f.pending /\ f.ctl_valid /\ f.transfer = "BODY" /\ f.way # None /\ f.state = "STOP"

ClientOK(f) ==
    /\ DOMAIN f = Fields /\ f.out = <<>> /\ f.use_ssl \in SslLevels
    /\ f.phase \in {"idle", "connect", "doing", "more", "perform", "final", "postquote"}
    /\ f.phase # "idle" => f.open /\ f.req \in Requests
    /\ f.phase \in {"connect", "doing", "more", "perform"} => f.result = "OK"
    /\ f.open /\ f.phase # "connect" => Private(f)
    /\ f.phase \in {"idle", "final", "postquote"} => f.second = "none"
    /\ f.phase = "idle" => ~f.pending
    /\ f.phase = "connect" => ConnectKept(f)
    /\ f.phase = "doing" => DoingKept(f)
    /\ f.phase = "more" => MoreKept(f)
    /\ f.phase = "perform" => PerformKept(f)
    /\ f.phase = "final" => Aborts(f) \/ f.state = "STOP"
    /\ f.phase = "postquote" => f.state = "STOP"

\* The inductive invariant.
Talk == ClientOK(ftpc) /\ Agree(ftpc) /\ DOMAIN srv = ServerFields

-----------------------------------------------------------------------------
(* Fields.                                                                   *)

LEMMA FieldNames ==
    /\ "phase" \in Fields /\ "open" \in Fields /\ "reuse" \in Fields /\ "close" \in Fields
    /\ "ctl_valid" \in Fields /\ "use_ssl" \in Fields /\ "tls" \in Fields /\ "datassl" \in Fields
    /\ "alternative" \in Fields /\ "server_os" \in Fields /\ "entrypath" \in Fields
    /\ "prevpath" \in Fields /\ "cwdfail" \in Fields /\ "cwddone" \in Fields
    /\ "cwdcount" \in Fields /\ "count1" \in Fields /\ "count2" \in Fields /\ "count3" \in Fields
    /\ "epsv" \in Fields /\ "eprt" \in Fields /\ "transfertype" \in Fields /\ "state" \in Fields
    /\ "out" \in Fields /\ "pending" \in Fields /\ "second" \in Fields /\ "do_more" \in Fields
    /\ "wait" \in Fields /\ "dont_check" \in Fields /\ "maxdownload" \in Fields
    /\ "resume" \in Fields /\ "downloadsize" \in Fields /\ "retr_size" \in Fields
    /\ "infilesize" \in Fields /\ "size" \in Fields /\ "way" \in Fields /\ "n" \in Fields
    /\ "transfer" \in Fields /\ "req" \in Fields /\ "status" \in Fields /\ "result" \in Fields
BY DEF Fields, NewConn

LEMMA NewConnFields ==
    ASSUME NEW l
    PROVE  LET f == NewConn(l)
           IN  /\ DOMAIN f = Fields /\ f.phase = "idle" /\ ~f.open /\ f.use_ssl = l
               /\ f.out = <<>> /\ ~f.pending /\ f.second = "none" /\ ~f.wait /\ ~f.do_more
               /\ f.maxdownload = -1 /\ f.way = None /\ f.transfer = "BODY" /\ f.result = "OK"
               /\ ~f.tls /\ ~f.datassl /\ f.datassl = FALSE
BY DEF Fields, NewConn

LEMMA ServerNames ==
    /\ "cwd" \in ServerFields /\ "type" \in ServerFields /\ "rest" \in ServerFields
    /\ "job" \in ServerFields /\ "left" \in ServerFields /\ "kept" \in ServerFields
    /\ "tls" \in ServerFields /\ "private" \in ServerFields /\ "port" \in ServerFields
    /\ "dirs" \in ServerFields
BY DEF ServerFields

LEMMA OneMessage ==
    ASSUME NEW m
    PROVE  /\ Append(<<>>, m) = <<m>> /\ <<>> \o <<m>> = <<m>>
           /\ Head(<<m>>) = m /\ Tail(<<m>>) = <<>> /\ <<m>> # <<>> /\ Len(<<m>>) = 1
           /\ <<m>> \o <<>> = <<m>>
OBVIOUS

LEMMA NoMessage == <<>> \o <<>> = <<>>
OBVIOUS

LEMMA TwoMessages ==
    ASSUME NEW m, NEW n
    PROVE  /\ Append(<<m>>, n) = <<m, n>> /\ Head(<<m, n>>) = m /\ Tail(<<m, n>>) = <<n>>
           /\ <<m, n>> # <<>>
<1>1. Append(<<m>>, n) = <<m, n>>
  <2> DEFINE S == {m, n}
  <2>1. <<m>> \in Seq(S) /\ <<m, n>> \in Seq(S) /\ n \in S
    OBVIOUS
  <2>2. /\ Append(<<m>>, n) \in Seq(S) /\ Len(Append(<<m>>, n)) = 2
        /\ Append(<<m>>, n)[1] = m /\ Append(<<m>>, n)[2] = n
    BY <2>1
  <2>3. \A i \in 1..2 : Append(<<m>>, n)[i] = <<m, n>>[i]
    BY <2>2
  <2> QED BY <2>1, <2>2, <2>3, SeqEqual
<1>2. Head(<<m, n>>) = m
  OBVIOUS
<1>3. Tail(<<m, n>>) = <<n>>
  OBVIOUS
<1>4. <<m, n>> # <<>>
  OBVIOUS
<1> QED BY <1>1, <1>2, <1>3, <1>4
-----------------------------------------------------------------------------
(* What a handler leaves behind.                                             *)

\* The connection is lost.
Closed(g) ==
    /\ DOMAIN g = Fields /\ g.use_ssl \in SslLevels /\ g.phase = "idle" /\ ~g.open
    /\ g.out = <<>> /\ g.second = "none" /\ ~g.pending

\* Nothing was under way: whatever the client waits for next it has just asked for.
AfterQuiet(g) ==
    /\ ClientOK([g EXCEPT !.out = <<>>])
    /\ \/ Closed(g)
       \/ /\ Awaits(g) = "answer" /\ g.open /\ g.datassl = srv.private
          /\ \E c : g.out = <<c>> /\ Ordinary(c, g)
       \/ Awaits(g) = "nothing" /\ g.open /\ g.out = <<>>
       \/ Awaits(g) = "end" /\ g.open /\ g.out \in {<<>>, <<Abor>>}

\* The last word on a transfer was to come, and still is.
AfterLast(g) ==
    /\ ClientOK([g EXCEPT !.out = <<>>])
    /\ \/ Closed(g)
       \/ Awaits(g) = "last" /\ g.open /\ g.out = <<>>
       \/ Awaits(g) = "end" /\ g.open /\ g.out \in {<<>>, <<Abor>>}

LEMMA ClosedOK ==
    ASSUME NEW g, Closed(g)
    PROVE  ClientOK([g EXCEPT !.out = <<>>])
BY FieldNames DEF Closed, ClientOK

LEMMA CommitClosed ==
    ASSUME NEW g, NEW rest, DOMAIN srv = ServerFields, Closed(g), Commit(g, rest)
    PROVE  Talk'
<1> DEFINE f == [g EXCEPT !.out = <<>>]
<1>1. ftpc' = f /\ todo' = <<>> /\ srv' = NewSession(srv)
  BY DEF Commit, Closed
<1>2. DOMAIN srv' = ServerFields
  BY <1>1, ServerNames DEF NewSession
<1>3. /\ DOMAIN f = Fields /\ f.use_ssl \in SslLevels /\ f.phase = "idle" /\ ~f.open
      /\ f.out = <<>> /\ f.second = "none" /\ ~f.pending
  BY FieldNames DEF Closed
<1>4. ClientOK(ftpc)'
  BY <1>1, <1>3 DEF ClientOK
<1>5. (Awaits(ftpc) = "end")'
  BY <1>1, <1>3 DEF Awaits
<1>6. AtEnd'
  BY <1>1 DEF AtEnd
<1>7. Agree(ftpc)'
  BY <1>5, <1>6 DEF Agree
<1> QED BY <1>2, <1>4, <1>7 DEF Talk

\* What an open client awaits is the same once its commands are sent.
LEMMA CommitOpen ==
    ASSUME NEW g, NEW rest, DOMAIN srv = ServerFields, g.open,
           ClientOK([g EXCEPT !.out = <<>>]), Commit(g, rest)
    PROVE  /\ ClientOK(ftpc)' /\ UNCHANGED srv /\ replies' = rest /\ todo' = todo \o g.out
           /\ Awaits(ftpc)' = Awaits(g)
           /\ \A c : Ordinary(c, g) => Ordinary(c, ftpc')
           /\ ftpc'.datassl = g.datassl
<1> DEFINE f == [g EXCEPT !.out = <<>>]
<1>0. DOMAIN f = Fields
  BY DEF ClientOK
<1>1. DOMAIN g = Fields
  BY <1>0
<1>2. ftpc' = f /\ UNCHANGED srv /\ replies' = rest /\ todo' = todo \o g.out
  BY DEF Commit
<1>3. ClientOK(ftpc)'
  BY <1>2 DEF ClientOK, Private, ConnectKept, LoginKept, DoingKept, MoreKept, Ranged, PerformKept, Aborts
<1>4. /\ f.phase = g.phase /\ f.state = g.state /\ f.wait = g.wait /\ f.open = g.open
      /\ f.result = g.result /\ f.dont_check = g.dont_check /\ f.maxdownload = g.maxdownload
      /\ f.use_ssl = g.use_ssl /\ f.datassl = g.datassl
  BY <1>1, FieldNames
<1>5. Awaits(f) = Awaits(g)
  BY <1>4 DEF Awaits, Aborts, Forsaken
<1>6. ASSUME NEW c, Ordinary(c, g) PROVE Ordinary(c, ftpc')
  BY <1>2, <1>4, <1>6 DEF Ordinary
<1>7. Awaits(ftpc)' = Awaits(f)
  BY <1>2 DEF Awaits, Aborts, Forsaken
<1> QED BY <1>2, <1>3, <1>4, <1>5, <1>6, <1>7

LEMMA CommitQuiet ==
    ASSUME NEW g, DOMAIN srv = ServerFields, todo = <<>>, ~Working,
           AfterQuiet(g), Commit(g, <<>>)
    PROVE  Talk'
<1>1. CASE Closed(g)
  BY <1>1, CommitClosed
<1>2. CASE ~Closed(g)
  <2>0. g.open
    BY <1>2 DEF AfterQuiet
  <2>1. /\ ClientOK(ftpc)' /\ UNCHANGED srv /\ replies' = <<>> /\ todo' = <<>> \o g.out
        /\ Awaits(ftpc)' = Awaits(g)
        /\ \A c : Ordinary(c, g) => Ordinary(c, ftpc')
        /\ ftpc'.datassl = g.datassl
    BY <2>0, CommitOpen DEF AfterQuiet
  <2>2. ~Working'
    BY <2>1 DEF Working
  <2>3. CASE Awaits(g) = "answer" /\ g.datassl = srv.private /\ \E c : g.out = <<c>> /\ Ordinary(c, g)
    <3>1. PICK c : g.out = <<c>> /\ Ordinary(c, g)
      BY <2>3
    <3>2. todo' = <<c>> /\ Ordinary(c, ftpc')
      BY <2>1, <3>1, OneMessage
    <3>3. Unserved(ftpc)'
      BY <2>1, <2>2, <2>3, <3>2 DEF Unserved, Ordinary
    <3> QED BY <2>1, <2>3, <3>3 DEF Talk, Agree
  <2>4. CASE Awaits(g) = "nothing" /\ g.out = <<>>
    <3>1. Quiet'
      BY <2>1, <2>2, <2>4, NoMessage DEF Quiet
    <3> QED BY <2>1, <2>4, <3>1 DEF Talk, Agree
  <2>5. CASE Awaits(g) = "end" /\ g.out \in {<<>>, <<Abor>>}
    <3>1. AtEnd'
      BY <2>1, <2>5, NoMessage, OneMessage DEF AtEnd
    <3> QED BY <2>1, <2>5, <3>1 DEF Talk, Agree
  <2> QED BY <1>2, <2>3, <2>4, <2>5 DEF AfterQuiet
<1> QED BY <1>1, <1>2

LEMMA CommitLast ==
    ASSUME NEW g, NEW rest, DOMAIN srv = ServerFields, todo = <<>>,
           \/ Working /\ rest = <<>>
           \/ ~Working /\ \E r : rest = <<r>>,
           AfterLast(g), Commit(g, rest)
    PROVE  Talk'
<1>1. CASE Closed(g)
  BY <1>1, CommitClosed
<1>2. CASE ~Closed(g)
  <2>0. g.open
    BY <1>2 DEF AfterLast
  <2>1. /\ ClientOK(ftpc)' /\ UNCHANGED srv /\ replies' = rest /\ todo' = <<>> \o g.out
        /\ Awaits(ftpc)' = Awaits(g)
    BY <2>0, CommitOpen DEF AfterLast
  <2>2. Working' = Working
    BY <2>1 DEF Working
  <2>3. CASE Awaits(g) = "last" /\ g.out = <<>>
    <3>1. LastWordDue'
      BY <2>1, <2>2, <2>3, NoMessage DEF LastWordDue
    <3> QED BY <2>1, <2>3, <3>1 DEF Talk, Agree
  <2>4. CASE Awaits(g) = "end" /\ g.out \in {<<>>, <<Abor>>}
    <3>1. AtEnd'
      BY <2>1, <2>4, NoMessage, OneMessage DEF AtEnd
    <3> QED BY <2>1, <2>4, <3>1 DEF Talk, Agree
  <2> QED BY <1>2, <2>3, <2>4 DEF AfterLast
<1> QED BY <1>1, <1>2
-----------------------------------------------------------------------------
(* The server.                                                               *)

\* a is an answer to c: one reply, and what the client may conclude from it.
Fits(a, c) ==
    /\ DOMAIN a.srv = ServerFields
    /\ \E r :
        /\ a.says = <<r>>
        /\ r.code = 150 => c.verb \in TransferVerb /\ a.srv.job # "none"
        /\ r.code # 150 => a.srv.job = srv.job
        /\ c.verb \in TransferVerb => r.code = 150 \/ r.code >= 400
        /\ c.verb = "SIZE" /\ ftpc.req.kind # "put" /\ r.code = 213 => r.size = ftpc.req.len
        /\ c.verb = "AUTH" /\ r.code \in {234, 334} => a.srv.tls
        /\ c.verb # "CCC" /\ srv.tls => a.srv.tls
        /\ a.srv.private = IF c.verb = "PROT" /\ r.code \div 100 = 2 THEN c.arg = "P" ELSE srv.private

LEMMA SaysFits ==
    ASSUME DOMAIN srv = ServerFields, NEW c, NEW codes, NEW s, NEW a \in Says(codes, s),
           DOMAIN s = ServerFields, s.job = srv.job, s.private = srv.private,
           c.verb # "CCC" /\ srv.tls => s.tls,
           c.verb = "AUTH" => s.tls \/ codes \cap {234, 334} = {},
           c.verb = "PROT" => \A n \in codes : n \div 100 # 2,
           c.verb = "SIZE" => 213 \notin codes,
           c.verb \in TransferVerb => \A n \in codes : n >= 400,
           150 \notin codes
    PROVE  Fits(a, c)
<1>1. PICK n \in codes : a = [says |-> <<Reply(n, None, -1)>>, srv |-> s]
  BY DEF Says
<1>2. Reply(n, None, -1).code = n
  BY DEF Reply
<1>3. a.says = <<Reply(n, None, -1)>> /\ a.srv = s
  BY <1>1
<1> QED BY <1>2, <1>3 DEF Fits

LEMMA NoFits ==
    ASSUME DOMAIN srv = ServerFields, NEW c, NEW codes, NEW a \in No(codes),
           codes \cap {234, 334, 150, 213} = {},
           c.verb = "PROT" => \A n \in codes : n \div 100 # 2,
           c.verb \in TransferVerb => \A n \in codes : n >= 400
    PROVE  Fits(a, c)
BY SaysFits DEF No

LEMMA BeginsFits ==
    ASSUME DOMAIN srv = ServerFields, NEW c, c.verb \in TransferVerb,
           NEW kind \in {"send", "receive"}, NEW left, NEW told, NEW a \in Begins(kind, left, told)
    PROVE  Fits(a, c) /\ DOMAIN a = {"says", "srv"}
<1> DEFINE s == [srv EXCEPT !.job = kind, !.left = left, !.rest = 0]
<1>1. PICK n \in told : a = [says |-> <<Reply(150, None, n)>>, srv |-> s]
  BY DEF Begins, SaysSize
<1>2. Reply(150, None, n).code = 150
  BY DEF Reply
<1>3. a.says = <<Reply(150, None, n)>> /\ a.srv = s
  BY <1>1
<1>4. DOMAIN s = ServerFields /\ s.job = kind /\ s.tls = srv.tls /\ s.private = srv.private
  BY ServerNames
<1>5. c.verb \notin {"SIZE", "AUTH", "PROT"}
  BY DEF TransferVerb
<1>6. s.job # "none"
  BY <1>4
<1>7. DOMAIN a = {"says", "srv"}
  BY <1>1
<1>8. Fits(a, c)
  <2> HIDE DEF s
  <2> QED BY <1>2, <1>3, <1>4, <1>5, <1>6 DEF Fits
<1> QED BY <1>7, <1>8

LEMMA AnswerFits ==
    ASSUME DOMAIN srv = ServerFields, NEW c, c.verb \in Verb, NEW a \in Answers(c)
    PROVE  Fits(a, c)
<1> DEFINE dir == Resolve(srv.cwd, c.arg)
<1> DEFINE left == ftpc.req.len - srv.rest
<1>1. CASE c.verb = "AUTH"
  <2>1. a \in Says({234}, [srv EXCEPT !.tls = TRUE]) \/ a \in No({500})
    BY <1>1 DEF Answers
  <2>2. a \in No({500}) => Fits(a, c)
    BY <1>1, NoFits DEF TransferVerb
  <2>3. a \in Says({234}, [srv EXCEPT !.tls = TRUE]) => Fits(a, c)
    BY <1>1, SaysFits, ServerNames DEF TransferVerb
  <2> QED BY <2>1, <2>2, <2>3
<1>2. CASE c.verb \in NameVerb \cup {"PBSZ", "PRET", "NAMEFMT", "QUOTE"}
  <2>1. c.verb \notin TransferVerb \cup {"PROT", "CCC", "AUTH"}
    BY <1>2 DEF TransferVerb, NameVerb
  <2>2. \E codes : a \in No(codes) /\ codes \cap {234, 334, 150, 213} = {}
    <3>1. c.verb = "USER" => a \in No({331, 230, 332, 530})
      BY DEF Answers
    <3>2. c.verb = "PASS" => a \in No({230, 332, 530})
      BY DEF Answers
    <3>3. c.verb = "ACCT" => a \in No({230, 530})
      BY DEF Answers
    <3>4. c.verb \in {"PBSZ", "PRET", "QUOTE"} => a \in No({200, 500})
      BY DEF Answers
    <3>5. c.verb = "NAMEFMT" => a \in No({250, 500})
      BY DEF Answers
    <3>6. /\ {331, 230, 332, 530} \cap {234, 334, 150, 213} = {}
          /\ {230, 332, 530} \cap {234, 334, 150, 213} = {}
          /\ {230, 530} \cap {234, 334, 150, 213} = {}
          /\ {200, 500} \cap {234, 334, 150, 213} = {}
          /\ {250, 500} \cap {234, 334, 150, 213} = {}
      OBVIOUS
    <3> QED BY <1>2, <3>1, <3>2, <3>3, <3>4, <3>5, <3>6 DEF NameVerb
  <2> QED BY <2>1, <2>2, NoFits
<1>3. CASE c.verb = "PROT"
  <2>1. a \in Says({200}, [srv EXCEPT !.private = (c.arg = "P")]) \/ a \in No({500})
    BY <1>3 DEF Answers
  <2>2. a \in No({500}) => Fits(a, c)
    BY <1>3, NoFits DEF TransferVerb
  <2>3. ASSUME a \in Says({200}, [srv EXCEPT !.private = (c.arg = "P")]) PROVE Fits(a, c)
    <3> DEFINE s == [srv EXCEPT !.private = (c.arg = "P")]
    <3>1. a = [says |-> <<Reply(200, None, -1)>>, srv |-> s]
      BY <2>3 DEF Says
    <3>2. a.says = <<Reply(200, None, -1)>> /\ a.srv = s /\ Reply(200, None, -1).code = 200
      BY <3>1 DEF Reply
    <3>3. DOMAIN s = ServerFields /\ s.job = srv.job /\ s.tls = srv.tls /\ s.private = (c.arg = "P")
      BY ServerNames
    <3> QED BY <1>3, <3>2, <3>3 DEF Fits, TransferVerb
  <2> QED BY <2>1, <2>2, <2>3
<1>4. CASE c.verb = "CCC"
  <2>1. a \in Says({200}, [srv EXCEPT !.tls = FALSE]) \/ a \in No({500})
    BY <1>4 DEF Answers
  <2>2. a \in No({500}) => Fits(a, c)
    BY <1>4, NoFits DEF TransferVerb
  <2>3. a \in Says({200}, [srv EXCEPT !.tls = FALSE]) => Fits(a, c)
    BY <1>4, SaysFits, ServerNames DEF TransferVerb
  <2> QED BY <2>1, <2>2, <2>3
<1>5. CASE c.verb = "PWD"
  <2>1. a \in SaysWord(257, {"plain", "odd"}, srv) \/ a \in No({500})
    BY <1>5 DEF Answers, Unless
  <2>2. a \in No({500}) => Fits(a, c)
    BY <1>5, NoFits DEF TransferVerb
  <2>3. ASSUME a \in SaysWord(257, {"plain", "odd"}, srv) PROVE Fits(a, c)
    <3>1. PICK w : a.says = <<Reply(257, w, -1)>> /\ a.srv = srv
      BY <2>3 DEF SaysWord
    <3>2. Reply(257, w, -1).code = 257
      BY DEF Reply
    <3> QED BY <1>5, <3>1, <3>2 DEF Fits, TransferVerb
  <2> QED BY <2>1, <2>2, <2>3
<1>6. CASE c.verb = "SYST"
  <2>1. a \in SaysWord(215, {"OS/400", "other"}, srv) \/ a \in No({500})
    BY <1>6 DEF Answers
  <2>2. a \in No({500}) => Fits(a, c)
    BY <1>6, NoFits DEF TransferVerb
  <2>3. ASSUME a \in SaysWord(215, {"OS/400", "other"}, srv) PROVE Fits(a, c)
    <3>1. PICK w : a.says = <<Reply(215, w, -1)>> /\ a.srv = srv
      BY <2>3 DEF SaysWord
    <3>2. Reply(215, w, -1).code = 215
      BY DEF Reply
    <3> QED BY <1>6, <3>1, <3>2 DEF Fits, TransferVerb
  <2> QED BY <2>1, <2>2, <2>3
<1>7. CASE c.verb = "CWD"
  <2>1. a \in Says({250}, [srv EXCEPT !.cwd = dir]) \/ a \in No({550})
    BY <1>7 DEF Answers
  <2>2. a \in No({550}) => Fits(a, c)
    BY <1>7, NoFits DEF TransferVerb
  <2>3. a \in Says({250}, [srv EXCEPT !.cwd = dir]) => Fits(a, c)
    <3> HIDE DEF dir
    <3> QED BY <1>7, SaysFits, ServerNames DEF TransferVerb
  <2> QED BY <2>1, <2>2, <2>3
<1>8. CASE c.verb = "MKD"
  <2>1. a \in Says({257}, [srv EXCEPT !.dirs = @ \cup {dir}]) \/ a \in No({550})
    BY <1>8 DEF Answers
  <2>2. a \in No({550}) => Fits(a, c)
    BY <1>8, NoFits DEF TransferVerb
  <2>3. a \in Says({257}, [srv EXCEPT !.dirs = @ \cup {dir}]) => Fits(a, c)
    <3> HIDE DEF dir
    <3> QED BY <1>8, SaysFits, ServerNames DEF TransferVerb
  <2> QED BY <2>1, <2>2, <2>3
<1>9. CASE c.verb = "TYPE"
  <2>1. a \in Says({200}, [srv EXCEPT !.type = c.arg]) \/ a \in No({500})
    BY <1>9 DEF Answers, Unless
  <2>2. a \in No({500}) => Fits(a, c)
    BY <1>9, NoFits DEF TransferVerb
  <2>3. a \in Says({200}, [srv EXCEPT !.type = c.arg]) => Fits(a, c)
    BY <1>9, SaysFits, ServerNames DEF TransferVerb
  <2> QED BY <2>1, <2>2, <2>3
<1>10. CASE c.verb = "MDTM"
  <2>1. (\E words : a \in SaysWord(213, words, srv)) \/ a \in No({500, 550})
    BY <1>10 DEF Answers
  <2>2. a \in No({500, 550}) => Fits(a, c)
    BY <1>10, NoFits DEF TransferVerb
  <2>3. ASSUME NEW words, a \in SaysWord(213, words, srv) PROVE Fits(a, c)
    <3>1. PICK w : a.says = <<Reply(213, w, -1)>> /\ a.srv = srv
      BY <2>3 DEF SaysWord
    <3>2. Reply(213, w, -1).code = 213
      BY DEF Reply
    <3> QED BY <1>10, <3>1, <3>2 DEF Fits, TransferVerb
  <2> QED BY <2>1, <2>2, <2>3
<1>11. CASE c.verb = "SIZE"
  <2>1. \/ a \in No({500, 550})
        \/ ftpc.req.kind # "put" /\ a \in SaysSize(213, {ftpc.req.len}, srv)
        \/ /\ ~(ftpc.req.kind # "put")
           /\ \E n : a \in SaysSize(213, {n}, [srv EXCEPT !.kept = n])
    <3>1. CASE ftpc.req.kind # "put"
      BY <1>11, <3>1 DEF Answers
    <3>2. CASE ~(ftpc.req.kind # "put")
      <4> DEFINE told == UNION {SaysSize(213, {n}, [srv EXCEPT !.kept = n]) : n \in 0..ftpc.req.len}
      <4>1. Answers(c) = No({500, 550}) \cup
                         (IF ftpc.req.kind # "put" THEN SaysSize(213, {ftpc.req.len}, srv) ELSE told)
        BY <1>11 DEF Answers
      <4>2. a \in No({500, 550}) \/ a \in told
        <5> HIDE DEF told
        <5> QED BY <3>2, <4>1
      <4>3. ASSUME a \in told
            PROVE  \E n : a \in SaysSize(213, {n}, [srv EXCEPT !.kept = n])
        <5>1. PICK x \in {SaysSize(213, {n}, [srv EXCEPT !.kept = n]) : n \in 0..ftpc.req.len} : a \in x
          BY <4>3
        <5>2. PICK n \in 0..ftpc.req.len : x = SaysSize(213, {n}, [srv EXCEPT !.kept = n])
          BY <5>1
        <5> QED BY <5>1, <5>2
      <4> QED BY <3>2, <4>2, <4>3
    <3> QED BY <3>1, <3>2
  <2>2. a \in No({500, 550}) => Fits(a, c)
    BY <1>11, NoFits DEF TransferVerb
  <2>3. ASSUME ftpc.req.kind # "put", a \in SaysSize(213, {ftpc.req.len}, srv) PROVE Fits(a, c)
    <3>1. a.says = <<Reply(213, None, ftpc.req.len)>> /\ a.srv = srv
      BY <2>3 DEF SaysSize
    <3>2. /\ Reply(213, None, ftpc.req.len).code = 213
          /\ Reply(213, None, ftpc.req.len).size = ftpc.req.len
      BY DEF Reply
    <3> QED BY <1>11, <3>1, <3>2 DEF Fits, TransferVerb
  <2>4. ASSUME ~(ftpc.req.kind # "put"), NEW n, a \in SaysSize(213, {n}, [srv EXCEPT !.kept = n])
        PROVE  Fits(a, c)
    <3>1. a.says = <<Reply(213, None, n)>> /\ a.srv = [srv EXCEPT !.kept = n]
      BY <2>4 DEF SaysSize
    <3>2. Reply(213, None, n).code = 213
      BY DEF Reply
    <3> QED BY <1>11, <2>4, <3>1, <3>2, ServerNames DEF Fits, TransferVerb
  <2> QED BY <2>1, <2>2, <2>3, <2>4, ZenonT(60)
<1>12. CASE c.verb = "REST"
  <2>1. a \in Says({350}, [srv EXCEPT !.rest = c.arg]) \/ a \in No({500})
    BY <1>12 DEF Answers
  <2>2. a \in No({500}) => Fits(a, c)
    BY <1>12, NoFits DEF TransferVerb
  <2>3. a \in Says({350}, [srv EXCEPT !.rest = c.arg]) => Fits(a, c)
    BY <1>12, SaysFits, ServerNames DEF TransferVerb
  <2> QED BY <2>1, <2>2, <2>3
<1>13. CASE c.verb \in {"EPSV", "PASV", "EPRT", "PORT"}
  <2>1. \/ \E n \in {227, 229} : a \in Says({n}, [srv EXCEPT !.port = FALSE])
        \/ a \in Says({200}, [srv EXCEPT !.port = TRUE])
        \/ a \in No({500})
    <3>1. CASE c.verb = "EPSV"
      BY <3>1 DEF Answers
    <3>2. CASE c.verb = "PASV"
      BY <3>2 DEF Answers
    <3>3. CASE c.verb \in {"EPRT", "PORT"}
      BY <3>3 DEF Answers
    <3> QED BY <1>13, <3>1, <3>2, <3>3
  <2>2. c.verb \notin TransferVerb \cup {"PROT", "CCC", "AUTH", "SIZE"}
    BY <1>13 DEF TransferVerb
  <2>3. a \in No({500}) => Fits(a, c)
    BY <2>2, NoFits
  <2>4. ASSUME NEW b, NEW n \in {200, 227, 229}, a \in Says({n}, [srv EXCEPT !.port = b])
        PROVE  Fits(a, c)
    BY <2>2, <2>4, SaysFits, ServerNames
  <2> QED BY <2>1, <2>3, <2>4
<1>14. CASE c.verb \in TransferVerb
  <2>1. \/ \E kind \in {"send", "receive"} : \E l, told : a \in Begins(kind, l, told)
        \/ \E b : /\ b \in Begins("receive", 0, {-1})
                  /\ a = [b EXCEPT !.srv.kept = 0]
        \/ a \in No({450, 550}) \/ a \in No({550})
        \/ c.verb = "RETR" /\ a \in Says({425, 550}, [srv EXCEPT !.rest = 0])
    <3>1. CASE c.verb = "LIST"
      BY <3>1 DEF Answers
    <3>2. CASE c.verb = "RETR"
      BY <3>2 DEF Answers
    <3>3. CASE c.verb = "STOR"
      BY <3>3 DEF Answers
    <3>4. CASE c.verb = "APPE"
      BY <3>4 DEF Answers
    <3> QED BY <1>14, <3>1, <3>2, <3>3, <3>4 DEF TransferVerb
  <2>2. c.verb \notin {"PROT", "CCC", "AUTH", "SIZE"}
    BY <1>14 DEF TransferVerb
  <2>3. ASSUME NEW codes \in {{450, 550}, {550}}, a \in No(codes) PROVE Fits(a, c)
    BY <2>2, <2>3, NoFits
  <2>6. ASSUME c.verb = "RETR", a \in Says({425, 550}, [srv EXCEPT !.rest = 0]) PROVE Fits(a, c)
    <3> DEFINE s == [srv EXCEPT !.rest = 0]
    <3>1. /\ DOMAIN s = ServerFields /\ s.job = srv.job /\ s.private = srv.private
          /\ s.tls = srv.tls
      BY ServerNames
    <3>2. a \in Says({425, 550}, s)
      BY <2>6
    <3>3. c.verb \notin {"CCC", "AUTH", "PROT", "SIZE"} /\ {425, 550} \cap {234, 334} = {}
      BY <2>2
    <3> HIDE DEF s
    <3> QED BY <3>1, <3>2, <3>3, SaysFits
  <2>4. ASSUME NEW kind \in {"send", "receive"}, NEW l, NEW told, a \in Begins(kind, l, told)
        PROVE  Fits(a, c)
    BY <1>14, <2>4, BeginsFits
  <2>5. ASSUME NEW b, b \in Begins("receive", 0, {-1}), a = [b EXCEPT !.srv.kept = 0]
        PROVE  Fits(a, c)
    <3>1. Fits(b, c) /\ DOMAIN b = {"says", "srv"}
      BY <1>14, <2>5, BeginsFits
    <3>2. a.says = b.says /\ a.srv = [b.srv EXCEPT !.kept = 0]
      BY <2>5, <3>1
    <3>3. /\ DOMAIN a.srv = ServerFields /\ a.srv.job = b.srv.job
          /\ a.srv.tls = b.srv.tls /\ a.srv.private = b.srv.private
      BY <3>1, <3>2, ServerNames DEF Fits
    <3> QED BY <3>1, <3>2, <3>3 DEF Fits
  <2> QED BY <2>1, <2>3, <2>4, <2>5, <2>6
<1> QED BY <1>1, <1>2, <1>3, <1>4, <1>5, <1>6, <1>7, <1>8, <1>9, <1>10, <1>11, <1>12, <1>13, <1>14
        DEF Verb, OtherVerb
\* What the client awaits is one of four.
LEMMA FourWays ==
    ASSUME Talk
    PROVE  \/ Awaits(ftpc) = "answer" /\ (Unserved(ftpc) \/ Served(ftpc))
           \/ Awaits(ftpc) = "nothing" /\ Quiet
           \/ Awaits(ftpc) = "last" /\ LastWordDue
           \/ Awaits(ftpc) = "end" /\ AtEnd
<1>1. Awaits(ftpc) \in {"answer", "nothing", "last", "end"}
  BY DEF Talk, ClientOK, Awaits
<1> QED BY <1>1 DEF Talk, Agree

\* A step of the server that neither ends its work nor says anything.
LEMMA ServerFrame ==
    ASSUME Talk, UNCHANGED <<ftpc, todo, replies>>, DOMAIN srv' = ServerFields,
           srv'.job = srv.job, srv'.tls = srv.tls, srv'.private = srv.private
    PROVE  Talk'
<1>1. ClientOK(ftpc)'
  BY DEF Talk, ClientOK, Private, ConnectKept, LoginKept, DoingKept, MoreKept, Ranged, PerformKept, Aborts
<1>2. Awaits(ftpc)' = Awaits(ftpc) /\ Working' = Working
  BY DEF Awaits, Aborts, Forsaken, Working
<1>3. ASSUME NEW r, Heard(r, ftpc) PROVE Heard(r, ftpc)'
  BY <1>3 DEF Heard
<1>4. ASSUME NEW c, Ordinary(c, ftpc) PROVE Ordinary(c, ftpc)'
  BY <1>4 DEF Ordinary
<1>5. /\ Unserved(ftpc) => Unserved(ftpc)'
      /\ Served(ftpc) => Served(ftpc)'
  BY <1>2, <1>3, <1>4 DEF Unserved, Served
<1>6. (Quiet => Quiet') /\ (LastWordDue => LastWordDue') /\ (AtEnd => AtEnd')
  BY <1>2 DEF Quiet, LastWordDue, AtEnd
<1>7. Agree(ftpc)'
  BY <1>2, <1>5, <1>6, FourWays DEF Agree
<1> QED BY <1>1, <1>7 DEF Talk

LEMMA LastWordKeeps ==
    ASSUME Talk, Working, NEW code, LastWord(code)
    PROVE  Talk'
<1> DEFINE r == Reply(code, None, -1)
<1>0. /\ UNCHANGED <<ftpc, todo>> /\ replies' = Append(replies, r)
      /\ srv' = [srv EXCEPT !.job = "none", !.left = 0]
  BY DEF LastWord
<1>1. /\ DOMAIN srv' = ServerFields /\ srv'.job = "none" /\ srv'.tls = srv.tls
      /\ srv'.private = srv.private
  BY <1>0, ServerNames DEF Talk
<1>2. ClientOK(ftpc)'
  BY <1>0, <1>1
     DEF Talk, ClientOK, Private, ConnectKept, LoginKept, DoingKept, MoreKept, Ranged, PerformKept, Aborts
<1>3. Awaits(ftpc)' = Awaits(ftpc) /\ ~Working'
  BY <1>0, <1>1 DEF Awaits, Aborts, Forsaken, Working
<1>4. CASE Awaits(ftpc) = "answer" /\ (Unserved(ftpc) \/ Served(ftpc))
  <2>1. Served(ftpc)
    BY <1>4 DEF Unserved
  <2>2. PICK q : Heard(q, ftpc) /\ q.code = 150 /\ replies = <<q>>
    BY <2>1 DEF Served
  <2>3. replies' = <<q, r>>
    BY <1>0, <2>2, TwoMessages
  <2>4. Heard(q, ftpc)'
    BY <1>0, <1>1, <2>2 DEF Heard
  <2>5. Served(ftpc)'
    BY <1>0, <1>3, <2>1, <2>2, <2>3, <2>4 DEF Served
  <2> QED BY <1>1, <1>2, <1>3, <1>4, <2>5 DEF Talk, Agree
<1>5. CASE Awaits(ftpc) = "last" /\ LastWordDue
  <2>1. replies' = <<r>> /\ todo' = <<>>
    BY <1>0, <1>5, OneMessage DEF LastWordDue
  <2>2. LastWordDue'
    BY <1>3, <2>1 DEF LastWordDue
  <2> QED BY <1>1, <1>2, <1>3, <1>5, <2>2 DEF Talk, Agree
<1>6. CASE Awaits(ftpc) = "end" /\ AtEnd
  <2>1. AtEnd'
    BY <1>0, <1>6 DEF AtEnd
  <2> QED BY <1>1, <1>2, <1>3, <1>6, <2>1 DEF Talk, Agree
<1> QED BY FourWays, <1>4, <1>5, <1>6 DEF Quiet

\* ABOR is answered, or the command of an abandoned postquote list.
LEMMA ServeAtEnd ==
    ASSUME Talk, Awaits(ftpc) = "end", AtEnd, Serve
    PROVE  Talk'
<1>1. PICK a \in Answers(Head(todo)) :
         /\ srv' = IF Head(todo).verb = "ABOR" THEN [a.srv EXCEPT !.job = "none"] ELSE a.srv
         /\ todo' = Tail(todo) /\ UNCHANGED <<ftpc, data>>
  BY DEF Serve
<1>2. todo # <<>>
  BY DEF Serve
<1>3. PICK c : todo = <<c>> /\ (c.verb = "QUOTE" \/ c = Abor)
  BY <1>2 DEF AtEnd
<1>4. Head(todo) = c /\ todo' = <<>>
  BY <1>1, <1>3, OneMessage
<1>5. DOMAIN srv' = ServerFields /\ srv'.private = srv.private
  <2>1. CASE c = Abor
    <3>1. c.verb = "ABOR"
      BY <2>1 DEF Abor
    <3>2. a \in Says({226}, srv)
      <4>1. a \in Answers(c)
        BY <1>1, <1>4
      <4> QED BY <3>1, <4>1, ZenonT(60) DEF Answers
    <3>3. a.srv = srv
      BY <3>2 DEF Says
    <3> QED BY <1>1, <1>4, <3>1, <3>3, ServerNames DEF Talk
  <2>2. CASE c.verb = "QUOTE"
    <3>1. Fits(a, c)
      BY <1>1, <1>4, <2>2, AnswerFits DEF Verb, OtherVerb, Talk
    <3>2. srv' = a.srv
      BY <1>1, <1>4, <2>2
    <3> QED BY <2>2, <3>1, <3>2 DEF Fits
  <2> QED BY <1>3, <2>1, <2>2
<1>6. ftpc.phase \in {"idle", "final"}
  BY DEF Awaits, Talk, ClientOK
<1>7. ClientOK(ftpc)'
  BY <1>1, <1>5, <1>6 DEF Talk, ClientOK, Private, Aborts
<1>8. (Awaits(ftpc) = "end")'
  BY <1>1 DEF Awaits, Aborts, Forsaken
<1>9. AtEnd'
  BY <1>4 DEF AtEnd
<1> QED BY <1>5, <1>7, <1>8, <1>9 DEF Talk, Agree

\* The command whose answer the client waits for is answered.
LEMMA ServeCommand ==
    ASSUME Talk, Awaits(ftpc) = "answer", Unserved(ftpc), Serve
    PROVE  Talk'
<1>1. PICK c : todo = <<c>> /\ Ordinary(c, ftpc)
  BY DEF Unserved
<1>2. Head(todo) = c /\ c.verb # "ABOR" /\ c.verb \in Verb
  BY <1>1, OneMessage DEF Ordinary, Verb, TransferVerb, NameVerb, OtherVerb
<1>3. PICK a \in Answers(c) :
         /\ replies' = replies \o (IF srv.job = "none" THEN <<>> ELSE <<Reply(426, None, -1)>>) \o a.says
         /\ srv' = a.srv /\ todo' = Tail(todo) /\ UNCHANGED <<ftpc, data>>
  BY <1>2 DEF Serve
<1>4. srv.job = "none" /\ replies = <<>>
  BY DEF Unserved, Working
<1>5. Fits(a, c)
  BY <1>2, <1>3, AnswerFits DEF Talk
<1>6. PICK r :
        /\ a.says = <<r>>
        /\ r.code = 150 => c.verb \in TransferVerb /\ a.srv.job # "none"
        /\ r.code # 150 => a.srv.job = srv.job
        /\ c.verb \in TransferVerb => r.code = 150 \/ r.code >= 400
        /\ c.verb = "SIZE" /\ ftpc.req.kind # "put" /\ r.code = 213 => r.size = ftpc.req.len
        /\ c.verb = "AUTH" /\ r.code \in {234, 334} => a.srv.tls
        /\ c.verb # "CCC" /\ srv.tls => a.srv.tls
        /\ a.srv.private = IF c.verb = "PROT" /\ r.code \div 100 = 2 THEN c.arg = "P" ELSE srv.private
  BY <1>5 DEF Fits
<1>7. todo' = <<>> /\ replies' = <<r>>
  BY <1>1, <1>3, <1>4, <1>6, OneMessage, NoMessage
<1>8. ftpc.phase \in {"connect", "doing", "more", "postquote"}
  BY DEF Awaits, Talk, ClientOK
<1>9. ftpc.phase # "connect" => ftpc.state \notin {"PROT", "CCC"}
  BY <1>8 DEF Talk, ClientOK, DoingKept, MoreKept, AskState, DataState, StorState, RetrState, SizeState, ListState
<1>10. ClientOK(ftpc)'
  <2>1. ftpc.state # "PROT" => srv'.private = srv.private
    BY <1>1, <1>3, <1>6 DEF Ordinary
  <2>2. ftpc.state \in EarlyState /\ srv.tls => srv'.tls
    BY <1>1, <1>3, <1>6 DEF Ordinary, EarlyState, NameState
  <2>3. ASSUME ftpc.phase = "connect" PROVE LoginKept(ftpc)'
    <3>1. LoginKept(ftpc)
      BY <2>3 DEF Talk, ClientOK, ConnectKept
    <3>2. UNCHANGED ftpc
      BY <1>3
    <3> QED BY <2>1, <2>2, <3>1, <3>2 DEF LoginKept, Private, EarlyState
  <2> QED BY <1>3, <1>8, <1>9, <2>1, <2>3
          DEF Talk, ClientOK, Private, ConnectKept, DoingKept, MoreKept, Ranged, PerformKept, Aborts
<1>11. Heard(r, ftpc)'
  <2>1. ftpc.state = "RETR_SIZE" => c.verb = "SIZE" /\ ftpc.req.kind # "put"
    <3>1. ftpc.state = "RETR_SIZE" => ftpc.phase = "more"
      BY <1>8 DEF Talk, ClientOK, ConnectKept, DoingKept, AskState, DataState, EarlyState, NameState, LateState
    <3> QED BY <1>1, <3>1 DEF Ordinary, Talk, ClientOK, MoreKept, RetrState, SizeState
  <2>2. ftpc.state = "PROT" =>
           srv'.private = IF r.code \div 100 = 2 THEN ftpc.use_ssl # "control" ELSE ftpc.datassl
    <3>1. ASSUME ftpc.state = "PROT" PROVE c.verb = "PROT" /\ (c.arg = "P" <=> ftpc.use_ssl # "control") /\ ftpc.datassl = srv.private
      BY <1>1, <3>1 DEF Ordinary, Unserved
    <3> QED BY <1>3, <1>6, <3>1
  <2> QED BY <1>1, <1>3, <1>6, <2>1, <2>2 DEF Heard, Ordinary
<1>12. Served(ftpc)'
  <2>1. Working' <=> r.code = 150
    BY <1>3, <1>4, <1>6 DEF Working
  <2> QED BY <1>3, <1>7, <1>11, <2>1 DEF Served
<1>13. (Awaits(ftpc) = "answer")'
  BY <1>3 DEF Awaits, Aborts, Forsaken
<1>14. DOMAIN srv' = ServerFields
  BY <1>3, <1>5 DEF Fits
<1> QED BY <1>10, <1>12, <1>13, <1>14 DEF Talk, Agree

LEMMA ServerKeeps ==
    ASSUME Talk, Server \/ OtherMkdir
    PROVE  Talk'
<1>0. DOMAIN srv = ServerFields
  BY DEF Talk
<1>1. CASE Serve
  <2>1. todo # <<>>
    BY <1>1 DEF Serve
  <2> QED BY <1>1, <2>1, FourWays, ServeCommand, ServeAtEnd DEF Served, Quiet, LastWordDue
<1>2. CASE ServerConnects
  BY <1>0, <1>2, ServerFrame DEF ServerConnects
<1>3. CASE SendByte
  BY <1>0, <1>3, ServerFrame, ServerNames DEF SendByte
<1>4. CASE KeepByte
  BY <1>0, <1>4, ServerFrame, ServerNames DEF KeepByte
<1>5. CASE TransferEnds
  BY <1>5, LastWordKeeps DEF TransferEnds, Working
<1>6. CASE TransferFails
  BY <1>6, LastWordKeeps DEF TransferFails, Working
<1>7. CASE OtherMkdir
  BY <1>0, <1>7, ServerFrame, ServerNames DEF OtherMkdir
<1> QED BY <1>1, <1>2, <1>3, <1>4, <1>5, <1>6, <1>7 DEF Server
-----------------------------------------------------------------------------
(* The end of a transfer.                                                    *)

\* A connection in use, and what its transfers need.
Held(f) ==
    DOMAIN f = Fields /\ f.use_ssl \in SslLevels /\ f.open /\ f.req \in Requests

LEMMA ReturnClosed ==
    ASSUME NEW f, DOMAIN f = Fields, f.use_ssl \in SslLevels, NEW result, NEW premature,
           f.close \/ premature
    PROVE  Closed(Return(f, result, premature))
BY FieldNames, NewConnFields, ZenonT(60) DEF Return, Closed

LEMMA ReturnHeld ==
    ASSUME NEW f, Held(f), Private(f), f.out = <<>>, f.second = "none", ~f.pending, NEW result
    PROVE  LET g == Return(f, result, FALSE)
           IN  AfterQuiet(g) /\ (result \in {"FTP_ACCEPT_TIMEOUT", "ABORTED"} => AfterLast(g))
<1> DEFINE g == Return(f, result, FALSE)
<1>1. CASE f.close
  BY <1>1, ReturnClosed, ClosedOK DEF Held, AfterQuiet, AfterLast
<1>2. CASE ~f.close
  <2> DEFINE k == Fresh(f)
  <2>1. g = [k EXCEPT !.result = result]
    BY <1>2 DEF Return
  <2>0. /\ DOMAIN k = Fields /\ k.use_ssl = f.use_ssl /\ k.phase = "idle" /\ k.open = f.open
        /\ k.out = <<>> /\ k.second = "none" /\ ~k.pending /\ k.datassl = f.datassl
    BY FieldNames DEF Fresh, Held
  <2>2. /\ DOMAIN g = Fields /\ g.use_ssl = f.use_ssl /\ g.phase = "idle" /\ g.open = f.open
        /\ g.out = <<>> /\ g.second = "none" /\ ~g.pending /\ g.datassl = f.datassl
        /\ g.result = result
    <3> HIDE DEF g, k
    <3> QED BY <2>0, <2>1, FieldNames
  <2>3. ClientOK([g EXCEPT !.out = <<>>])
    <3> HIDE DEF g
    <3> QED BY <2>2, FieldNames DEF ClientOK, Private, Held
  <2>4. Awaits(g) = IF result \in {"FTP_ACCEPT_TIMEOUT", "ABORTED"} THEN "end" ELSE "nothing"
    BY <2>2 DEF Awaits, Forsaken, Held
  <2> QED BY <2>2, <2>3, <2>4 DEF AfterQuiet, AfterLast, Held
<1> QED BY <1>1, <1>2

LEMMA SendPostquoteQuiet ==
    ASSUME NEW f, Held(f), Private(f), f.out = <<>>, f.second = "none", f.state = "STOP", NEW item
    PROVE  AfterQuiet(SendPostquote(f, item))
<1> DEFINE g == SendPostquote(f, item)
<1> DEFINE c == [verb |-> "QUOTE", arg |-> None]
<1>1. /\ DOMAIN g = Fields /\ g.use_ssl = f.use_ssl /\ g.phase = "postquote" /\ g.open = f.open
      /\ g.out = <<c>> /\ g.second = "none" /\ g.datassl = f.datassl
      /\ g.state = "STOP" /\ g.req = f.req
  BY FieldNames, OneMessage DEF SendPostquote, Send, Held
<1> HIDE DEF g
<1>2. ClientOK([g EXCEPT !.out = <<>>])
  BY <1>1, FieldNames DEF ClientOK, Private, Held
<1>3. Ordinary(c, g)
  BY <1>1 DEF Ordinary, Verb, OtherVerb, TransferVerb, NameVerb, TransferState, NameState
<1>4. Awaits(g) = "answer"
  BY <1>1 DEF Awaits
<1>5. AfterQuiet(g)
  BY <1>1, <1>2, <1>3, <1>4 DEF AfterQuiet, Held, Private
<1> QED BY <1>5 DEF g

LEMMA FinishQuiet ==
    ASSUME NEW f, Held(f), Private(f), f.out = <<>>, f.second = "none", ~f.pending,
           NEW status, NEW result, status = "OK" => f.state = "STOP"
    PROVE  LET g == Finish(f, status, result, FALSE)
           IN  AfterQuiet(g) /\ (status = "FTP_ACCEPT_TIMEOUT" => AfterLast(g))
<1> DEFINE h == [f EXCEPT !.transfer = "BODY", !.dont_check = FALSE]
<1>1. /\ Held(h) /\ Private(h) /\ h.out = <<>> /\ h.second = "none" /\ ~h.pending
      /\ h.state = f.state
  BY FieldNames DEF Held, Private
<1>2. \/ status = "OK" /\ Finish(f, status, result, FALSE) = SendPostquote(h, 1)
      \/ \E r : /\ Finish(f, status, result, FALSE) = Return(h, r, FALSE)
                /\ status # "OK" => r = status
  BY DEF Finish
<1> HIDE DEF h
<1> QED BY <1>1, <1>2, SendPostquoteQuiet, ReturnHeld

\* A transfer that fails badly takes its connection with it.
LEMMA DoneClosed ==
    ASSUME NEW f, Held(f), f.out = <<>>, NEW status, NEW early,
           status # "OK", early \in BOOLEAN,
           early \/ status \notin Harmless \ {"WRITE_ERROR"}
    PROVE  Closed(ftp_done(f, status, early))
<1> DEFINE premature == early \/ status \in {"ABORTED_BY_CALLBACK", "READ_ERROR", "WRITE_ERROR"}
           m == MarkBad(f)
           g == RememberPath(m, status)
           h == [g EXCEPT !.second = "none"]
           k == [h EXCEPT !.transfer = "BODY", !.dont_check = FALSE]
<1>1. ftp_done(f, status, early) = Finish(h, status, status, premature)
  BY DEF ftp_done
<1>2. DOMAIN m = Fields /\ m.use_ssl = f.use_ssl /\ m.close
  BY FieldNames DEF MarkBad, Held
<1>3. DOMAIN g = Fields /\ g.use_ssl = f.use_ssl /\ g.close
  <2> HIDE DEF m
  <2> QED BY <1>2, FieldNames DEF RememberPath
<1>4. DOMAIN k = Fields /\ k.use_ssl = f.use_ssl /\ k.close
  <2> HIDE DEF g
  <2> QED BY <1>3, FieldNames
<1>5. \E r : Finish(h, status, status, premature) = Return(k, r, premature)
  <2> HIDE DEF h
  <2> QED BY DEF Finish
<1>6. \A r : Closed(Return(k, r, premature))
  <2> HIDE DEF k
  <2> QED BY <1>4, ReturnClosed DEF Held
<1> HIDE DEF h, k, premature
<1> QED BY <1>1, <1>5, <1>6

\* f once its data connection is closed, ABOR sent where it is due.
Parted(h, f) ==
    /\ DOMAIN h = Fields /\ h.use_ssl = f.use_ssl /\ h.open /\ h.req = f.req
    /\ h.second = "none" /\ h.state = f.state /\ h.datassl = f.datassl
    /\ h.transfer = f.transfer /\ h.ctl_valid = f.ctl_valid
    /\ h.prevpath = RememberPath(f, "OK").prevpath
    /\ h.entrypath = f.entrypath /\ h.transfertype = f.transfertype
    /\ Aborts(h) <=> Aborts(f)
    /\ IF f.second # "none" /\ Aborts(f) THEN h.out = <<Abor>> /\ h.pending
       ELSE h.out = <<>> /\ h.pending = f.pending

\* What ftp_done then does.
Ended(h, status) ==
    IF h.transfer = "BODY" /\ h.ctl_valid /\ h.pending
    THEN [h EXCEPT !.phase = "final", !.status = status]
    ELSE Finish(h, status, "OK", FALSE)

\* The parts of ftp_done when the connection is not closed.
LEMMA DoneHarmless ==
    ASSUME NEW f, Held(f), f.out = <<>>, NEW status \in Harmless \ {"WRITE_ERROR"}
    PROVE  \E h : Parted(h, f) /\ ftp_done(f, status, FALSE) = Ended(h, status)
<1> DEFINE g == RememberPath(f, "OK")
           abor == f.second # "none" /\ Aborts(f)
           s == Send(g, "ABOR", None, g.state)
           h == [(IF abor THEN s ELSE g) EXCEPT !.second = "none"]
<1>0. g.prevpath = RememberPath(f, "OK").prevpath
  OBVIOUS
<1>1. status \notin {"ABORTED_BY_CALLBACK", "READ_ERROR", "WRITE_ERROR"} /\ status \in Harmless
  BY DEF Harmless
<1>2. /\ DOMAIN g = Fields /\ g.use_ssl = f.use_ssl /\ g.open /\ g.req = f.req
      /\ g.state = f.state /\ g.datassl = f.datassl /\ g.out = <<>>
      /\ g.transfer = f.transfer /\ g.ctl_valid = f.ctl_valid /\ g.pending = f.pending
      /\ g.dont_check = f.dont_check /\ g.maxdownload = f.maxdownload
      /\ g.entrypath = f.entrypath /\ g.transfertype = f.transfertype
  BY FieldNames DEF RememberPath, Held
<1>3. ftp_done(f, status, FALSE) = Ended(h, status)
  BY <1>1 DEF ftp_done, Aborts, Ended
<1> HIDE DEF g
<1>4. /\ DOMAIN s = Fields /\ s.use_ssl = f.use_ssl /\ s.open /\ s.req = f.req
      /\ s.state = f.state /\ s.datassl = f.datassl /\ s.out = <<Abor>>
      /\ s.transfer = f.transfer /\ s.ctl_valid = f.ctl_valid /\ s.pending
      /\ s.dont_check = f.dont_check /\ s.maxdownload = f.maxdownload
      /\ s.entrypath = f.entrypath /\ s.transfertype = f.transfertype
      /\ s.prevpath = g.prevpath
  BY <1>2, FieldNames, OneMessage DEF Send, Abor
<1> HIDE DEF s
<1>5. /\ DOMAIN h = Fields /\ h.use_ssl = f.use_ssl /\ h.open /\ h.req = f.req
      /\ h.second = "none" /\ h.state = f.state /\ h.datassl = f.datassl
      /\ h.transfer = f.transfer /\ h.ctl_valid = f.ctl_valid
      /\ h.dont_check = f.dont_check /\ h.maxdownload = f.maxdownload
      /\ h.entrypath = f.entrypath /\ h.transfertype = f.transfertype
      /\ h.prevpath = g.prevpath
      /\ IF abor THEN h.out = <<Abor>> /\ h.pending ELSE h.out = <<>> /\ h.pending = f.pending
  BY <1>2, <1>4, FieldNames
<1> HIDE DEF h
<1>6. Aborts(h) <=> Aborts(f)
  BY <1>5 DEF Aborts
<1>7. Parted(h, f)
  BY <1>0, <1>5, <1>6 DEF Parted
<1> QED BY <1>3, <1>7

LEMMA FinalWait ==
    ASSUME NEW h, Held(h), Private(h), h.second = "none", NEW status,
           Aborts(h) \/ h.state = "STOP",
           h.out \in {<<>>, <<Abor>>}, h.out = <<>> \/ Aborts(h)
    PROVE  LET g == [h EXCEPT !.phase = "final", !.status = status]
           IN  AfterLast(g) /\ (Aborts(h) => AfterQuiet(g))
<1> DEFINE g == [h EXCEPT !.phase = "final", !.status = status]
<1>1. /\ DOMAIN g = Fields /\ g.use_ssl = h.use_ssl /\ g.phase = "final" /\ g.open
      /\ g.req = h.req /\ g.out = h.out /\ g.second = "none" /\ g.datassl = h.datassl
      /\ g.state = h.state /\ g.dont_check = h.dont_check /\ g.maxdownload = h.maxdownload
  BY FieldNames DEF Held
<1> HIDE DEF g
<1>2. ClientOK([g EXCEPT !.out = <<>>])
  BY <1>1, FieldNames DEF ClientOK, Private, Held, Aborts
<1>3. Awaits(g) = IF Aborts(h) THEN "end" ELSE "last"
  BY <1>1 DEF Awaits, Aborts
<1>4. AfterLast(g) /\ (Aborts(h) => AfterQuiet(g))
  BY <1>1, <1>2, <1>3 DEF AfterLast, AfterQuiet, Held
<1> QED BY <1>4 DEF g

\* ftp_done when nothing is under way: ABOR may be sent, if its answer will be read.
LEMMA DoneQuiet ==
    ASSUME NEW f, Held(f), Private(f), f.out = <<>>, ~f.pending, NEW status,
           status = "OK" => f.state = "STOP",
           Aborts(f) => f.transfer = "BODY" /\ f.ctl_valid
    PROVE  AfterQuiet(ftp_done(f, status, FALSE))
<1>1. CASE status \notin Harmless \ {"WRITE_ERROR"}
  <2>1. status # "OK"
    BY <1>1 DEF Harmless
  <2> QED BY <1>1, <2>1, DoneClosed, ClosedOK DEF AfterQuiet
<1>2. CASE status \in Harmless \ {"WRITE_ERROR"}
  <2>1. PICK h : Parted(h, f) /\ ftp_done(f, status, FALSE) = Ended(h, status)
    BY <1>2, DoneHarmless
  <2>2. Held(h) /\ Private(h)
    BY <2>1 DEF Held, Private, Parted
  <2>3. CASE f.second # "none" /\ Aborts(f)
    <3>1. ftp_done(f, status, FALSE) = [h EXCEPT !.phase = "final", !.status = status]
      BY <2>1, <2>3 DEF Parted, Ended
    <3>2. /\ h.second = "none" /\ Aborts(h) /\ h.out = <<Abor>>
      BY <2>1, <2>3 DEF Parted
    <3>3. AfterQuiet([h EXCEPT !.phase = "final", !.status = status])
      BY <2>2, <3>2, FinalWait
    <3> QED BY <3>1, <3>3
  <2>4. CASE ~(f.second # "none" /\ Aborts(f))
    <3>1. ftp_done(f, status, FALSE) = Finish(h, status, "OK", FALSE)
      BY <2>1, <2>4 DEF Parted, Ended
    <3> QED BY <2>1, <2>2, <2>4, <3>1, FinishQuiet DEF Parted
  <2> QED BY <2>3, <2>4
<1> QED BY <1>1, <1>2

\* ftp_done when the last word on a transfer is to come: it is waited for.
LEMMA DoneLast ==
    ASSUME NEW f, Held(f), Private(f), f.out = <<>>, f.pending, f.state = "STOP",
           f.transfer = "BODY", f.ctl_valid, NEW status, NEW early \in BOOLEAN,
           early => status # "OK"
    PROVE  AfterLast(ftp_done(f, status, early))
<1>1. CASE early \/ status \notin Harmless \ {"WRITE_ERROR"}
  <2>1. status # "OK"
    BY <1>1 DEF Harmless
  <2> QED BY <1>1, <2>1, DoneClosed, ClosedOK DEF AfterLast
<1>2. CASE ~early /\ status \in Harmless \ {"WRITE_ERROR"}
  <2>1. PICK h : Parted(h, f) /\ ftp_done(f, status, FALSE) = Ended(h, status)
    BY <1>2, DoneHarmless
  <2>2. Held(h) /\ Private(h)
    BY <2>1 DEF Held, Private, Parted
  <2>3. ftp_done(f, status, FALSE) = [h EXCEPT !.phase = "final", !.status = status]
    BY <2>1 DEF Parted, Ended
  <2>4. early = FALSE
    BY <1>2
  <2>5. /\ h.second = "none" /\ h.state = "STOP" /\ h.out \in {<<>>, <<Abor>>}
        /\ h.out = <<>> \/ Aborts(h)
    BY <2>1 DEF Parted
  <2>6. AfterLast([h EXCEPT !.phase = "final", !.status = status])
    BY <2>2, <2>5, FinalWait
  <2> QED BY <2>3, <2>4, <2>6
<1> QED BY <1>1, <1>2

\* The server has not connected in time: the connection is kept, its last word is not
\* waited for.
LEMMA DoneTimeout ==
    ASSUME NEW f, Held(f), Private(f), f.out = <<>>, ~f.pending,
           f.transfer = "BODY", f.ctl_valid
    PROVE  AfterLast(ftp_done(f, "FTP_ACCEPT_TIMEOUT", FALSE))
<1> DEFINE status == "FTP_ACCEPT_TIMEOUT"
<1>0. status \in Harmless \ {"WRITE_ERROR"} /\ status # "OK"
  BY DEF Harmless
<1>1. PICK h : Parted(h, f) /\ ftp_done(f, status, FALSE) = Ended(h, status)
  BY <1>0, DoneHarmless
<1>2. Held(h) /\ Private(h)
  BY <1>1 DEF Held, Private, Parted
<1>3. CASE f.second # "none" /\ Aborts(f)
  <2>1. ftp_done(f, status, FALSE) = [h EXCEPT !.phase = "final", !.status = status]
    BY <1>1, <1>3 DEF Parted, Ended
  <2>2. /\ h.second = "none" /\ Aborts(h) /\ h.out = <<Abor>>
    BY <1>1, <1>3 DEF Parted
  <2>3. AfterLast([h EXCEPT !.phase = "final", !.status = status])
    BY <1>2, <2>2, FinalWait
  <2> QED BY <2>1, <2>3
<1>4. CASE ~(f.second # "none" /\ Aborts(f))
  <2>1. ftp_done(f, status, FALSE) = Finish(h, status, "OK", FALSE)
    BY <1>1, <1>4 DEF Parted, Ended
  <2> QED BY <1>0, <1>1, <1>2, <1>4, <2>1, FinishQuiet DEF Parted
<1> QED BY <1>3, <1>4
-----------------------------------------------------------------------------
(* Handlers: they say one thing, come to FTP_STOP, or fail.                  *)

Ready(f) == f.out = <<>> /\ ~f.pending /\ f.result = "OK"

Speaks(f) == f.result = "OK" /\ f.pending /\ \E c : f.out = <<c>> /\ Ordinary(c, f)
Halts(f) == Ready(f) /\ f.state = "STOP"
Fails(f) == f.result # "OK" /\ f.out = <<>> /\ ~f.pending

-----------------------------------------------------------------------------
(* Before there is a data connection.                                        *)

Doing(f) ==
    /\ Held(f) /\ Private(f) /\ f.phase = "doing"
    /\ ~f.wait /\ f.ctl_valid /\ f.way = None /\ f.maxdownload = -1

ReadyDoing(f) == Doing(f) /\ Ready(f) /\ ~f.do_more

DoingNext(g) ==
    /\ Doing(g)
    /\ \/ Speaks(g) /\ DoingKept(g)
       \/ Halts(g) /\ (g.do_more => g.transfer = "BODY")
       \/ Fails(g)

LEMMA DoingSends ==
    ASSUME NEW f, ReadyDoing(f), NEW verb \in OtherVerb, NEW arg,
           NEW state \in AskState \cup DataState,
           state \in DataState => f.transfer = "BODY",
           state = "RETR_PREQUOTE" => f.transfer # "BODY"
    PROVE  DoingNext(Send(f, verb, arg, state))
<1> DEFINE g == Send(f, verb, arg, state)
<1> DEFINE c == [verb |-> verb, arg |-> arg]
<1>1. /\ DOMAIN g = Fields /\ g.use_ssl = f.use_ssl /\ g.phase = "doing" /\ g.open
      /\ g.req = f.req /\ g.datassl = f.datassl /\ ~g.wait /\ g.ctl_valid /\ g.way = None
      /\ g.maxdownload = -1 /\ g.transfer = f.transfer /\ g.result = "OK" /\ g.pending
      /\ g.out = <<c>> /\ g.state = state /\ ~g.do_more
  BY FieldNames, OneMessage DEF Send, ReadyDoing, Doing, Ready, Held
<1> HIDE DEF g
<1>2. Doing(g)
  BY <1>1 DEF Doing, ReadyDoing, Held, Private
<1>3. Ordinary(c, g)
  BY <1>1 DEF Ordinary, Verb, OtherVerb, TransferVerb, NameVerb, TransferState, NameState, AskState, DataState
<1>4. DoingNext(g)
  BY <1>1, <1>2, <1>3 DEF DoingNext, Speaks, DoingKept
<1> QED BY <1>4 DEF g

LEMMA DoingFails ==
    ASSUME NEW f, Doing(f), Ready(f), NEW result, result # "OK"
    PROVE  DoingNext(Fail(f, result))
BY FieldNames DEF Doing, Ready, Fail, DoingNext, Fails, Held, Private

LEMMA DoingStops ==
    ASSUME NEW f, ReadyDoing(f)
    PROVE  DoingNext(Stop(f))
BY FieldNames DEF ReadyDoing, Doing, Ready, Stop, DoingNext, Halts, Held, Private

\* What a handler may set on its way.
LEMMA DoingSets ==
    ASSUME NEW f, ReadyDoing(f), NEW v
    PROVE  /\ ReadyDoing([f EXCEPT !.count1 = v]) /\ ReadyDoing([f EXCEPT !.count2 = v])
           /\ ReadyDoing([f EXCEPT !.count3 = v]) /\ ReadyDoing([f EXCEPT !.cwdcount = v])
           /\ ReadyDoing([f EXCEPT !.state = v]) /\ ReadyDoing([f EXCEPT !.transfer = v])
           /\ ReadyDoing([f EXCEPT !.transfertype = v]) /\ ReadyDoing([f EXCEPT !.cwdfail = v])
           /\ ReadyDoing([f EXCEPT !.eprt = v])
BY FieldNames DEF ReadyDoing, Doing, Ready, Held, Private

LEMMA UsePasv ==
    ASSUME NEW f, ReadyDoing(f), f.transfer = "BODY"
    PROVE  DoingNext(ftp_state_use_pasv(f))
<1>1. ASSUME NEW v PROVE ReadyDoing([f EXCEPT !.count1 = v]) /\ [f EXCEPT !.count1 = v].transfer = "BODY"
  BY DoingSets, FieldNames DEF ReadyDoing, Doing, Held
<1>2. "PASV" \in DataState /\ "PASV" # "RETR_PREQUOTE" /\ {"EPSV", "PASV"} \subseteq OtherVerb
  BY DEF DataState, OtherVerb
<1> QED BY <1>1, <1>2, DoingSends DEF ftp_state_use_pasv

LEMMA UsePort ==
    ASSUME NEW f, ReadyDoing(f), f.transfer = "BODY", NEW fcmd
    PROVE  DoingNext(ftp_state_use_port(f, fcmd))
<1>1. ASSUME NEW v
      PROVE  /\ ReadyDoing([f EXCEPT !.count1 = v, !.second = "listen"])
             /\ [f EXCEPT !.count1 = v, !.second = "listen"].transfer = "BODY"
  BY FieldNames DEF ReadyDoing, Doing, Ready, Held, Private
<1>2. "PORT" \in DataState /\ "PORT" # "RETR_PREQUOTE" /\ {"EPRT", "PORT"} \subseteq OtherVerb
  BY DEF DataState, OtherVerb
<1> QED BY <1>1, <1>2, DoingSends DEF ftp_state_use_port

\* Without data to be moved RETR_PREQUOTE is the end of the way.
LEMMA AskPrequote ==
    ASSUME NEW f, ReadyDoing(f), f.transfer # "BODY", NEW init
    PROVE  DoingNext(RetrPrequote(f, init))
<1>1. CASE MoreItems(f, init, "RETR_PREQUOTE")
  <2>1. ASSUME NEW v, NEW w
        PROVE  /\ ReadyDoing([f EXCEPT !.count1 = v, !.count2 = w])
               /\ [f EXCEPT !.count1 = v, !.count2 = w].transfer # "BODY"
    BY FieldNames DEF ReadyDoing, Doing, Ready, Held, Private
  <2>2. "RETR_PREQUOTE" \in AskState /\ "RETR_PREQUOTE" \notin DataState /\ "QUOTE" \in OtherVerb
    BY DEF AskState, DataState, OtherVerb
  <2> QED BY <1>1, <2>1, <2>2, DoingSends DEF RetrPrequote, SendItem
<1>2. CASE ~MoreItems(f, init, "RETR_PREQUOTE")
  <2> DEFINE g == [f EXCEPT !.count1 = NextItem(f, init)]
  <2>1. ReadyDoing(g)
    BY DoingSets
  <2>2. RetrPrequote(f, init) = Stop(g)
    BY <1>2 DEF RetrPrequote
  <2> QED BY <2>1, <2>2, DoingStops
<1> QED BY <1>1, <1>2

LEMMA PrepareTransfer ==
    ASSUME NEW f, ReadyDoing(f)
    PROVE  DoingNext(ftp_state_prepare_transfer(f))
<1>1. CASE f.transfer # "BODY"
  <2> DEFINE g == [f EXCEPT !.state = "RETR_PREQUOTE"]
  <2>1. ReadyDoing(g) /\ g.transfer # "BODY"
    BY <1>1, DoingSets, FieldNames DEF ReadyDoing, Doing, Held
  <2>2. ftp_state_prepare_transfer(f) = RetrPrequote(g, TRUE)
    BY <1>1 DEF ftp_state_prepare_transfer
  <2> QED BY <2>1, <2>2, AskPrequote
<1>2. CASE f.transfer = "BODY"
  <2>1. "PRET" \in DataState /\ "PRET" # "RETR_PREQUOTE" /\ "PRET" \in OtherVerb
    BY DEF DataState, OtherVerb
  <2>2. DoingNext(Send(f, "PRET", None, "PRET"))
    BY <1>2, <2>1, DoingSends
  <2>3. DoingNext(ftp_state_use_port(f, 0)) /\ DoingNext(ftp_state_use_pasv(f))
    BY <1>2, UsePort, UsePasv
  <2> QED BY <1>2, <2>2, <2>3 DEF ftp_state_prepare_transfer
<1> QED BY <1>1, <1>2

\* A question that is asked on the way.
LEMMA Asks ==
    ASSUME NEW f, ReadyDoing(f), NEW verb \in OtherVerb, NEW arg,
           NEW state \in AskState \ {"RETR_PREQUOTE"}
    PROVE  DoingNext(Send(f, verb, arg, state))
BY DoingSends DEF AskState, DataState

LEMMA AskedWith ==
    /\ {"QUOTE", "CWD", "MKD", "MDTM", "TYPE", "SIZE", "REST"} = AskState \ {"RETR_PREQUOTE"}
    /\ {"QUOTE", "CWD", "MKD", "MDTM", "TYPE", "SIZE", "REST"} \subseteq OtherVerb
BY DEF AskState, OtherVerb

LEMMA StateRest ==
    ASSUME NEW f, ReadyDoing(f)
    PROVE  DoingNext(ftp_state_rest(f))
BY PrepareTransfer, Asks, AskedWith DEF ftp_state_rest

LEMMA StateSize ==
    ASSUME NEW f, ReadyDoing(f)
    PROVE  DoingNext(ftp_state_size(f))
BY StateRest, Asks, AskedWith DEF ftp_state_size

LEMMA StateTypeResp ==
    ASSUME NEW f, ReadyDoing(f), NEW code
    PROVE  DoingNext(ftp_state_type_resp(f, code, "TYPE"))
<1>1. DoingNext(ftp_state_size(f)) /\ DoingNext(Fail(f, "FTP_COULDNT_SET_TYPE"))
  BY StateSize, DoingFails DEF ReadyDoing
<1> QED BY <1>1 DEF ftp_state_type_resp

LEMMA StateType ==
    ASSUME NEW f, ReadyDoing(f)
    PROVE  DoingNext(ftp_state_type(f))
<1> DEFINE g == [f EXCEPT !.transfer = "INFO"]
<1>1. ReadyDoing(g)
  BY DoingSets
<1>2. ASSUME NEW ascii PROVE DoingNext(ftp_nb_type(g, ascii, "TYPE"))
  <2> HIDE DEF g
  <2>1. DoingNext(ftp_state_type_resp([g EXCEPT !.state = "TYPE"], 200, "TYPE"))
    BY <1>1, DoingSets, StateTypeResp
  <2>2. DoingNext(Send([g EXCEPT !.transfertype = TypeOf(ascii)], "TYPE", TypeOf(ascii), "TYPE"))
    BY <1>1, DoingSets, Asks, AskedWith
  <2> QED BY <2>1, <2>2 DEF ftp_nb_type
<1> QED BY <1>2, StateSize DEF ftp_state_type

LEMMA StateMdtm ==
    ASSUME NEW f, ReadyDoing(f)
    PROVE  DoingNext(ftp_state_mdtm(f))
BY StateType, Asks, AskedWith DEF ftp_state_mdtm

LEMMA StateCwd ==
    ASSUME NEW f, ReadyDoing(f)
    PROVE  DoingNext(ftp_state_cwd(f))
<1> DEFINE g == [f EXCEPT !.count2 = 0]
<1>1. ReadyDoing(g)
  BY DoingSets
<1>2. ASSUME NEW v PROVE ReadyDoing([g EXCEPT !.cwdcount = v])
  BY <1>1, DoingSets
<1> HIDE DEF g
<1>3. ASSUME NEW v, NEW item PROVE DoingNext(Send([g EXCEPT !.cwdcount = v], "CWD", item, "CWD"))
  BY <1>2, Asks, AskedWith
<1>4. DoingNext(ftp_state_mdtm(f)) /\ DoingNext(ftp_state_mdtm(g))
  BY <1>1, StateMdtm
<1> QED BY <1>3, <1>4 DEF ftp_state_cwd, g

LEMMA StateQuote ==
    ASSUME NEW f, ReadyDoing(f), NEW init
    PROVE  DoingNext(Quote(f, init))
<1>1. ASSUME NEW v, NEW w PROVE ReadyDoing([f EXCEPT !.count1 = v, !.count2 = w])
  BY FieldNames DEF ReadyDoing, Doing, Ready, Held, Private
<1>2. DoingNext(SendItem(f, init, "QUOTE"))
  BY <1>1, Asks, AskedWith DEF SendItem
<1>3. DoingNext(ftp_state_cwd([f EXCEPT !.count1 = NextItem(f, init)]))
  BY DoingSets, StateCwd
<1> QED BY <1>2, <1>3 DEF Quote
\* A request begins, on a new connection or an old one.
LEMMA DoQuiet ==
    ASSUME NEW f, Held(f), Private(f), Ready(f), ~f.do_more, f.maxdownload = -1, f.way = None
    PROVE  DoingNext(ftp_do(f))
<1> DEFINE p == ftp_parse_url_path(f)
           g == [p EXCEPT !.wait = FALSE, !.ctl_valid = TRUE, !.size = -1, !.phase = "doing",
                          !.transfer = IF p.req.kind = "head" THEN "INFO" ELSE @]
<1>1. /\ DOMAIN p = Fields /\ p.use_ssl = f.use_ssl /\ p.open /\ p.req = f.req
      /\ p.datassl = f.datassl /\ p.out = <<>> /\ ~p.pending /\ p.result = "OK"
      /\ ~p.do_more /\ p.maxdownload = -1 /\ p.way = None
  BY FieldNames DEF ftp_parse_url_path, Held, Ready
<1>2. p.req.kind = f.req.kind
  BY <1>1
<1>3. ftp_do(f) = Quote(g, TRUE)
  BY <1>2 DEF ftp_do
<1>4. ReadyDoing(g)
  <2> HIDE DEF p
  <2> QED BY <1>1, FieldNames DEF ReadyDoing, Doing, Ready, Held, Private
<1> QED BY <1>3, <1>4, StateQuote

LEMMA CwdResponds ==
    ASSUME NEW f, ReadyDoing(f), NEW code
    PROVE  DoingNext(CwdResp(f, code))
<1> DEFINE next == [f EXCEPT !.count2 = 0, !.cwdcount = @ + 1]
           bad == [f EXCEPT !.cwdfail = TRUE]
<1>1. ReadyDoing(next)
  BY FieldNames DEF ReadyDoing, Doing, Ready, Held, Private
<1>2. ASSUME NEW v, NEW w PROVE ReadyDoing([f EXCEPT !.count2 = v, !.count3 = w])
  BY FieldNames DEF ReadyDoing, Doing, Ready, Held, Private
<1>3. DoingNext(Fail(bad, "REMOTE_ACCESS_DENIED"))
  BY DoingSets, DoingFails DEF ReadyDoing
<1> HIDE DEF next, bad
<1>4. ASSUME NEW item PROVE DoingNext(Send(next, "CWD", item, "CWD"))
  BY <1>1, Asks, AskedWith
<1>5. ASSUME NEW v, NEW w, NEW item
      PROVE  DoingNext(Send([f EXCEPT !.count2 = v, !.count3 = w], "MKD", item, "MKD"))
  BY <1>2, Asks, AskedWith
<1>6. DoingNext(ftp_state_mdtm(next))
  BY <1>1, StateMdtm
<1> QED BY <1>3, <1>4, <1>5, <1>6 DEF CwdResp, next, bad

LEMMA MkdResponds ==
    ASSUME NEW f, ReadyDoing(f), NEW code
    PROVE  DoingNext(MkdResp(f, code))
<1>1. ASSUME NEW v, NEW item PROVE DoingNext(Send([f EXCEPT !.count3 = v], "CWD", item, "CWD"))
  BY DoingSets, Asks, AskedWith
<1>2. DoingNext(Fail(f, "REMOTE_ACCESS_DENIED"))
  BY DoingFails DEF ReadyDoing
<1> QED BY <1>1, <1>2 DEF MkdResp

LEMMA MdtmResponds ==
    ASSUME NEW f, ReadyDoing(f), NEW r
    PROVE  DoingNext(ftp_state_mdtm_resp(f, r))
<1>1. DoingNext(Stop([f EXCEPT !.transfer = "NONE"]))
  BY DoingSets, DoingStops
<1> QED BY <1>1, StateType DEF ftp_state_mdtm_resp

LEMMA PortResponds ==
    ASSUME NEW f, ReadyDoing(f), f.transfer = "BODY", NEW code
    PROVE  DoingNext(ftp_state_port_resp(f, code))
<1> DEFINE g == [f EXCEPT !.eprt = @ /\ f.count1 # 0]
<1>1. ReadyDoing(g) /\ g.transfer = "BODY"
  BY DoingSets, FieldNames DEF ReadyDoing, Doing, Held
<1>2. DoingNext(Stop(f))
  BY DoingStops
<1> HIDE DEF g
<1>3. DoingNext(Fail(g, "FTP_PORT_FAILED")) /\ DoingNext(ftp_state_use_port(g, 1))
  BY <1>1, DoingFails, UsePort DEF ReadyDoing
<1> QED BY <1>2, <1>3 DEF ftp_state_port_resp, g

\* PASV takes the place of EPSV, also when the connection to it has failed.
LEMMA EpsvDisabled ==
    ASSUME NEW f, Held(f), Private(f), f.out = <<>>, f.result = "OK", ~f.wait, f.ctl_valid,
           f.way = None, f.maxdownload = -1, f.transfer = "BODY"
    PROVE  DoingNext([ftp_epsv_disable(f) EXCEPT !.phase = "doing"])
<1> DEFINE h == ftp_epsv_disable(f)
           g == [h EXCEPT !.phase = "doing"]
           c == [verb |-> "PASV", arg |-> None]
<1>1. /\ DOMAIN h = Fields /\ h.use_ssl = f.use_ssl /\ h.open
      /\ h.req = f.req /\ h.datassl = f.datassl /\ ~h.wait /\ h.ctl_valid /\ h.way = None
      /\ h.maxdownload = -1 /\ h.transfer = "BODY" /\ h.result = "OK" /\ h.pending
      /\ h.out = <<c>> /\ h.state = "PASV"
  BY FieldNames, OneMessage DEF ftp_epsv_disable, Send, Held
<1> HIDE DEF h
<1>2. /\ DOMAIN g = Fields /\ g.use_ssl = f.use_ssl /\ g.phase = "doing" /\ g.open
      /\ g.req = f.req /\ g.datassl = f.datassl /\ ~g.wait /\ g.ctl_valid /\ g.way = None
      /\ g.maxdownload = -1 /\ g.transfer = "BODY" /\ g.result = "OK" /\ g.pending
      /\ g.out = <<c>> /\ g.state = "PASV"
  BY <1>1, FieldNames
<1> HIDE DEF g
<1>3. Doing(g)
  BY <1>2 DEF Doing, Held, Private
<1>4. Ordinary(c, g)
  BY <1>2 DEF Ordinary, Verb, OtherVerb, TransferVerb, NameVerb, TransferState, NameState
<1>5. DoingNext(g)
  BY <1>2, <1>3, <1>4 DEF DoingNext, Speaks, DoingKept, DataState
<1> QED BY <1>5 DEF g, h

LEMMA PasvResponds ==
    ASSUME NEW f, Doing(f), Ready(f), f.transfer = "BODY", NEW code
    PROVE  DoingNext(ftp_state_pasv_resp(f, code))
<1>1. DoingNext(Stop([f EXCEPT !.second = "connecting", !.do_more = TRUE]))
  BY FieldNames DEF Doing, Ready, Stop, DoingNext, Halts, Held, Private
<1>2. DoingNext(Fail(f, "FTP_WEIRD_PASV_REPLY"))
  BY DoingFails
<1>3. DoingNext(ftp_epsv_disable(f))
  <2> DEFINE h == ftp_epsv_disable(f)
  <2>1. DoingNext([h EXCEPT !.phase = "doing"])
    BY EpsvDisabled DEF Doing, Ready
  <2>2. h.phase = "doing"
    BY FieldNames DEF ftp_epsv_disable, Send, Doing, Held
  <2>3. [h EXCEPT !.phase = "doing"] = h
    <3>1. h = [x \in DOMAIN h |-> h[x]]
      BY DEF ftp_epsv_disable, Send
    <3> HIDE DEF h
    <3> QED BY <2>2, <3>1
  <2> QED BY <2>1, <2>3
<1> QED BY <1>1, <1>2, <1>3 DEF ftp_state_pasv_resp

LEMMA DoingResponds ==
    ASSUME NEW f, Doing(f), Ready(f), DoingKept(f), NEW r
    PROVE  DoingNext(ftp_statemachine(f, r))
<1>1. CASE f.state = "PASV"
  <2>1. f.transfer = "BODY"
    BY <1>1 DEF DoingKept, DataState
  <2>2. ftp_statemachine(f, r) = ftp_state_pasv_resp(f, r.code)
    BY <1>1 DEF ftp_statemachine
  <2> QED BY <2>1, <2>2, PasvResponds
<1>2. CASE f.state # "PASV"
  <2>0. ReadyDoing(f)
    BY <1>2 DEF ReadyDoing, DoingKept
  <2>1. CASE f.state \in {"QUOTE", "RETR_PREQUOTE"}
    <3>1. ftp_statemachine(f, r) = QuoteResp(f, r.code)
      BY <2>1 DEF ftp_statemachine
    <3>2. DoingNext(ftp_state_quote(f))
      BY <2>0, <2>1, StateQuote, AskPrequote DEF ftp_state_quote, DoingKept
    <3>3. DoingNext(Fail(f, "QUOTE_ERROR"))
      BY DoingFails
    <3> QED BY <3>1, <3>2, <3>3 DEF QuoteResp
  <2>2. CASE f.state = "CWD"
    BY <2>0, <2>2, CwdResponds DEF ftp_statemachine
  <2>3. CASE f.state = "MKD"
    BY <2>0, <2>3, MkdResponds DEF ftp_statemachine
  <2>4. CASE f.state = "MDTM"
    BY <2>0, <2>4, MdtmResponds DEF ftp_statemachine
  <2>5. CASE f.state = "TYPE"
    BY <2>0, <2>5, StateTypeResp DEF ftp_statemachine
  <2>6. CASE f.state = "SIZE"
    <3>1. ftp_statemachine(f, r) = ftp_state_size_resp(f, r)
      BY <2>6 DEF ftp_statemachine
    <3>2. DoingNext(ftp_state_rest(f)) /\ DoingNext(Fail(f, "REMOTE_FILE_NOT_FOUND"))
      BY <2>0, StateRest, DoingFails
    <3> QED BY <2>6, <3>1, <3>2 DEF ftp_state_size_resp
  <2>7. CASE f.state = "REST"
    <3>1. ftp_statemachine(f, r) = ftp_state_rest_resp(f, r.code)
      BY <2>7 DEF ftp_statemachine
    <3> QED BY <2>0, <2>7, <3>1, PrepareTransfer DEF ftp_state_rest_resp
  <2>8. CASE f.state = "PRET"
    <3>1. f.transfer = "BODY"
      BY <2>8 DEF DoingKept, DataState
    <3>2. DoingNext(ftp_state_use_pasv(f)) /\ DoingNext(Fail(f, "FTP_PRET_FAILED"))
      BY <2>0, <3>1, UsePasv, DoingFails
    <3> QED BY <2>8, <3>2 DEF ftp_statemachine
  <2>9. CASE f.state = "PORT"
    <3>1. f.transfer = "BODY"
      BY <2>9 DEF DoingKept, DataState
    <3>2. ftp_statemachine(f, r) = ftp_state_port_resp(f, r.code)
      BY <2>9 DEF ftp_statemachine
    <3> QED BY <2>0, <3>1, <3>2, PortResponds
  <2> QED BY <1>2, <2>1, <2>2, <2>3, <2>4, <2>5, <2>6, <2>7, <2>8, <2>9
          DEF DoingKept, AskState, DataState
<1> QED BY <1>1, <1>2

\* MSTATE_DOING goes on as the handler has left it.
LEMMA AfterDoing ==
    ASSUME NEW g, DoingNext(g)
    PROVE  AfterQuiet(AfterDo(g)) /\ AfterDo(g) = After(g)
<1>0. AfterDo(g) = After(g)
  BY DEF After, DoingNext, Doing
<1>1. CASE Speaks(g) /\ DoingKept(g)
  <2>1. AfterDo(g) = g
    BY <1>1 DEF AfterDo, Speaks, DoingKept, AskState, DataState
  <2>2. ClientOK([g EXCEPT !.out = <<>>])
    BY <1>1, FieldNames DEF DoingNext, Doing, Held, Speaks, DoingKept, ClientOK, Private
  <2>3. Awaits(g) = "answer"
    BY DEF DoingNext, Doing, Awaits
  <2> QED BY <1>0, <1>1, <2>1, <2>2, <2>3 DEF AfterQuiet, DoingNext, Doing, Private, Held, Speaks
<1>2. CASE Halts(g) /\ (g.do_more => g.transfer = "BODY")
  <2>0. AfterDo(g) = ftp_dophase_done(g)
    BY <1>2 DEF AfterDo, Halts, Ready, DoingNext, Doing
  <2>1. CASE g.do_more \/ g.transfer = "BODY"
    <3> DEFINE h == [g EXCEPT !.ctl_valid = TRUE, !.do_more = (g.do_more \/ g.transfer = "BODY")]
               k == [h EXCEPT !.phase = "more"]
    <3>1. ftp_dophase_done(g) = k
      BY <2>1 DEF ftp_dophase_done
    <3>2. /\ DOMAIN h = Fields /\ h.use_ssl = g.use_ssl /\ h.open /\ h.req = g.req
          /\ h.datassl = g.datassl /\ h.out = <<>> /\ ~h.pending /\ h.result = "OK"
          /\ h.state = "STOP" /\ ~h.wait /\ h.ctl_valid /\ h.way = None /\ h.maxdownload = -1
          /\ h.transfer = "BODY"
      BY <1>2, <2>1, FieldNames DEF DoingNext, Doing, Held, Halts, Ready
    <3> HIDE DEF h
    <3>3. /\ DOMAIN k = Fields /\ k.use_ssl = g.use_ssl /\ k.open /\ k.req = g.req
          /\ k.datassl = g.datassl /\ k.out = <<>> /\ ~k.pending /\ k.result = "OK"
          /\ k.state = "STOP" /\ ~k.wait /\ k.ctl_valid /\ k.way = None /\ k.maxdownload = -1
          /\ k.transfer = "BODY" /\ k.phase = "more"
      BY <3>2, FieldNames
    <3> HIDE DEF k
    <3>4. ClientOK([k EXCEPT !.out = <<>>])
      BY <3>3, FieldNames DEF DoingNext, Doing, Held, ClientOK, Private, MoreKept, Ranged,
         StorState, RetrState, SizeState, ListState
    <3>5. Awaits(k) = "nothing"
      BY <3>3 DEF Awaits
    <3> QED BY <1>0, <2>0, <3>1, <3>3, <3>4, <3>5 DEF AfterQuiet
  <2>2. CASE ~(g.do_more \/ g.transfer = "BODY")
    <3> DEFINE h == [g EXCEPT !.ctl_valid = TRUE, !.do_more = (g.do_more \/ g.transfer = "BODY")]
               k == SetupTransfer(h, None, -1)
    <3>1. ftp_dophase_done(g) = Did(k)
      BY <2>2 DEF ftp_dophase_done
    <3>2. /\ DOMAIN h = Fields /\ h.use_ssl = g.use_ssl /\ h.open /\ h.req = g.req
          /\ h.datassl = g.datassl /\ h.out = <<>> /\ ~h.pending
          /\ h.state = "STOP" /\ h.maxdownload = -1
      BY <1>2, FieldNames DEF DoingNext, Doing, Held, Halts, Ready
    <3> HIDE DEF h
    <3>3. /\ DOMAIN k = Fields /\ k.use_ssl = g.use_ssl /\ k.open /\ k.req = g.req
          /\ k.datassl = g.datassl /\ k.out = <<>> /\ ~k.pending
          /\ k.state = "STOP" /\ k.way = None /\ k.maxdownload = -1
      BY <3>2, FieldNames DEF SetupTransfer
    <3> HIDE DEF k
    <3>4. Did(k) = ftp_done(k, "OK", FALSE)
      BY <3>3 DEF Did
    <3>5. Held(k) /\ Private(k) /\ ~Aborts(k)
      BY <3>3 DEF DoingNext, Doing, Held, Private, Aborts
    <3> QED BY <1>0, <2>0, <3>1, <3>3, <3>4, <3>5, DoneQuiet
  <2> QED BY <2>1, <2>2
<1>3. CASE Fails(g)
  <2>1. AfterDo(g) = ftp_done(g, g.result, FALSE)
    BY <1>3 DEF AfterDo, Fails
  <2>2. ~Aborts(g)
    BY DEF DoingNext, Doing, Aborts
  <2> QED BY <1>0, <1>3, <2>1, <2>2, DoneQuiet DEF DoingNext, Doing, Fails
<1> QED BY <1>1, <1>2, <1>3 DEF DoingNext
-----------------------------------------------------------------------------
(* Logging in.                                                               *)

Login(f) ==
    Held(f) /\ f.phase = "connect" /\ ~f.do_more /\ f.maxdownload = -1 /\ f.way = None /\ ~f.wait

\* TLS is on where it must be before a name is told, and as both ends see it.
Secured(f) == (Level(f.use_ssl) >= 2 => f.tls) /\ (f.tls => srv.tls)

LoginNext(g) ==
    /\ Login(g)
    /\ \/ Speaks(g) /\ ConnectKept(g) /\ g.datassl = srv.private
       \/ Halts(g) /\ Private(g)
       \/ Fails(g) /\ g.result \notin Harmless

ReadyLogin(f) == Login(f) /\ Ready(f) /\ f.datassl = srv.private

LEMMA LoginSends ==
    ASSUME NEW f, ReadyLogin(f), NEW arg,
           NEW state \in (EarlyState \ {"WAIT220"}) \cup LateState,
           state \in EarlyState => (f.tls => srv.tls),
           state \in NameState => Secured(f),
           state = "AUTH" => f.datassl = FALSE,
           state = "PROT" => arg = IF f.use_ssl = "control" THEN "C" ELSE "P",
           state \notin EarlyState => Private(f)
    PROVE  LoginNext(Send(f, state, arg, state))
<1> DEFINE g == Send(f, state, arg, state)
           c == [verb |-> state, arg |-> arg]
<1>1. /\ DOMAIN g = Fields /\ g.use_ssl = f.use_ssl /\ g.phase = "connect" /\ g.open
      /\ g.req = f.req /\ g.datassl = f.datassl /\ g.tls = f.tls /\ ~g.wait /\ g.way = None
      /\ g.maxdownload = -1 /\ g.result = "OK" /\ g.pending
      /\ g.out = <<c>> /\ g.state = state /\ ~g.do_more
  BY FieldNames, OneMessage DEF Send, ReadyLogin, Login, Ready, Held
<1> HIDE DEF g
<1>2. Login(g)
  BY <1>1 DEF ReadyLogin, Login, Held
<1>3. Ordinary(c, g)
  BY <1>1 DEF Ordinary, Verb, OtherVerb, TransferVerb, NameVerb, TransferState, NameState, EarlyState, LateState
<1>4. ConnectKept(g)
  <2>1. g.state \in EarlyState => (g.tls => srv.tls)
    BY <1>1
  <2>2. g.state \in NameState /\ Level(g.use_ssl) >= 2 => g.tls
    BY <1>1 DEF Secured
  <2>3. g.datassl = srv.private
    BY <1>1 DEF ReadyLogin
  <2>4. g.state \notin EarlyState => Private(g)
    BY <1>1 DEF Private
  <2>5. g.state \in {"WAIT220", "AUTH"} => g.datassl = FALSE
    BY <1>1 DEF LateState
  <2>6. LoginKept(g)
    BY <2>1, <2>2, <2>3, <2>4, <2>5 DEF LoginKept
  <2> QED BY <1>1, <2>6 DEF ConnectKept
<1>5. LoginNext(g)
  BY <1>1, <1>2, <1>3, <1>4 DEF LoginNext, Speaks, ReadyLogin
<1> QED BY <1>5 DEF g

LEMMA LoginFails ==
    ASSUME NEW f, ReadyLogin(f), NEW result, result \notin Harmless
    PROVE  LoginNext(Fail(f, result))
<1>1. result # "OK"
  BY DEF Harmless
<1> QED BY <1>1, FieldNames DEF ReadyLogin, Login, Ready, Fail, LoginNext, Fails, Held

LEMMA LoginSets ==
    ASSUME NEW f, ReadyLogin(f), NEW v
    PROVE  /\ ReadyLogin([f EXCEPT !.alternative = v]) /\ [f EXCEPT !.alternative = v].tls = f.tls
           /\ ReadyLogin([f EXCEPT !.count3 = v]) /\ [f EXCEPT !.count3 = v].tls = f.tls
           /\ ReadyLogin([f EXCEPT !.entrypath = v]) /\ [f EXCEPT !.entrypath = v].tls = f.tls
           /\ ReadyLogin([f EXCEPT !.server_os = v]) /\ [f EXCEPT !.server_os = v].tls = f.tls
           /\ [f EXCEPT !.alternative = v].use_ssl = f.use_ssl
           /\ [f EXCEPT !.count3 = v].datassl = f.datassl
           /\ [f EXCEPT !.entrypath = v].use_ssl = f.use_ssl
           /\ [f EXCEPT !.entrypath = v].datassl = f.datassl
           /\ [f EXCEPT !.server_os = v].use_ssl = f.use_ssl
           /\ [f EXCEPT !.server_os = v].datassl = f.datassl
BY FieldNames DEF ReadyLogin, Login, Ready, Held

\* Another name is tried on the same connection.
LEMMA OtherName ==
    ASSUME NEW f, ReadyLogin(f), Secured(f), NEW v
    PROVE  LET g == [f EXCEPT !.alternative = v] IN ReadyLogin(g) /\ Secured(g)
<1> DEFINE g == [f EXCEPT !.alternative = v]
<1>1. g.tls = f.tls /\ g.use_ssl = f.use_ssl
  BY FieldNames DEF ReadyLogin, Login, Held
<1>2. ReadyLogin(g)
  BY FieldNames DEF ReadyLogin, Login, Ready, Held
<1> HIDE DEF g
<1>3. Secured(g)
  BY <1>1 DEF Secured
<1> QED BY <1>2, <1>3 DEF g

LEMMA LoginEnded ==
    ASSUME NEW f, ReadyLogin(f), Private(f)
    PROVE  LoginNext(LoginEnds(f))
<1> DEFINE k == Stop(f)
           g == [k EXCEPT !.server_os = FALSE, !.alternative = FALSE]
<1>1. /\ DOMAIN k = Fields /\ k.use_ssl = f.use_ssl /\ k.phase = "connect" /\ k.open
      /\ k.req = f.req /\ k.datassl = f.datassl /\ ~k.wait /\ k.way = None
      /\ k.maxdownload = -1 /\ k.result = "OK" /\ ~k.pending /\ k.out = <<>>
      /\ k.state = "STOP" /\ ~k.do_more
  BY FieldNames DEF Stop, ReadyLogin, Login, Ready, Held
<1> HIDE DEF k
<1>2. LoginNext(g)
  BY <1>1, FieldNames DEF LoginNext, Login, Held, Halts, Ready, Private, ReadyLogin
<1> QED BY <1>2 DEF LoginEnds, k

LEMMA StateUser ==
    ASSUME NEW f, ReadyLogin(f), Secured(f)
    PROVE  LoginNext(ftp_state_user(f))
<1> DEFINE g == [f EXCEPT !.alternative = FALSE]
<1>1. ReadyLogin(g) /\ Secured(g)
  BY OtherName
<1>2. "USER" \in EarlyState /\ "USER" \in NameState /\ "USER" \notin {"WAIT220", "AUTH", "PROT"}
  BY DEF EarlyState, NameState
<1> HIDE DEF g
<1>3. LoginNext(Send(g, "USER", None, "USER"))
  BY <1>1, <1>2, LoginSends DEF Secured
<1> QED BY <1>3 DEF ftp_state_user, g

LEMMA StatePwd ==
    ASSUME NEW f, ReadyLogin(f), Private(f)
    PROVE  LoginNext(ftp_state_pwd(f))
<1>1. "PWD" \in LateState /\ "PWD" \notin EarlyState
  BY DEF EarlyState, LateState, NameState
<1> QED BY <1>1, LoginSends DEF ftp_state_pwd, NameState, EarlyState

LEMMA StateLoggedin ==
    ASSUME NEW f, ReadyLogin(f), Secured(f)
    PROVE  LoginNext(ftp_state_loggedin(f))
<1>1. CASE f.tls
  <2>1. "PBSZ" \in EarlyState /\ "PBSZ" \notin NameState \cup {"WAIT220", "AUTH", "PROT"}
    BY DEF EarlyState, NameState
  <2>2. LoginNext(Send(f, "PBSZ", None, "PBSZ"))
    BY <2>1, LoginSends DEF Secured
  <2> QED BY <1>1, <2>2 DEF ftp_state_loggedin
<1>2. CASE ~f.tls
  <2>1. f.use_ssl # "all"
    BY <1>2 DEF Secured, Level
  <2>2. Private(f)
    BY <2>1 DEF Private, ReadyLogin
  <2> QED BY <1>2, <2>2, StatePwd DEF ftp_state_loggedin
<1> QED BY <1>1, <1>2

LEMMA NameStates ==
    \A state \in NameState :
       state \in EarlyState \ {"WAIT220"} /\ state \notin {"AUTH", "PROT"}
BY DEF EarlyState, NameState

LEMMA UserResponds ==
    ASSUME NEW f, ReadyLogin(f), Secured(f), NEW code
    PROVE  LoginNext(ftp_state_user_resp(f, code))
<1>1. LoginNext(Send(f, "PASS", None, "PASS")) /\ LoginNext(Send(f, "ACCT", None, "ACCT"))
  BY NameStates, LoginSends DEF Secured, NameState
<1>2. LoginNext(Send([f EXCEPT !.alternative = TRUE], "USER", None, "USER"))
  <2> DEFINE g == [f EXCEPT !.alternative = TRUE]
  <2>1. ReadyLogin(g) /\ Secured(g)
    BY OtherName
  <2> HIDE DEF g
  <2>2. LoginNext(Send(g, "USER", None, "USER"))
    BY <2>1, NameStates, LoginSends DEF Secured, NameState
  <2> QED BY <2>2 DEF g
<1>3. LoginNext(Fail(f, "LOGIN_DENIED"))
  BY LoginFails DEF Harmless
<1>4. LoginNext(ftp_state_loggedin(f))
  BY StateLoggedin
<1> QED BY <1>1, <1>2, <1>3, <1>4 DEF ftp_state_user_resp

LEMMA AuthSent ==
    ASSUME NEW f, ReadyLogin(f), f.tls => srv.tls, f.datassl = FALSE, NEW v
    PROVE  LoginNext(Send([f EXCEPT !.count3 = v], "AUTH", None, "AUTH"))
<1> DEFINE g == [f EXCEPT !.count3 = v]
<1>1. ReadyLogin(g) /\ (g.tls => srv.tls) /\ g.datassl = FALSE
  BY LoginSets
<1>2. "AUTH" \in EarlyState \ {"WAIT220"} /\ "AUTH" \notin NameState
  BY DEF EarlyState, NameState
<1> HIDE DEF g
<1>3. LoginNext(Send(g, "AUTH", None, "AUTH"))
  BY <1>1, <1>2, LoginSends
<1> QED BY <1>3 DEF g

LEMMA GreetingResponds ==
    ASSUME NEW f, ReadyLogin(f), f.tls => srv.tls, f.datassl = FALSE, NEW code
    PROVE  LoginNext(Wait220(f, code))
<1>1. CASE code = 230 /\ (Level(f.use_ssl) <= 1 \/ f.tls)
  <2>1. Secured(f)
    BY <1>1 DEF Secured, Level, SslLevels, ReadyLogin, Login, Held
  <2> QED BY <1>1, <2>1, UserResponds DEF Wait220
<1>2. CASE ~(code = 230 /\ (Level(f.use_ssl) <= 1 \/ f.tls))
  <2>1. LoginNext(Fail(f, "WEIRD_SERVER_REPLY"))
    BY LoginFails DEF Harmless
  <2>2. ASSUME ~(f.use_ssl # "none" /\ ~f.tls) PROVE LoginNext(ftp_state_user(f))
    <3>1. Secured(f)
      BY <2>2 DEF Secured, Level
    <3> QED BY <3>1, StateUser
  <2>3. LoginNext(Send([f EXCEPT !.count3 = 0], "AUTH", None, "AUTH"))
    BY AuthSent
  <2> QED BY <1>2, <2>1, <2>2, <2>3 DEF Wait220
<1> QED BY <1>1, <1>2

LEMMA AuthResponds ==
    ASSUME NEW f, ReadyLogin(f), f.tls => srv.tls, f.datassl = FALSE, NEW code,
           code \in {234, 334} => srv.tls
    PROVE  LoginNext(AuthResp(f, code))
<1>1. CASE code \in {234, 334}
  <2> DEFINE g == [f EXCEPT !.tls = TRUE, !.datassl = FALSE]
  <2>1. ReadyLogin(g) /\ Secured(g)
    BY <1>1, FieldNames, ZenonT(60) DEF ReadyLogin, Login, Ready, Held, Secured
  <2>2. AuthResp(f, code) = ftp_state_user(g)
    BY <1>1 DEF AuthResp
  <2> QED BY <2>1, <2>2, StateUser
<1>2. CASE code \notin {234, 334}
  <2>1. LoginNext(Send([f EXCEPT !.count3 = @ + 1], "AUTH", None, "AUTH"))
    BY AuthSent
  <2>2. LoginNext(Fail(f, "USE_SSL_FAILED"))
    BY LoginFails DEF Harmless
  <2>3. ASSUME ~(Level(f.use_ssl) > 1) PROVE LoginNext(ftp_state_user(f))
    <3>1. Secured(f)
      BY <2>3 DEF Secured, Level, SslLevels, ReadyLogin, Login, Held
    <3> QED BY <3>1, StateUser
  <2> QED BY <1>2, <2>1, <2>2, <2>3 DEF AuthResp
<1> QED BY <1>1, <1>2

LEMMA ProtResponds ==
    ASSUME NEW f, Login(f), Ready(f), NEW code,
           srv.private = IF code \div 100 = 2 THEN f.use_ssl # "control" ELSE f.datassl
    PROVE  LoginNext(ProtResp(f, code))
<1> DEFINE ok == code \div 100 = 2
           g == [f EXCEPT !.datassl = IF ok THEN f.use_ssl # "control" ELSE @]
<1>1. ReadyLogin(g) /\ g.use_ssl = f.use_ssl /\ g.datassl = srv.private
      /\ (ok /\ f.use_ssl = "all" => g.datassl)
  BY FieldNames DEF ReadyLogin, Login, Ready, Held
<1>2. CASE ~ok /\ f.use_ssl = "all"
  <2>1. ReadyLogin(f)
    BY <1>2 DEF ReadyLogin
  <2>2. LoginNext(Fail(f, "USE_SSL_FAILED"))
    BY <2>1, LoginFails DEF Harmless
  <2> QED BY <1>2, <2>2 DEF ProtResp
<1>3. CASE ~(~ok /\ f.use_ssl = "all")
  <2>1. Private(g)
    BY <1>1, <1>3 DEF Private
  <2>2. ProtResp(f, code) = IF Ccc THEN Send(g, "CCC", None, "CCC") ELSE ftp_state_pwd(g)
    BY <1>3 DEF ProtResp
  <2>3. "CCC" \in LateState /\ "CCC" \notin EarlyState \cup NameState
    BY DEF EarlyState, LateState, NameState
  <2> HIDE DEF g
  <2>4. LoginNext(ftp_state_pwd(g)) /\ LoginNext(Send(g, "CCC", None, "CCC"))
    BY <1>1, <2>1, <2>3, StatePwd, LoginSends DEF EarlyState
  <2> QED BY <2>2, <2>4
<1> QED BY <1>2, <1>3

LEMMA LoginResponds ==
    ASSUME NEW f, Login(f), Ready(f), ConnectKept(f), NEW r, Heard(r, f)
    PROVE  LoginNext(ftp_statemachine(f, r))
<1>0. f.state # "PROT" => ReadyLogin(f)
  BY DEF ReadyLogin, ConnectKept, LoginKept
<1>1. CASE f.state = "WAIT220"
  BY <1>0, <1>1, GreetingResponds DEF ftp_statemachine, ConnectKept, LoginKept, EarlyState
<1>2. CASE f.state = "AUTH"
  <2>1. ReadyLogin(f) /\ (f.tls => srv.tls) /\ f.datassl = FALSE
    BY <1>0, <1>2 DEF ConnectKept, LoginKept, EarlyState
  <2>2. r.code \in {234, 334} => srv.tls
    BY <1>2 DEF Heard
  <2>3. LoginNext(AuthResp(f, r.code))
    BY <2>1, <2>2, AuthResponds
  <2> QED BY <1>2, <2>3 DEF ftp_statemachine
<1>3. CASE f.state \in NameState
  <2>1. Secured(f) /\ ReadyLogin(f)
    BY <1>0, <1>3 DEF Secured, ConnectKept, LoginKept, EarlyState, NameState
  <2>2. LoginNext(ftp_state_user_resp(f, r.code)) /\ LoginNext(ftp_state_loggedin(f))
    BY <2>1, UserResponds, StateLoggedin
  <2>3. LoginNext(Fail(f, "FTP_WEIRD_PASS_REPLY"))
    BY <2>1, LoginFails DEF Harmless
  <2> QED BY <1>3, <2>2, <2>3 DEF ftp_statemachine, NameState
<1>4. CASE f.state = "PBSZ"
  <2>1. "PROT" \in EarlyState /\ "PROT" \notin NameState \cup {"WAIT220", "AUTH"}
    BY DEF EarlyState, NameState
  <2>2. f.tls => srv.tls
    BY <1>4 DEF ConnectKept, LoginKept, EarlyState
  <2> QED BY <1>0, <1>4, <2>1, <2>2, LoginSends DEF ftp_statemachine
<1>5. CASE f.state = "PROT"
  BY <1>5, ProtResponds DEF ftp_statemachine, Heard
<1>6. CASE f.state \in LateState
  <2>1. ReadyLogin(f) /\ Private(f)
    BY <1>0, <1>6 DEF ConnectKept, LoginKept, EarlyState, NameState, LateState
  <2>2. LoginNext(ftp_state_pwd(f)) /\ LoginNext(LoginEnds(f))
    BY <2>1, StatePwd, LoginEnded
  <2>3. ASSUME NEW g, ReadyLogin(g), Private(g), NEW state \in {"SYST", "NAMEFMT"}
        PROVE  LoginNext(Send(g, state, None, state))
    <3>1. state \in LateState /\ state \notin EarlyState \cup NameState
      BY DEF EarlyState, LateState, NameState
    <3> QED BY <2>3, <3>1, LoginSends DEF EarlyState
  <2>4. ASSUME NEW g, ReadyLogin(g), Private(g) PROVE LoginNext(LoginEnds(g))
    BY <2>4, LoginEnded
  <2>5. LoginNext(PwdResp(f, r))
    <3> DEFINE g == [f EXCEPT !.entrypath = @ \/ r.code = 257]
    <3>1. ReadyLogin(g) /\ Private(g)
      BY <2>1, FieldNames DEF ReadyLogin, Login, Ready, Held, Private
    <3> HIDE DEF g
    <3>2. LoginNext(Send(g, "SYST", None, "SYST")) /\ LoginNext(LoginEnds(g))
      BY <2>3, <2>4, <3>1
    <3> QED BY <3>2 DEF PwdResp, g
  <2>6. LoginNext(SystResp(f, r))
    <3> DEFINE g == [f EXCEPT !.server_os = @ \/ r.code = 215]
    <3>1. ReadyLogin(g) /\ Private(g)
      BY <2>1, FieldNames DEF ReadyLogin, Login, Ready, Held, Private
    <3> HIDE DEF g
    <3>2. LoginNext(Send(g, "NAMEFMT", None, "NAMEFMT")) /\ LoginNext(LoginEnds(g))
      BY <2>3, <2>4, <3>1
    <3> QED BY <3>2 DEF SystResp, g
  <2> QED BY <1>6, <2>2, <2>5, <2>6 DEF ftp_statemachine, LateState
<1> QED BY <1>1, <1>2, <1>3, <1>4, <1>5, <1>6 DEF ConnectKept, EarlyState

\* MSTATE_PROTOCONNECTING goes on as the handler has left it.
LEMMA AfterLogin ==
    ASSUME NEW g, LoginNext(g)
    PROVE  AfterQuiet(After(g))
<1>1. CASE Speaks(g) /\ ConnectKept(g) /\ g.datassl = srv.private
  <2>1. After(g) = g
    BY <1>1 DEF After, AfterDo, Speaks, ConnectKept, EarlyState, LateState, NameState
  <2>2. ClientOK([g EXCEPT !.out = <<>>])
    BY <1>1, FieldNames DEF LoginNext, Login, Held, Speaks, ConnectKept, LoginKept, ClientOK, Private
  <2>3. Awaits(g) = "answer"
    BY DEF LoginNext, Login, Awaits
  <2> QED BY <1>1, <2>1, <2>2, <2>3 DEF AfterQuiet, LoginNext, Login, Held, Speaks
<1>2. CASE Halts(g) /\ Private(g)
  <2>1. After(g) = AfterDo(ftp_do(g))
    BY <1>2 DEF After, Halts, Ready, LoginNext, Login
  <2>2. DoingNext(ftp_do(g))
    BY <1>2, DoQuiet DEF Halts, LoginNext, Login
  <2> QED BY <2>1, <2>2, AfterDoing
<1>3. CASE Fails(g) /\ g.result \notin Harmless
  <2>1. After(g) = ftp_done(g, g.result, FALSE)
    BY <1>3 DEF After, AfterDo, Fails
  <2>2. Closed(After(g))
    BY <1>3, <2>1, DoneClosed DEF LoginNext, Login, Fails
  <2> QED BY <2>2, ClosedOK DEF AfterQuiet
<1> QED BY <1>1, <1>2, <1>3 DEF LoginNext
-----------------------------------------------------------------------------
(* With a data connection.                                                   *)

More(f) ==
    /\ Held(f) /\ Private(f) /\ f.phase = "more"
    /\ ~f.wait /\ f.ctl_valid /\ f.way = None /\ f.second # "connecting"

ReadyMore(f) ==
    /\ More(f) /\ Ready(f) /\ f.transfer = "BODY"
    /\ f.maxdownload > 0 => f.req.kind # "put" /\ f.req.max > 0

MoreNext(g) ==
    /\ More(g)
    /\ \/ Speaks(g) /\ MoreKept(g)
       \/ (Halts(g) \/ Fails(g)) /\ (Aborts(g) => g.transfer = "BODY")

\* The states that suit a request.
Suits(state, r) ==
    /\ state \in StorState => r.kind = "put"
    /\ state \in RetrState => r.file /\ r.kind # "put"
    /\ state \in ListState => ~r.file

DataStates == StorState \cup RetrState \cup ListState

LEMMA MoreSends ==
    ASSUME NEW f, ReadyMore(f), NEW verb \in OtherVerb \cup TransferVerb, NEW arg,
           NEW state \in DataStates, Suits(state, f.req),
           verb \in TransferVerb <=> state \in TransferState,
           state = "RETR_SIZE" => verb = "SIZE",
           state \in SizeState => f.resume = f.req.resume
    PROVE  MoreNext(Send(f, verb, arg, state))
<1> DEFINE g == Send(f, verb, arg, state)
           c == [verb |-> verb, arg |-> arg]
<1>1. /\ DOMAIN g = Fields /\ g.use_ssl = f.use_ssl /\ g.phase = "more" /\ g.open
      /\ g.req = f.req /\ g.datassl = f.datassl /\ ~g.wait /\ g.ctl_valid /\ g.way = None
      /\ g.maxdownload = f.maxdownload /\ g.transfer = "BODY" /\ g.result = "OK" /\ g.pending
      /\ g.out = <<c>> /\ g.state = state /\ g.second = f.second /\ g.resume = f.resume
  BY FieldNames, OneMessage DEF Send, ReadyMore, More, Ready, Held
<1> HIDE DEF g
<1>2. More(g)
  BY <1>1 DEF More, ReadyMore, Held, Private
<1>3. state \notin NameState \cup {"AUTH", "CCC", "PROT", "STOP"}
  BY DEF NameState, DataStates, StorState, RetrState, SizeState, ListState
<1>4. verb \notin NameVerb \cup {"AUTH", "CCC", "PROT"}
  BY DEF NameVerb, OtherVerb, TransferVerb
<1>5. Ordinary(c, g)
  BY <1>1, <1>3, <1>4 DEF Ordinary, Verb
<1>6. Ranged(g)
  BY <1>1 DEF Ranged, ReadyMore
<1>7. MoreKept(g)
  BY <1>1, <1>2, <1>3, <1>6 DEF MoreKept, More, Suits, DataStates
<1>8. MoreNext(g)
  BY <1>1, <1>2, <1>5, <1>7 DEF MoreNext, Speaks
<1> QED BY <1>8 DEF g

LEMMA MoreFails ==
    ASSUME NEW f, ReadyMore(f), NEW result, result # "OK"
    PROVE  MoreNext(Fail(f, result))
<1> DEFINE g == Fail(f, result)
<1>1. More(g) /\ Fails(g) /\ g.transfer = "BODY"
  BY FieldNames DEF ReadyMore, More, Ready, Fail, Fails, Held, Private
<1> QED BY <1>1 DEF MoreNext

\* There turns out to be nothing to transfer.
LEMMA MoreStops ==
    ASSUME NEW f, ReadyMore(f), ~(f.maxdownload > 0), NEW transfer
    PROVE  MoreNext(Stop([f EXCEPT !.transfer = transfer]))
<1> DEFINE k == [f EXCEPT !.transfer = transfer]
           g == Stop(k)
<1>1. More(k) /\ Ready(k) /\ ~(k.maxdownload > 0)
  BY FieldNames DEF ReadyMore, More, Ready, Held, Private
<1> HIDE DEF k
<1>2. More(g) /\ Halts(g) /\ ~(g.maxdownload > 0)
  BY <1>1, FieldNames DEF More, Ready, Halts, Stop, Held, Private
<1> HIDE DEF g
<1>3. MoreNext(g)
  BY <1>2 DEF MoreNext, Aborts
<1> QED BY <1>3 DEF g, k

LEMMA MoreSets ==
    ASSUME NEW f, ReadyMore(f), NEW v
    PROVE  /\ ReadyMore([f EXCEPT !.count1 = v]) /\ ReadyMore([f EXCEPT !.count2 = v])
           /\ ReadyMore([f EXCEPT !.state = v]) /\ ReadyMore([f EXCEPT !.resume = v])
           /\ ReadyMore([f EXCEPT !.transfertype = v]) /\ ReadyMore([f EXCEPT !.downloadsize = v])
           /\ ReadyMore([f EXCEPT !.infilesize = v]) /\ ReadyMore([f EXCEPT !.retr_size = v])
BY FieldNames DEF ReadyMore, More, Ready, Held, Private

LEMMA MoreSame ==
    ASSUME NEW f, DOMAIN f = Fields, NEW v
    PROVE  /\ [f EXCEPT !.count1 = v].req = f.req /\ [f EXCEPT !.count1 = v].resume = f.resume
           /\ [f EXCEPT !.state = v].req = f.req /\ [f EXCEPT !.state = v].resume = f.resume
           /\ [f EXCEPT !.transfertype = v].req = f.req
           /\ [f EXCEPT !.transfertype = v].resume = f.resume
           /\ [f EXCEPT !.resume = v].req = f.req /\ [f EXCEPT !.downloadsize = v].req = f.req
           /\ [f EXCEPT !.infilesize = v].req = f.req
           /\ [f EXCEPT !.infilesize = v].maxdownload = f.maxdownload
           /\ [f EXCEPT !.downloadsize = v].resume = f.resume
BY FieldNames

\* An item of a list of commands before the transfer.
LEMMA ItemSent ==
    ASSUME NEW f, ReadyMore(f), NEW state \in {"RETR_PREQUOTE", "STOR_PREQUOTE"},
           Suits(state, f.req), state \in SizeState => f.resume = f.req.resume, NEW init
    PROVE  MoreNext(SendItem(f, init, state))
<1>1. ASSUME NEW v, NEW w
      PROVE  LET g == [f EXCEPT !.count1 = v, !.count2 = w]
             IN  ReadyMore(g) /\ g.req = f.req /\ g.resume = f.resume
  BY FieldNames DEF ReadyMore, More, Ready, Held, Private
<1>2. state \in DataStates /\ state \notin TransferState \cup {"RETR_SIZE"}
  BY DEF DataStates, StorState, RetrState, SizeState, TransferState
<1>3. "QUOTE" \in OtherVerb /\ "QUOTE" \notin TransferVerb
  BY DEF OtherVerb, TransferVerb
<1>4. ASSUME NEW v, NEW w
      PROVE  MoreNext(Send([f EXCEPT !.count1 = v, !.count2 = w], "QUOTE", None, state))
  BY <1>1, <1>2, <1>3, MoreSends
<1> QED BY <1>4 DEF SendItem

LEMMA StorSetup ==
    ASSUME NEW f, ReadyMore(f), f.req.kind = "put", NEW checked
    PROVE  MoreNext(ftp_state_ul_setup(f, checked))
<1>1. ~(f.maxdownload > 0)
  BY DEF ReadyMore
<1>2. /\ {"STOR", "STOR_SIZE"} \subseteq DataStates
      /\ {"STOR", "STOR_SIZE"} \cap (SizeState \cup {"RETR_SIZE"}) = {}
      /\ "STOR" \in TransferState /\ "STOR_SIZE" \notin TransferState
      /\ {"STOR", "APPE"} \subseteq TransferVerb
      /\ "SIZE" \in OtherVerb /\ "SIZE" \notin TransferVerb
  BY DEF DataStates, StorState, SizeState, TransferState, TransferVerb, OtherVerb
<1>3. Suits("STOR", f.req) /\ Suits("STOR_SIZE", f.req)
  BY DEF Suits, RetrState, SizeState, ListState
<1>4. MoreNext(Send(f, "STOR", None, "STOR")) /\ MoreNext(Send(f, "SIZE", None, "STOR_SIZE"))
  BY <1>2, <1>3, MoreSends
<1>5. ASSUME NEW left PROVE MoreNext(Send([f EXCEPT !.infilesize = left], "APPE", None, "STOR"))
  <2> DEFINE g == [f EXCEPT !.infilesize = left]
  <2>1. ReadyMore(g) /\ g.req = f.req
    BY FieldNames DEF ReadyMore, More, Ready, Held, Private
  <2> HIDE DEF g
  <2>2. MoreNext(Send(g, "APPE", None, "STOR"))
    BY <1>2, <1>3, <2>1, MoreSends
  <2> QED BY <2>2 DEF g
<1>6. MoreNext(Stop([SetupTransfer(f, None, -1) EXCEPT !.transfer = "NONE"]))
  <2> DEFINE g == SetupTransfer(f, None, -1)
  <2>1. ReadyMore(g) /\ ~(g.maxdownload > 0)
    BY <1>1, FieldNames DEF SetupTransfer, ReadyMore, More, Ready, Held, Private
  <2> HIDE DEF g
  <2>2. MoreNext(Stop([g EXCEPT !.transfer = "NONE"]))
    BY <2>1, MoreStops
  <2> QED BY <2>2 DEF g
<1> QED BY <1>4, <1>5, <1>6 DEF ftp_state_ul_setup

LEMMA StorPrequoted ==
    ASSUME NEW f, ReadyMore(f), f.req.kind = "put", NEW init
    PROVE  MoreNext(StorPrequote(f, init))
<1>1. Suits("STOR_PREQUOTE", f.req) /\ "STOR_PREQUOTE" \notin SizeState
  BY DEF Suits, RetrState, SizeState, ListState
<1>2. MoreNext(SendItem(f, init, "STOR_PREQUOTE"))
  BY <1>1, ItemSent
<1>3. MoreNext(ftp_state_ul_setup([f EXCEPT !.count1 = NextItem(f, init)], FALSE))
  <2> DEFINE g == [f EXCEPT !.count1 = NextItem(f, init)]
  <2>1. ReadyMore(g) /\ g.req = f.req
    BY FieldNames DEF ReadyMore, More, Ready, Held, Private
  <2> HIDE DEF g
  <2>2. MoreNext(ftp_state_ul_setup(g, FALSE))
    BY <2>1, StorSetup
  <2> QED BY <2>2 DEF g
<1> QED BY <1>2, <1>3 DEF StorPrequote

\* The client asks for the file, its size or an item before it.
LEMMA RetrStates ==
    /\ {"RETR", "RETR_REST", "RETR_SIZE"} \subseteq DataStates
    /\ "RETR" \in TransferState /\ {"RETR_REST", "RETR_SIZE"} \cap TransferState = {}
    /\ {"RETR", "RETR_REST"} \cap SizeState = {} /\ "RETR_SIZE" \in SizeState
    /\ "RETR" \in TransferVerb
    /\ {"SIZE", "REST"} \subseteq OtherVerb /\ {"SIZE", "REST"} \cap TransferVerb = {}
BY DEF DataStates, RetrState, SizeState, TransferState, TransferVerb, OtherVerb

LEMMA RetrSuits ==
    ASSUME NEW r, r.file, r.kind # "put"
    PROVE  \A state \in RetrState : Suits(state, r)
BY DEF Suits, RetrState, SizeState, StorState, ListState

LEMMA RetrPrequoted ==
    ASSUME NEW f, ReadyMore(f), f.req.file, f.req.kind # "put", f.resume = f.req.resume, NEW init
    PROVE  MoreNext(RetrPrequote(f, init))
<1>1. {"RETR", "RETR_SIZE", "RETR_PREQUOTE"} \subseteq RetrState
  BY DEF RetrState, SizeState
<1>2. MoreNext(SendItem(f, init, "RETR_PREQUOTE"))
  BY <1>1, RetrSuits, ItemSent
<1> DEFINE g == [f EXCEPT !.count1 = NextItem(f, init)]
<1>3. ReadyMore(g) /\ g.req = f.req /\ g.resume = f.resume
  BY FieldNames DEF ReadyMore, More, Ready, Held, Private
<1> HIDE DEF g
<1>4. MoreNext(Send(g, "RETR", None, "RETR")) /\ MoreNext(Send(g, "SIZE", None, "RETR_SIZE"))
  BY <1>1, <1>3, RetrSuits, RetrStates, MoreSends
<1> QED BY <1>2, <1>4 DEF RetrPrequote, g, ReadyMore

LEMMA ListSent ==
    ASSUME NEW f, ReadyMore(f), ~f.req.file
    PROVE  MoreNext(ftp_state_list(f))
<1>1. /\ "LIST" \in DataStates /\ "LIST" \in TransferState /\ "LIST" \notin SizeState
      /\ "LIST" \in TransferVerb /\ Suits("LIST", f.req)
  BY DEF DataStates, ListState, TransferState, SizeState, TransferVerb, Suits, StorState, RetrState
<1> QED BY <1>1, MoreSends DEF ftp_state_list, SizeState
\* The size of the file is known, or not: ask for it, from where the request wants it.
LEMMA RetrSetup ==
    ASSUME FtpAssumption, RangesFit, NEW f, ReadyMore(f), f.req.file, f.req.kind # "put",
           f.resume = f.req.resume, NEW filesize \in {f.req.len, -1}
    PROVE  MoreNext(ftp_state_retr(f, filesize))
<1>1. f.resume \in Int /\ f.req.len \in Nat /\ filesize \in Int
  BY DEF FtpAssumption, Request, ReadyMore, More, Held
<1>2. {"RETR", "RETR_REST"} \subseteq RetrState
  BY DEF RetrState
<1> DEFINE size == CASE f.resume = 0 \/ filesize = -1 -> filesize
                     [] f.resume < 0 -> -f.resume
                     [] OTHER -> filesize - f.resume
           from == IF f.resume < 0 /\ filesize # -1 THEN filesize + f.resume ELSE f.resume
           g == [f EXCEPT !.downloadsize = size, !.resume = from]
           k == [f EXCEPT !.downloadsize = filesize]
<1>3. f.maxdownload > 0 /\ f.resume # 0 => size # 0
  <2>1. f.maxdownload > 0 => f.req.resume = 0 \/ f.req.resume # f.req.len
    BY DEF RangesFit, ReadyMore, More, Held
  <2> QED BY <1>1, <2>1
<1>4. /\ ReadyMore(g) /\ g.req = f.req /\ g.maxdownload = f.maxdownload
      /\ ReadyMore(k) /\ k.req = f.req
  <2> HIDE DEF size, from
  <2> QED BY FieldNames DEF ReadyMore, More, Ready, Held, Private
<1>5. ftp_state_retr(f, filesize) \in
         {Send(k, "RETR", None, "RETR"), Fail(f, "BAD_DOWNLOAD_RESUME"),
          Send(g, "REST", from, "RETR_REST")}
      \/ /\ f.resume # 0 /\ size = 0
         /\ ftp_state_retr(f, filesize) = Stop([SetupTransfer(g, None, -1) EXCEPT !.transfer = "NONE"])
  BY DEF ftp_state_retr
<1> HIDE DEF size, from, g, k
<1>6. /\ MoreNext(Send(k, "RETR", None, "RETR")) /\ MoreNext(Fail(f, "BAD_DOWNLOAD_RESUME"))
      /\ MoreNext(Send(g, "REST", from, "RETR_REST"))
  BY <1>2, <1>4, RetrSuits, RetrStates, MoreSends, MoreFails
<1>7. ASSUME f.resume # 0, size = 0
      PROVE  MoreNext(Stop([SetupTransfer(g, None, -1) EXCEPT !.transfer = "NONE"]))
  <2> DEFINE h == SetupTransfer(g, None, -1)
  <2>1. ReadyMore(h) /\ ~(h.maxdownload > 0)
    BY <1>3, <1>4, <1>7, FieldNames DEF SetupTransfer, ReadyMore, More, Ready, Held, Private
  <2> HIDE DEF h
  <2>2. MoreNext(Stop([h EXCEPT !.transfer = "NONE"]))
    BY <2>1, MoreStops
  <2> QED BY <2>2 DEF h
<1> QED BY <1>5, <1>6, <1>7

\* The transfer's type is set.
LEMMA TypeSet ==
    ASSUME NEW f, ReadyMore(f), NEW state \in {"LIST_TYPE", "RETR_TYPE", "STOR_TYPE"},
           Suits(state, f.req), state = "RETR_TYPE" => f.resume = f.req.resume, NEW code
    PROVE  MoreNext(ftp_state_type_resp(f, code, state))
<1>1. MoreNext(Fail(f, "FTP_COULDNT_SET_TYPE"))
  BY MoreFails
<1>2. CASE state = "LIST_TYPE"
  <2>1. ~f.req.file
    BY <1>2 DEF Suits, ListState
  <2> QED BY <1>1, <1>2, <2>1, ListSent DEF ftp_state_type_resp
<1>3. CASE state = "RETR_TYPE"
  <2>1. f.req.file /\ f.req.kind # "put"
    BY <1>3 DEF Suits, RetrState, SizeState
  <2> QED BY <1>1, <1>3, <2>1, RetrPrequoted DEF ftp_state_type_resp
<1>4. CASE state = "STOR_TYPE"
  <2>1. f.req.kind = "put"
    BY <1>4 DEF Suits, StorState
  <2> QED BY <1>1, <1>4, <2>1, StorPrequoted DEF ftp_state_type_resp
<1> QED BY <1>2, <1>3, <1>4

LEMMA SetType ==
    ASSUME NEW f, ReadyMore(f), NEW state \in {"LIST_TYPE", "RETR_TYPE", "STOR_TYPE"},
           Suits(state, f.req), state = "RETR_TYPE" => f.resume = f.req.resume, NEW ascii
    PROVE  MoreNext(ftp_nb_type(f, ascii, state))
<1>1. MoreNext(ftp_state_type_resp([f EXCEPT !.state = state], 200, state))
  <2> DEFINE g == [f EXCEPT !.state = state]
  <2>1. ReadyMore(g) /\ g.req = f.req /\ g.resume = f.resume
    BY FieldNames DEF ReadyMore, More, Ready, Held, Private
  <2> HIDE DEF g
  <2>2. MoreNext(ftp_state_type_resp(g, 200, state))
    BY <2>1, TypeSet
  <2> QED BY <2>2 DEF g
<1>2. ASSUME NEW type
      PROVE  MoreNext(Send([f EXCEPT !.transfertype = type], "TYPE", type, state))
  <2> DEFINE g == [f EXCEPT !.transfertype = type]
  <2>1. ReadyMore(g) /\ g.req = f.req /\ g.resume = f.resume
    BY FieldNames DEF ReadyMore, More, Ready, Held, Private
  <2> HIDE DEF g
  <2>2. /\ state \in DataStates /\ state \notin TransferState \cup {"RETR_SIZE"}
        /\ state \in SizeState => state = "RETR_TYPE"
        /\ "TYPE" \in OtherVerb /\ "TYPE" \notin TransferVerb
    BY DEF DataStates, StorState, RetrState, SizeState, ListState, TransferState, OtherVerb, TransferVerb
  <2>3. MoreNext(Send(g, "TYPE", type, state))
    BY <2>1, <2>2, MoreSends
  <2> QED BY <2>3 DEF g
<1> QED BY <1>1, <1>2 DEF ftp_nb_type

\* The transfer's own commands begin.
LEMMA Kickstarts ==
    ASSUME FtpAssumption, NEW f, More(f), Ready(f), f.transfer = "BODY",
           f.maxdownload > 0 => f.req.kind # "put" /\ f.req.max > 0
    PROVE  MoreNext(Kickstart(f))
<1>1. CASE f.req.kind = "put"
  <2> DEFINE g == [f EXCEPT !.resume = f.req.resume, !.infilesize = f.req.len]
  <2>1. ReadyMore(g) /\ g.req = f.req
    BY FieldNames DEF ReadyMore, More, Ready, Held, Private
  <2>2. Suits("STOR_TYPE", f.req)
    BY <1>1 DEF Suits, RetrState, SizeState, ListState
  <2>3. Kickstart(f) = ftp_nb_type(g, f.req.ascii, "STOR_TYPE")
    BY <1>1 DEF Kickstart
  <2> HIDE DEF g
  <2> QED BY <2>1, <2>2, <2>3, SetType
<1>2. CASE f.req.kind # "put"
  <2> DEFINE d == [f EXCEPT !.downloadsize = -1]
             g == Curl_range(d)
  <2>1. ReadyMore(d) /\ d.req = f.req
    BY FieldNames DEF ReadyMore, More, Ready, Held, Private
  <2>2. Kickstart(f) = IF f.req.file THEN ftp_nb_type(g, f.req.ascii, "RETR_TYPE")
                       ELSE ftp_nb_type(g, TRUE, "LIST_TYPE")
    BY <1>2 DEF Kickstart
  <2> HIDE DEF d
  <2>3. ReadyMore(g) /\ g.req = f.req /\ g.resume = f.req.resume
    BY <1>2, <2>1, FieldNames DEF Curl_range, ReadyMore, More, Ready, Held, Private
  <2> HIDE DEF g
  <2>4. f.req.file => Suits("RETR_TYPE", f.req)
    BY <1>2 DEF Suits, StorState, ListState
  <2>5. ~f.req.file => Suits("LIST_TYPE", f.req)
    BY DEF Suits, StorState, RetrState, SizeState
  <2> QED BY <2>2, <2>3, <2>4, <2>5, SetType
<1> QED BY <1>1, <1>2

\* An item of a list of commands is answered, or the size of the file.
LEMMA PrequoteResponds ==
    ASSUME NEW f, ReadyMore(f), MoreKept(f), f.state \in {"RETR_PREQUOTE", "STOR_PREQUOTE"}, NEW code
    PROVE  MoreNext(QuoteResp(f, code))
<1>1. MoreNext(Fail(f, "QUOTE_ERROR"))
  BY MoreFails
<1>2. CASE f.state = "RETR_PREQUOTE"
  <2>1. f.req.file /\ f.req.kind # "put" /\ f.resume = f.req.resume
    BY <1>2 DEF MoreKept, Ranged, RetrState, SizeState
  <2>2. ftp_state_quote(f) = RetrPrequote(f, FALSE)
    BY <1>2 DEF ftp_state_quote
  <2> QED BY <1>1, <2>1, <2>2, RetrPrequoted DEF QuoteResp
<1>3. CASE f.state = "STOR_PREQUOTE"
  <2>1. f.req.kind = "put"
    BY <1>3 DEF MoreKept, StorState
  <2>2. ftp_state_quote(f) = StorPrequote(f, FALSE)
    BY <1>3 DEF ftp_state_quote
  <2> QED BY <1>1, <2>1, <2>2, StorPrequoted DEF QuoteResp
<1> QED BY <1>2, <1>3

LEMMA SizeResponds ==
    ASSUME FtpAssumption, RangesFit, NEW f, ReadyMore(f), MoreKept(f), NEW r, Heard(r, f),
           f.state \in {"RETR_SIZE", "STOR_SIZE"}
    PROVE  MoreNext(ftp_state_size_resp(f, r))
<1> DEFINE filesize == IF r.code = 213 THEN r.size ELSE -1
<1>1. CASE f.state = "RETR_SIZE"
  <2>1. f.req.file /\ f.req.kind # "put" /\ f.resume = f.req.resume
    BY <1>1 DEF MoreKept, Ranged, RetrState, SizeState
  <2>2. filesize \in {f.req.len, -1}
    BY <1>1 DEF Heard
  <2>3. ftp_state_size_resp(f, r) \in {Fail(f, "REMOTE_FILE_NOT_FOUND"), ftp_state_retr(f, filesize)}
    BY <1>1 DEF ftp_state_size_resp
  <2> HIDE DEF filesize
  <2> QED BY <2>1, <2>2, <2>3, MoreFails, RetrSetup
<1>2. CASE f.state = "STOR_SIZE"
  <2> DEFINE g == [f EXCEPT !.resume = filesize]
  <2>1. ReadyMore(g) /\ g.req = f.req /\ f.req.kind = "put"
    BY <1>2, FieldNames DEF ReadyMore, More, Ready, Held, Private, MoreKept, StorState
  <2>2. ftp_state_size_resp(f, r) = ftp_state_ul_setup(g, TRUE)
    BY <1>2 DEF ftp_state_size_resp
  <2> HIDE DEF g
  <2> QED BY <2>1, <2>2, StorSetup
<1> QED BY <1>1, <1>2
\* The server turns the transfer down.
LEMMA Refused ==
    ASSUME RangesFit, NEW f, ReadyMore(f), MoreKept(f), f.state \in TransferState,
           NEW r, r.code # 150, Heard(r, f)
    PROVE  MoreNext(ftp_statemachine(f, r))
<1>1. r.code >= 400 /\ r.code \notin {125, 150}
  BY DEF Heard
<1>2. CASE f.state = "STOR"
  <2>1. ftp_statemachine(f, r) = Fail(Stop(f), "UPLOAD_FAILED")
    BY <1>1, <1>2 DEF ftp_statemachine, ftp_state_stor_resp
  <2>2. ReadyMore(Stop(f))
    BY MoreSets DEF Stop
  <2> QED BY <2>1, <2>2, MoreFails
<1>3. CASE f.state \in {"LIST", "RETR"}
  <2>1. ftp_statemachine(f, r) = ftp_state_get_resp(f, r)
    BY <1>3 DEF ftp_statemachine
  <2>2. \/ /\ f.state = "LIST"
           /\ ftp_state_get_resp(f, r) = Stop([f EXCEPT !.transfer = "NONE"])
        \/ ftp_state_get_resp(f, r) \in
              {Fail(f, "REMOTE_FILE_NOT_FOUND"), Fail(f, "FTP_COULDNT_RETR_FILE")}
    BY <1>1 DEF ftp_state_get_resp
  <2>3. f.state = "LIST" => ~(f.maxdownload > 0)
    BY DEF RangesFit, MoreKept, ListState, Ranged, ReadyMore, More, Held
  <2> QED BY <2>1, <2>2, <2>3, MoreStops, MoreFails
<1> QED BY <1>2, <1>3 DEF TransferState

\* An answer, but not that the transfer begins.
LEMMA MoreResponds ==
    ASSUME FtpAssumption, RangesFit, NEW f, More(f), Ready(f), MoreKept(f), f.state # "STOP",
           NEW r, Heard(r, f), r.code # 150
    PROVE  MoreNext(ftp_statemachine(f, r))
<1>0. ReadyMore(f)
  BY DEF ReadyMore, MoreKept, Ranged
<1>1. CASE f.state \in {"LIST_TYPE", "RETR_TYPE", "STOR_TYPE"}
  <2>1. Suits(f.state, f.req) /\ (f.state = "RETR_TYPE" => f.resume = f.req.resume)
    BY <1>1 DEF Suits, MoreKept, Ranged, SizeState
  <2>2. ftp_statemachine(f, r) = ftp_state_type_resp(f, r.code, f.state)
    BY <1>1 DEF ftp_statemachine
  <2> QED BY <1>0, <1>1, <2>1, <2>2, TypeSet
<1>2. CASE f.state \in {"RETR_PREQUOTE", "STOR_PREQUOTE"}
  <2>1. ftp_statemachine(f, r) = QuoteResp(f, r.code)
    BY <1>2 DEF ftp_statemachine
  <2> QED BY <1>0, <1>2, <2>1, PrequoteResponds
<1>3. CASE f.state \in {"RETR_SIZE", "STOR_SIZE"}
  <2>1. ftp_statemachine(f, r) = ftp_state_size_resp(f, r)
    BY <1>3 DEF ftp_statemachine
  <2> QED BY <1>0, <1>3, <2>1, SizeResponds
<1>4. CASE f.state = "RETR_REST"
  <2>1. ftp_statemachine(f, r) \in {Fail(f, "FTP_COULDNT_USE_REST"), Send(f, "RETR", None, "RETR")}
    BY <1>4 DEF ftp_statemachine, ftp_state_rest_resp
  <2>2. f.req.file /\ f.req.kind # "put" /\ "RETR" \in RetrState
    BY <1>4 DEF MoreKept, RetrState
  <2>3. MoreNext(Send(f, "RETR", None, "RETR"))
    BY <1>0, <2>2, RetrSuits, RetrStates, MoreSends
  <2> QED BY <1>0, <2>1, <2>3, MoreFails
<1>5. CASE f.state \in TransferState
  BY <1>0, <1>5, Refused
<1> QED BY <1>1, <1>2, <1>3, <1>4, <1>5
        DEF MoreKept, StorState, RetrState, SizeState, ListState, TransferState

\* MSTATE_DOING_MORE goes on as the handler has left it.
LEMMA AfterMore ==
    ASSUME NEW g, MoreNext(g)
    PROVE  AfterQuiet(AfterDo(g)) /\ AfterDo(g) = After(g)
<1>0. AfterDo(g) = After(g)
  BY DEF After, MoreNext, More
<1>1. CASE Speaks(g) /\ MoreKept(g)
  <2>1. g.state # "STOP"
    <3>1. PICK c : Ordinary(c, g) /\ g.pending
      BY <1>1 DEF Speaks
    <3> QED BY <1>1, <3>1 DEF MoreKept
  <2>2. AfterDo(g) = g
    BY <1>1, <2>1 DEF AfterDo, Speaks
  <2>3. ClientOK([g EXCEPT !.out = <<>>])
    BY <1>1, FieldNames DEF MoreNext, More, Held, Speaks, MoreKept, Ranged, ClientOK, Private
  <2>4. Awaits(g) = "answer"
    BY <2>1 DEF MoreNext, More, Awaits
  <2> QED BY <1>0, <1>1, <2>2, <2>3, <2>4 DEF AfterQuiet, MoreNext, More, Private, Held, Speaks
<1>2. CASE (Halts(g) \/ Fails(g)) /\ (Aborts(g) => g.transfer = "BODY")
  <2>1. AfterDo(g) = ftp_done(g, g.result, FALSE)
    <3>1. CASE Halts(g)
      BY <3>1 DEF AfterDo, Did, Halts, Ready, MoreNext, More
    <3>2. CASE Fails(g)
      BY <3>2 DEF AfterDo, Fails
    <3> QED BY <1>2, <3>1, <3>2
  <2>2. g.out = <<>> /\ ~g.pending /\ (g.result = "OK" => g.state = "STOP")
    BY <1>2 DEF Halts, Fails, Ready
  <2> QED BY <1>0, <1>2, <2>1, <2>2, DoneQuiet DEF MoreNext, More
<1> QED BY <1>1, <1>2 DEF MoreNext

\* The transfer begins: at once, or when the server connects.
LEMMA Initiated ==
    ASSUME NEW f, Held(f), Private(f), f.phase = "more", ~f.wait, f.ctl_valid,
           f.out = <<>>, f.result = "OK", f.transfer = "BODY"
    PROVE  AfterLast(Did(InitiateTransfer(f)))
<1> DEFINE w == IF f.req.kind = "put" THEN "up" ELSE "down"
           s == IF f.req.kind = "put" THEN -1 ELSE f.retr_size
           k == SetupTransfer(f, w, s)
           g == [Stop(k) EXCEPT !.pending = TRUE]
           h == [g EXCEPT !.phase = "perform"]
<1>0. w # None
  BY DEF None
<1> HIDE DEF w, s
<1>1. /\ DOMAIN k = Fields /\ k.use_ssl = f.use_ssl /\ k.open /\ k.req = f.req
      /\ k.datassl = f.datassl /\ ~k.wait /\ k.ctl_valid /\ k.way = w /\ k.out = <<>>
      /\ k.result = "OK" /\ k.transfer = "BODY" /\ k.phase = "more"
  BY FieldNames DEF SetupTransfer, Held
<1> HIDE DEF k
<1>2. /\ DOMAIN g = Fields /\ g.use_ssl = f.use_ssl /\ g.open /\ g.req = f.req
      /\ g.datassl = f.datassl /\ ~g.wait /\ g.ctl_valid /\ g.way = w /\ g.out = <<>>
      /\ g.result = "OK" /\ g.transfer = "BODY" /\ g.state = "STOP" /\ g.pending
      /\ g.phase = "more"
  BY <1>1, FieldNames DEF Stop
<1> HIDE DEF g
<1>3. InitiateTransfer(f) = g
  BY DEF InitiateTransfer, g, k, w, s
<1>4. Did(g) = h
  BY <1>0, <1>2 DEF Did
<1>5. /\ DOMAIN h = Fields /\ h.use_ssl = f.use_ssl /\ h.open /\ h.req = f.req
      /\ h.datassl = f.datassl /\ h.ctl_valid /\ h.way # None /\ h.out = <<>>
      /\ h.result = "OK" /\ h.transfer = "BODY" /\ h.state = "STOP" /\ h.pending
      /\ h.phase = "perform"
  BY <1>0, <1>2, FieldNames
<1> HIDE DEF h
<1>6. ClientOK([h EXCEPT !.out = <<>>])
  BY <1>5, FieldNames DEF ClientOK, PerformKept, Private, Held
<1>7. Awaits(h) = "last"
  BY <1>5 DEF Awaits
<1>8. AfterLast(h)
  BY <1>5, <1>6, <1>7 DEF AfterLast
<1> QED BY <1>3, <1>4, <1>8

LEMMA Begun ==
    ASSUME NEW f, ReadyMore(f)
    PROVE  AfterLast(After(AllowServerConnect(f)))
<1>1. CASE f.req.port
  <2> DEFINE k == Stop(f)
             g == [k EXCEPT !.wait = TRUE]
  <2>1. AllowServerConnect(f) = g
    BY <1>1 DEF AllowServerConnect
  <2>2. /\ DOMAIN k = Fields /\ k.use_ssl = f.use_ssl /\ k.open /\ k.req = f.req
        /\ k.datassl = f.datassl /\ k.ctl_valid /\ k.way = None /\ k.out = <<>>
        /\ k.result = "OK" /\ k.transfer = "BODY" /\ k.state = "STOP" /\ ~k.pending
        /\ k.phase = "more" /\ k.second = f.second /\ k.maxdownload = f.maxdownload
    BY FieldNames DEF Stop, ReadyMore, More, Ready, Held
  <2> HIDE DEF k
  <2>3. /\ DOMAIN g = Fields /\ g.use_ssl = f.use_ssl /\ g.open /\ g.req = f.req
        /\ g.datassl = f.datassl /\ g.ctl_valid /\ g.way = None /\ g.out = <<>>
        /\ g.result = "OK" /\ g.transfer = "BODY" /\ g.state = "STOP" /\ ~g.pending
        /\ g.phase = "more" /\ g.second = f.second /\ g.maxdownload = f.maxdownload /\ g.wait
    BY <2>2, FieldNames
  <2> HIDE DEF g
  <2>4. After(g) = g
    BY <2>3 DEF After, AfterDo
  <2>5. ClientOK([g EXCEPT !.out = <<>>])
    BY <2>3, FieldNames
       DEF ReadyMore, More, Held, ClientOK, Private, MoreKept, Ranged,
           StorState, RetrState, SizeState, ListState
  <2>6. Awaits(g) = "last"
    BY <2>3 DEF Awaits
  <2> QED BY <2>1, <2>3, <2>4, <2>5, <2>6 DEF AfterLast
<1>2. CASE ~f.req.port
  <2> DEFINE g == InitiateTransfer(f)
  <2>1. AllowServerConnect(f) = g
    BY <1>2 DEF AllowServerConnect
  <2>2. DOMAIN g = Fields /\ g.phase = "more" /\ g.state = "STOP" /\ g.result = "OK" /\ ~g.wait
    BY FieldNames DEF InitiateTransfer, Stop, SetupTransfer, ReadyMore, More, Ready, Held
  <2> HIDE DEF g
  <2>3. After(g) = Did(g)
    BY <2>2 DEF After, AfterDo
  <2> QED BY <2>1, <2>3, Initiated DEF ReadyMore, More, Ready, g
<1> QED BY <1>1, <1>2

LEMMA TransferBegins ==
    ASSUME NEW f, ReadyMore(f), f.state \in TransferState, NEW r, r.code = 150
    PROVE  AfterLast(After(ftp_statemachine(f, r)))
<1>1. ~(r.code >= 400) /\ r.code \in {125, 150}
  OBVIOUS
<1>2. CASE f.state = "STOR"
  BY <1>1, <1>2, Begun DEF ftp_statemachine, ftp_state_stor_resp
<1>3. CASE f.state \in {"LIST", "RETR"}
  <2>0. ftp_statemachine(f, r) = ftp_state_get_resp(f, r)
    BY <1>3 DEF ftp_statemachine
  <2>1. \E size : ftp_statemachine(f, r) = AllowServerConnect([f EXCEPT !.retr_size = size])
    BY <1>1, <2>0 DEF ftp_state_get_resp
  <2>2. \A size : ReadyMore([f EXCEPT !.retr_size = size])
    BY MoreSets
  <2> QED BY <2>1, <2>2, Begun
<1> QED BY <1>2, <1>3 DEF TransferState
-----------------------------------------------------------------------------
(* The steps of the client.                                                  *)

\* A transfer is under way.
LEMMA Busy ==
    ASSUME Talk, ftpc.phase # "idle"
    PROVE  /\ Held(ftpc) /\ ftpc.out = <<>> /\ DOMAIN srv = ServerFields
           /\ ftpc.phase # "connect" => Private(ftpc)
           /\ ftpc.phase \in {"connect", "doing", "more", "perform"} => ftpc.result = "OK"
BY DEF Talk, ClientOK, Held

\* f is the client once it has read a reply.
LEMMA Reads ==
    ASSUME Talk, ftpc.phase # "idle"
    PROVE  LET f == [ftpc EXCEPT !.pending = FALSE]
           IN  /\ Held(f) /\ f.out = <<>> /\ ~f.pending /\ f.phase = ftpc.phase
               /\ f.state = ftpc.state /\ f.result = ftpc.result /\ f.second = ftpc.second
               /\ f.req = ftpc.req /\ f.maxdownload = ftpc.maxdownload /\ f.tls = ftpc.tls
               /\ f.dont_check = ftpc.dont_check /\ f.transfer = ftpc.transfer
               /\ f.ctl_valid = ftpc.ctl_valid /\ f.way = ftpc.way /\ f.wait = ftpc.wait
               /\ f.datassl = ftpc.datassl /\ f.use_ssl = ftpc.use_ssl
               /\ f.do_more = ftpc.do_more /\ f.resume = ftpc.resume
               /\ ftpc.phase # "connect" => Private(f)
BY Busy, FieldNames DEF Held, Private

LEMMA StartKeeps ==
    ASSUME Talk, NEW r \in Requests, Start(r)
    PROVE  Talk'
<1>0. ftpc.phase = "idle" /\ DOMAIN srv = ServerFields
  BY DEF Start, Talk
<1>1. CASE Reusable
  <2> DEFINE k == Fresh(ftpc)
             f == [k EXCEPT !.req = r, !.reuse = TRUE, !.result = "OK", !.n = 0]
             g == AfterDo(ftp_do(f))
  <2>1. Commit(g, <<>>)
    BY <1>1 DEF Start
  <2>2. ftpc.open /\ ~Forsaken(ftpc)
    BY <1>1 DEF Reusable, GivenUp, Forsaken
  <2>3. Quiet
    BY <1>0, <2>2, FourWays DEF Awaits
  <2>4. /\ DOMAIN ftpc = Fields /\ ftpc.use_ssl \in SslLevels /\ ftpc.out = <<>>
        /\ ~ftpc.pending /\ Private(ftpc)
    BY <1>0, <2>2 DEF Talk, ClientOK
  <2>5. /\ DOMAIN k = Fields /\ k.use_ssl = ftpc.use_ssl /\ k.open /\ k.out = <<>>
        /\ ~k.pending /\ k.datassl = ftpc.datassl /\ ~k.do_more /\ k.maxdownload = -1
        /\ k.way = None
    BY <2>2, <2>4, FieldNames DEF Fresh
  <2> HIDE DEF k
  <2>6. /\ Held(f) /\ Private(f) /\ Ready(f) /\ ~f.do_more /\ f.maxdownload = -1
        /\ f.way = None
    BY <2>4, <2>5, FieldNames DEF Held, Private, Ready
  <2> HIDE DEF f
  <2>7. AfterQuiet(g)
    BY <2>6, DoQuiet, AfterDoing
  <2> HIDE DEF g
  <2> QED BY <1>0, <2>1, <2>3, <2>7, CommitQuiet DEF Quiet
<1>2. CASE ~Reusable
  <2>1. PICK l \in UseSsl, code \in {220, 230, 500} :
            /\ ftpc' = [NewConn(l) EXCEPT !.phase = "connect", !.open = TRUE, !.req = r,
                                          !.state = "WAIT220"]
            /\ replies' = <<Reply(code, None, -1)>>
            /\ todo' = <<>> /\ data' = NoData
            /\ srv' = NewSession(srv)
    BY <1>2, Zenon DEF Start
  <2> DEFINE f == ftpc'
  <2>2. l \in SslLevels
    BY FtpAssumption DEF FtpAssumption
  <2>3. /\ DOMAIN f = Fields /\ f.use_ssl = l /\ f.phase = "connect" /\ f.open /\ f.req = r
        /\ f.state = "WAIT220" /\ f.out = <<>> /\ f.result = "OK" /\ ~f.do_more
        /\ f.maxdownload = -1 /\ f.way = None /\ ~f.wait /\ ~f.tls /\ f.datassl = FALSE
    <3> DEFINE k == NewConn(l)
    <3>1. /\ DOMAIN k = Fields /\ k.use_ssl = l /\ k.out = <<>> /\ k.result = "OK"
          /\ ~k.do_more /\ k.maxdownload = -1 /\ k.way = None /\ ~k.wait /\ ~k.tls
          /\ k.datassl = FALSE
      BY NewConnFields, ZenonT(60)
    <3> HIDE DEF k
    <3> QED BY <2>1, <3>1, FieldNames DEF k
  <2>4. DOMAIN srv' = ServerFields /\ srv'.job = "none" /\ srv'.private = FALSE
    BY <1>0, <2>1, ServerNames DEF NewSession
  <2>5. ClientOK(ftpc)'
    BY <2>2, <2>3, <2>4, ZenonT(60) DEF ClientOK, ConnectKept, LoginKept, EarlyState, NameState
  <2>6. Heard(Reply(code, None, -1), ftpc)'
    BY <2>1, <2>3 DEF Heard, Reply, TransferState
  <2>7. Served(ftpc)'
    <3>1. Reply(code, None, -1).code # 150
      BY DEF Reply
    <3> QED BY <2>1, <2>4, <2>6, <3>1 DEF Served, Working
  <2>8. (Awaits(ftpc) = "answer")'
    BY <2>3 DEF Awaits
  <2> QED BY <2>4, <2>5, <2>7, <2>8 DEF Talk, Agree
<1> QED BY <1>1, <1>2

LEMMA RespondKeeps ==
    ASSUME Talk, RangesFit, Respond
    PROVE  Talk'
<1> DEFINE f == [ftpc EXCEPT !.pending = FALSE]
<1>0. /\ ftpc.phase \in {"connect", "doing", "more"} /\ ftpc.state # "STOP" /\ replies # <<>>
      /\ Commit(After(ftp_statemachine(f, Head(replies))), Tail(replies))
      /\ DOMAIN srv = ServerFields
  BY DEF Respond, Talk
<1>1. todo = <<>> /\ Served(ftpc)
  BY <1>0, FourWays DEF Awaits, Unserved, Served
<1>2. PICK r : /\ Heard(r, ftpc)
               /\ \/ r.code # 150 /\ ~Working /\ replies = <<r>>
                  \/ r.code = 150 /\ Working /\ replies = <<r>>
                  \/ r.code = 150 /\ ~Working /\ \E s : replies = <<r, s>>
  BY <1>1 DEF Served
<1>3. Head(replies) = r
  BY <1>2, OneMessage, TwoMessages
<1>4. /\ Held(f) /\ Ready(f) /\ f.phase = ftpc.phase /\ f.state = ftpc.state
      /\ ftpc.phase # "connect" => Private(f)
  BY <1>0, Reads, Busy DEF Ready
<1>5. Heard(r, f)
  BY <1>0, <1>2, Reads DEF Heard
<1>6. ASSUME ftpc.phase = "connect" PROVE Login(f) /\ ConnectKept(f)
  <2>1. ConnectKept(ftpc)
    BY <1>6 DEF Talk, ClientOK
  <2> QED BY <1>0, <1>4, <1>6, <2>1, Reads DEF Login, ConnectKept, LoginKept, Private
<1>7. ASSUME ftpc.phase = "doing" PROVE Doing(f) /\ DoingKept(f)
  <2>1. DoingKept(ftpc)
    BY <1>7 DEF Talk, ClientOK
  <2> QED BY <1>0, <1>4, <1>7, <2>1, Reads DEF Doing, DoingKept
<1>8. ASSUME ftpc.phase = "more" PROVE More(f) /\ MoreKept(f)
  <2>1. MoreKept(ftpc)
    BY <1>8 DEF Talk, ClientOK
  <2> QED BY <1>0, <1>4, <1>8, <2>1, Reads DEF More, MoreKept, Ranged
<1> HIDE DEF f
<1>9. CASE r.code # 150
  <2>1. Tail(replies) = <<>> /\ ~Working
    BY <1>2, <1>9, OneMessage
  <2>2. AfterQuiet(After(ftp_statemachine(f, r)))
    <3>1. CASE ftpc.phase = "connect"
      BY <1>4, <1>5, <1>6, <3>1, LoginResponds, AfterLogin
    <3>2. CASE ftpc.phase = "doing"
      <4>1. DoingNext(ftp_statemachine(f, r))
        BY <1>4, <1>7, <3>2, DoingResponds
      <4> QED BY <4>1, AfterDoing
    <3>3. CASE ftpc.phase = "more"
      <4>1. MoreNext(ftp_statemachine(f, r))
        BY <1>0, <1>4, <1>5, <1>8, <1>9, <3>3, FtpAssumption, MoreResponds
      <4> QED BY <4>1, AfterMore
    <3> QED BY <1>0, <3>1, <3>2, <3>3
  <2> QED BY <1>0, <1>1, <1>3, <2>1, <2>2, CommitQuiet
<1>10. CASE r.code = 150
  <2>1. f.state \in TransferState
    BY <1>5, <1>10 DEF Heard
  <2>2. ftpc.phase = "more"
    BY <1>0, <1>6, <1>7, <2>1
       DEF ConnectKept, DoingKept, AskState, DataState, EarlyState, LateState, NameState, TransferState
  <2>3. ReadyMore(f)
    BY <1>4, <1>8, <2>2 DEF ReadyMore, MoreKept, Ranged
  <2>4. AfterLast(After(ftp_statemachine(f, r)))
    BY <1>10, <2>1, <2>3, TransferBegins
  <2>5. \/ Working /\ Tail(replies) = <<>>
        \/ ~Working /\ \E s : Tail(replies) = <<s>>
    BY <1>2, <1>10, OneMessage, TwoMessages, ZenonT(60)
  <2> QED BY <1>0, <1>1, <1>3, <2>4, <2>5, CommitLast
<1> QED BY <1>9, <1>10

\* The way to the data connection.
LEMMA ConnectedKeeps ==
    ASSUME Talk, Connected
    PROVE  Talk'
<1>1. /\ ftpc.phase = "more" /\ ftpc.second = "connecting"
      /\ ftpc' = [ftpc EXCEPT !.second = "open"] /\ UNCHANGED <<srv, todo, replies>>
  BY DEF Connected
<1>2. MoreKept(ftpc) /\ Held(ftpc) /\ Private(ftpc)
  BY <1>1, Busy DEF Talk, ClientOK
<1>3. Quiet
  BY <1>1, <1>2, FourWays DEF MoreKept, Awaits
<1>4. ClientOK(ftpc)'
  BY <1>1, <1>2, FieldNames DEF Talk, ClientOK, Private, MoreKept, Ranged, Held
<1>5. (Awaits(ftpc) = "nothing")'
  BY <1>1, <1>2, FieldNames DEF Awaits, MoreKept, Held
<1>6. Quiet'
  BY <1>1, <1>3 DEF Quiet, Working
<1> QED BY <1>1, <1>4, <1>5, <1>6 DEF Talk, Agree

LEMMA ConnectFailsKeeps ==
    ASSUME Talk, "TLS" \notin Faults, ConnectFails
    PROVE  Talk'
<1> DEFINE k == [ftp_epsv_disable(ftpc) EXCEPT !.phase = "doing"]
           d == ftp_done(ftpc, "COULDNT_CONNECT", FALSE)
<1>1. /\ ftpc.phase = "more" /\ ftpc.second = "connecting"
      /\ Commit(IF ftpc.count1 = 0 THEN k ELSE d, replies)
  BY DEF ConnectFails
<1>2. /\ MoreKept(ftpc) /\ Held(ftpc) /\ Private(ftpc) /\ ftpc.out = <<>> /\ ftpc.result = "OK"
      /\ DOMAIN srv = ServerFields
  BY <1>1, Busy DEF Talk, ClientOK
<1>3. Quiet
  BY <1>1, <1>2, FourWays DEF MoreKept, Awaits
<1>4. CASE ftpc.count1 = 0
  <2>1. DoingNext(k)
    BY <1>1, <1>2, EpsvDisabled DEF MoreKept
  <2>2. k.state = "PASV" /\ k.result = "OK"
    BY <1>2, FieldNames DEF ftp_epsv_disable, Send, Held
  <2>3. AfterDo(k) = k
    BY <2>2 DEF AfterDo
  <2>4. AfterQuiet(k)
    BY <2>1, <2>3, AfterDoing
  <2> HIDE DEF k
  <2> QED BY <1>1, <1>2, <1>3, <1>4, <2>4, CommitQuiet DEF Quiet
<1>5. CASE ftpc.count1 # 0
  <2>1. "COULDNT_CONNECT" \notin Harmless
    BY DEF Harmless
  <2>2. Closed(d)
    BY <1>2, <2>1, DoneClosed
  <2> HIDE DEF d
  <2> QED BY <1>1, <1>2, <1>5, <2>2, CommitClosed
<1> QED BY <1>4, <1>5

LEMMA DoMoreKeeps ==
    ASSUME Talk, DoMore
    PROVE  Talk'
<1> DEFINE g == AfterDo(Kickstart(ftpc))
<1>1. /\ ftpc.phase = "more" /\ ftpc.state = "STOP" /\ ~ftpc.wait
      /\ ftpc.second \in {"open", "listen"} /\ Commit(g, replies)
  BY DEF DoMore
<1>2. /\ MoreKept(ftpc) /\ Held(ftpc) /\ Private(ftpc) /\ ftpc.out = <<>> /\ ftpc.result = "OK"
      /\ DOMAIN srv = ServerFields
  BY <1>1, Busy DEF Talk, ClientOK
<1>3. Quiet
  BY <1>1, FourWays DEF Awaits
<1>4. MoreNext(Kickstart(ftpc))
  BY <1>1, <1>2, FtpAssumption, Kickstarts DEF More, Ready, MoreKept, Ranged
<1>5. AfterQuiet(g)
  BY <1>4, AfterMore
<1> HIDE DEF g
<1> QED BY <1>1, <1>2, <1>3, <1>5, CommitQuiet DEF Quiet
\* The server connects, says no, or does neither in time.
LEMMA AcceptKeeps ==
    ASSUME Talk, Accepted \/ NotAccepted \/ AcceptTimeout
    PROVE  Talk'
<1>1. ftpc.phase = "more" /\ ftpc.wait
  BY DEF Accepted, NotAccepted, AcceptTimeout
<1>2. /\ MoreKept(ftpc) /\ Held(ftpc) /\ Private(ftpc) /\ ftpc.out = <<>> /\ ftpc.result = "OK"
      /\ DOMAIN srv = ServerFields
  BY <1>1, Busy DEF Talk, ClientOK
<1>3. ftpc.state = "STOP" /\ LastWordDue
  BY <1>1, <1>2, FourWays DEF MoreKept, Awaits
<1>4. CASE Accepted
  <2> DEFINE f == [ftpc EXCEPT !.wait = FALSE, !.do_more = FALSE, !.second = "open"]
             g == Did(InitiateTransfer(f))
  <2>1. Commit(g, replies)
    BY <1>4 DEF Accepted
  <2>2. /\ Held(f) /\ Private(f) /\ f.phase = "more" /\ ~f.wait /\ f.ctl_valid
        /\ f.out = <<>> /\ f.result = "OK" /\ f.transfer = "BODY"
    BY <1>1, <1>2, FieldNames DEF Held, Private, MoreKept
  <2> HIDE DEF f
  <2>3. AfterLast(g)
    BY <2>2, Initiated
  <2> HIDE DEF g
  <2> QED BY <1>2, <1>3, <2>1, <2>3, CommitLast DEF LastWordDue
<1>5. CASE NotAccepted
  <2> DEFINE f == [ftpc EXCEPT !.pending = FALSE]
             status == IF Head(replies).code >= 400 THEN "FTP_ACCEPT_FAILED" ELSE "WEIRD_SERVER_REPLY"
             g == ftp_done(f, status, FALSE)
  <2>1. Commit(g, Tail(replies)) /\ replies # <<>>
    BY <1>5 DEF NotAccepted
  <2>2. ~Working /\ Tail(replies) = <<>>
    BY <1>3, <2>1, OneMessage DEF LastWordDue
  <2>3. /\ Held(f) /\ Private(f) /\ f.out = <<>> /\ ~f.pending /\ f.transfer = "BODY"
        /\ f.ctl_valid
    BY <1>1, <1>2, Reads DEF MoreKept
  <2> HIDE DEF f
  <2>4. AfterQuiet(g)
    BY <2>3, DoneQuiet
  <2> HIDE DEF g
  <2> QED BY <1>2, <1>3, <2>1, <2>2, <2>4, CommitQuiet DEF LastWordDue
<1>6. CASE AcceptTimeout
  <2> DEFINE g == ftp_done(ftpc, "FTP_ACCEPT_TIMEOUT", FALSE)
  <2>1. Commit(g, replies) /\ replies = <<>>
    BY <1>6 DEF AcceptTimeout
  <2>2. AfterLast(g)
    BY <1>2, <1>3, DoneTimeout DEF MoreKept
  <2> HIDE DEF g
  <2> QED BY <1>2, <1>3, <2>1, <2>2, CommitLast DEF LastWordDue
<1> QED BY <1>4, <1>5, <1>6

\* A byte is moved, and nothing is said.
LEMMA ByteMoved ==
    ASSUME Talk, ftpc.phase = "perform", NEW n, ftpc' = [ftpc EXCEPT !.n = n],
           UNCHANGED <<srv, todo, replies>>
    PROVE  Talk'
<1>1. Held(ftpc) /\ PerformKept(ftpc) /\ LastWordDue
  BY Busy, FourWays DEF Awaits, Talk, ClientOK
<1>2. ClientOK(ftpc)'
  BY <1>1, FieldNames DEF Talk, ClientOK, Private, PerformKept, Held
<1>3. (Awaits(ftpc) = "last")'
  BY <1>1, FieldNames DEF Awaits, Held
<1>4. LastWordDue'
  BY <1>1 DEF LastWordDue, Working
<1> QED BY <1>2, <1>3, <1>4 DEF Talk, Agree

LEMMA PerformKeeps ==
    ASSUME Talk, ReadData \/ ReadEnd \/ WriteData \/ WriteEnd
    PROVE  Talk'
<1>1. ftpc.phase = "perform"
  BY DEF ReadData, ReadEnd, WriteData, WriteEnd
<1>2. /\ Held(ftpc) /\ Private(ftpc) /\ ftpc.out = <<>> /\ PerformKept(ftpc) /\ LastWordDue
      /\ DOMAIN srv = ServerFields
  BY <1>1, Busy, FourWays DEF Awaits, Talk, ClientOK
<1>3. ASSUME NEW f, Held(f), Private(f), f.out = <<>>, PerformKept(f),
             NEW status, NEW early \in BOOLEAN, early => status # "OK",
             Commit(ftp_done(f, status, early), replies)
      PROVE  Talk'
  <2>1. AfterLast(ftp_done(f, status, early))
    BY <1>3, DoneLast DEF PerformKept
  <2> QED BY <1>2, <1>3, <2>1, CommitLast DEF LastWordDue
<1>4. CASE ReadData
  <2> DEFINE f == [ftpc EXCEPT !.n = @ + 1]
  <2>1. \/ Commit(ftp_done(f, "OK", FALSE), replies)
        \/ ftpc' = f /\ UNCHANGED <<srv, todo, replies>>
    BY <1>4 DEF ReadData
  <2>2. Held(f) /\ Private(f) /\ f.out = <<>> /\ PerformKept(f)
    BY <1>2, FieldNames DEF Held, Private, PerformKept
  <2>3. ASSUME ftpc' = f, UNCHANGED <<srv, todo, replies>> PROVE Talk'
    BY <1>1, <2>3, ByteMoved
  <2> HIDE DEF f
  <2> QED BY <1>3, <2>1, <2>2, <2>3
<1>5. CASE ReadEnd
  <2>1. Commit(ftp_done(ftpc, "OK", FALSE), replies) \/ Commit(ftp_done(ftpc, "PARTIAL_FILE", TRUE), replies)
    BY <1>5 DEF ReadEnd
  <2> QED BY <1>2, <1>3, <2>1
<1>6. CASE WriteData
  BY <1>1, <1>6, ByteMoved DEF WriteData
<1>7. CASE WriteEnd
  <2>1. Commit(ftp_done(ftpc, "OK", FALSE), replies)
    BY <1>7 DEF WriteEnd
  <2> QED BY <1>2, <1>3, <2>1
<1> QED BY <1>4, <1>5, <1>6, <1>7

\* The last word is read, or the answer to a command that follows it.
LEMMA ReadLastKeeps ==
    ASSUME Talk, ReadLast
    PROVE  Talk'
<1> DEFINE f == [ftpc EXCEPT !.pending = FALSE]
           code == Head(replies).code
           g == IF f.phase = "final" THEN FinalResp(f, code) ELSE PostquoteResp(f, code)
<1>1. /\ ftpc.phase \in {"final", "postquote"} /\ replies # <<>> /\ Commit(g, Tail(replies))
      /\ DOMAIN srv = ServerFields
  BY DEF ReadLast, Talk
<1>2. /\ Held(f) /\ Private(f) /\ f.out = <<>> /\ ~f.pending /\ f.second = "none"
      /\ f.phase = ftpc.phase /\ f.state = ftpc.state /\ (Aborts(f) <=> Aborts(ftpc))
  BY <1>1, Reads DEF Talk, ClientOK, Aborts
<1> HIDE DEF f, code
<1>3. CASE f.phase = "final" /\ Aborts(f)
  <2> DEFINE c == [f EXCEPT !.close = TRUE]
  <2>1. DOMAIN c = Fields /\ c.use_ssl \in SslLevels /\ c.close
    BY <1>2, FieldNames DEF Held
  <2>2. g = Return(c, f.status, FALSE)
    BY <1>3 DEF FinalResp, Aborts
  <2> HIDE DEF c
  <2>3. Closed(g)
    BY <2>1, <2>2, ReturnClosed
  <2> HIDE DEF g
  <2> QED BY <1>1, <2>3, CommitClosed
<1>4. CASE f.phase = "final" /\ ~Aborts(f)
  <2>1. f.state = "STOP" /\ LastWordDue
    BY <1>1, <1>2, <1>4, FourWays DEF Awaits, Talk, ClientOK
  <2>2. todo = <<>> /\ ~Working /\ Tail(replies) = <<>>
    BY <1>1, <2>1, OneMessage DEF LastWordDue
  <2> DEFINE result == IF f.dont_check \/ code \in {226, 250} THEN "OK"
                       ELSE IF code = 552 THEN "REMOTE_DISK_FULL" ELSE "PARTIAL_FILE"
  <2>3. g = Finish(f, f.status, result, FALSE)
    BY <1>4 DEF FinalResp, Aborts
  <2> HIDE DEF g, result
  <2>4. AfterQuiet(g)
    BY <1>2, <2>1, <2>3, FinishQuiet
  <2> QED BY <1>1, <2>2, <2>4, CommitQuiet
<1>5. CASE f.phase = "postquote"
  <2>1. f.state = "STOP" /\ Served(ftpc)
    BY <1>1, <1>2, <1>5, FourWays DEF Awaits, Talk, ClientOK, Unserved
  <2>2. todo = <<>> /\ ~Working /\ Tail(replies) = <<>>
    BY <1>2, <2>1, OneMessage, ZenonT(60) DEF Served, Heard, TransferState
  <2>3. \/ \E result : g = Return(f, result, FALSE)
        \/ \E item : g = SendPostquote(f, item)
    BY <1>5 DEF PostquoteResp
  <2> HIDE DEF g
  <2>4. AfterQuiet(g)
    BY <1>2, <2>1, <2>3, ReturnHeld, SendPostquoteQuiet
  <2> QED BY <1>1, <2>2, <2>4, CommitQuiet
<1> QED BY <1>1, <1>2, <1>3, <1>4, <1>5

\* The client stops waiting for it: what is under way stays under way.
LEMMA GivenUpKeeps ==
    ASSUME Talk, LastGivenUp
    PROVE  Talk'
<1> DEFINE f == [ftpc EXCEPT !.pending = FALSE]
           g == Return(f, "ABORTED", FALSE)
<1>1. /\ ftpc.phase \in {"final", "postquote"} /\ replies = <<>> /\ Commit(g, replies)
      /\ DOMAIN srv = ServerFields
  BY DEF LastGivenUp, Talk
<1>2. /\ Held(f) /\ Private(f) /\ f.out = <<>> /\ ~f.pending /\ f.second = "none"
  BY <1>1, Reads DEF Talk, ClientOK
<1>3. AtEnd
  <2>1. CASE Awaits(ftpc) = "answer"
    <3>1. Unserved(ftpc) /\ ftpc.state = "STOP"
      BY <1>1, <2>1, FourWays DEF Awaits, Served, Talk, ClientOK
    <3>2. PICK c : todo = <<c>> /\ c.verb = "QUOTE"
      BY <3>1 DEF Unserved, Ordinary
    <3> QED BY <3>1, <3>2 DEF AtEnd, Unserved
  <2> QED BY <1>1, <2>1, FourWays DEF Awaits, LastWordDue, AtEnd
<1> HIDE DEF f
<1>4. AfterLast(g)
  BY <1>2, ReturnHeld
<1>5. g.phase = "idle" /\ (g.open => g.out = <<>> /\ g.result = "ABORTED")
  <2>1. CASE f.close
    <3>1. Closed(g)
      BY <1>2, <2>1, ReturnClosed DEF Held
    <3> QED BY <3>1 DEF Closed
  <2>2. CASE ~f.close
    <3> DEFINE k == Fresh(f)
    <3>1. g = [k EXCEPT !.result = "ABORTED"]
      BY <2>2 DEF Return
    <3>2. DOMAIN k = Fields /\ k.phase = "idle" /\ k.out = <<>>
      BY <1>2, FieldNames DEF Fresh, Held
    <3> HIDE DEF g, k
    <3> QED BY <3>1, <3>2, FieldNames
  <2> QED BY <2>1, <2>2
<1> HIDE DEF g
<1>6. CASE ~g.open
  <2>1. Closed(g)
    BY <1>4, <1>6 DEF AfterLast
  <2> QED BY <1>1, <2>1, CommitClosed
<1>7. CASE g.open
  <2>1. /\ ClientOK(ftpc)' /\ UNCHANGED srv /\ replies' = replies /\ todo' = todo \o <<>>
        /\ Awaits(ftpc)' = Awaits(g)
    BY <1>1, <1>4, <1>5, <1>7, CommitOpen DEF AfterLast
  <2>2. Awaits(g) = "end"
    BY <1>5, <1>7 DEF Awaits, Forsaken
  <2>3. todo' = todo
    BY <1>3, <2>1, NoMessage, OneMessage DEF AtEnd
  <2>4. AtEnd'
    BY <1>3, <2>1, <2>3 DEF AtEnd, Working
  <2> QED BY <1>1, <2>1, <2>2, <2>4 DEF Talk, Agree
<1> QED BY <1>6, <1>7

\* An abort or a timeout closes the connection.
LEMMA WedgeKeeps ==
    ASSUME Talk, Wedge
    PROVE  Talk'
<1> DEFINE c == [ftpc EXCEPT !.close = TRUE]
           g == IF ftpc.phase = "final" THEN Return(c, "OPERATION_TIMEDOUT", FALSE)
                ELSE ftp_done(ftpc, "OPERATION_TIMEDOUT", TRUE)
<1>1. ftpc.phase # "idle" /\ Commit(g, replies)
  BY DEF Wedge
<1>2. Held(ftpc) /\ ftpc.out = <<>> /\ DOMAIN srv = ServerFields
  BY <1>1, Busy
<1>3. DOMAIN c = Fields /\ c.use_ssl \in SslLevels /\ c.close
  BY <1>2, FieldNames DEF Held
<1>4. Closed(Return(c, "OPERATION_TIMEDOUT", FALSE))
  <2> HIDE DEF c
  <2> QED BY <1>3, ReturnClosed
<1>5. Closed(ftp_done(ftpc, "OPERATION_TIMEDOUT", TRUE))
  BY <1>2, DoneClosed
<1>6. Closed(g)
  BY <1>4, <1>5
<1> HIDE DEF g
<1> QED BY <1>1, <1>2, <1>6, CommitClosed
-----------------------------------------------------------------------------
(* The theorems.                                                             *)

LEMMA TalkInit == Init => Talk
<1> SUFFICES ASSUME Init PROVE Talk
  OBVIOUS
<1>1. PICK l \in UseSsl : ftpc = NewConn(l)
  BY DEF Init
<1>2. l \in SslLevels
  BY FtpAssumption DEF FtpAssumption
<1>3. ClientOK(ftpc)
  BY <1>1, <1>2, NewConnFields DEF ClientOK
<1>4. Awaits(ftpc) = "end"
  BY <1>1, NewConnFields DEF Awaits
<1>5. todo = <<>> /\ DOMAIN srv = ServerFields
  BY DEF Init, ServerFields
<1> QED BY <1>3, <1>4, <1>5 DEF Talk, Agree, AtEnd

LEMMA TalkUnchanged ==
    ASSUME Talk, UNCHANGED vars
    PROVE  Talk'
BY ServerFrame DEF vars, Talk

LEMMA TalkNext ==
    ASSUME Talk, "TLS" \notin Faults, RangesFit, Next
    PROVE  Talk'
<1>1. CASE \E r \in Requests : Start(r)
  BY <1>1, StartKeeps
<1>2. CASE Client
  <2>1. CASE Respond
    BY <2>1, RespondKeeps
  <2>2. CASE Connected
    BY <2>2, ConnectedKeeps
  <2>3. CASE ConnectFails
    BY <2>3, ConnectFailsKeeps
  <2>4. CASE DoMore
    BY <2>4, DoMoreKeeps
  <2>5. CASE Accepted \/ NotAccepted \/ AcceptTimeout
    BY <2>5, AcceptKeeps
  <2>6. CASE ReadData \/ ReadEnd \/ WriteData \/ WriteEnd
    BY <2>6, PerformKeeps
  <2>7. CASE ReadLast
    BY <2>7, ReadLastKeeps
  <2>8. CASE LastGivenUp
    BY <2>8, GivenUpKeeps
  <2>9. CASE Wedge
    BY <2>9, WedgeKeeps
  <2> QED BY <1>2, <2>1, <2>2, <2>3, <2>4, <2>5, <2>6, <2>7, <2>8, <2>9 DEF Client
<1>3. CASE Server \/ OtherMkdir
  BY <1>3, ServerKeeps
<1> QED BY <1>1, <1>2, <1>3 DEF Next

\* What client and server have under way is always what the client waits for: it never
\* takes the answer to one command for the answer to another.
THEOREM AlwaysTalk ==
    ASSUME "TLS" \notin Faults, RangesFit
    PROVE  Spec => []Talk
<1>1. Talk /\ [Next]_vars => Talk'
  BY TalkNext, TalkUnchanged
<1> QED BY <1>1, TalkInit, PTL DEF Spec

LEMMA TalkInStep == Talk => InStep
<1> SUFFICES ASSUME Talk, todo # <<>>, Head(todo).verb # "ABOR"
             PROVE  Len(todo) = 1 /\ replies = <<>> /\ srv.job = "none"
  BY DEF InStep
<1>1. Unserved(ftpc) \/ AtEnd
  BY FourWays DEF Served, Quiet, LastWordDue
<1>2. (\E c : todo = <<c>>) /\ replies = <<>> /\ ~Working
  <2>1. todo # <<Abor>>
    BY OneMessage DEF Abor
  <2> QED BY <1>1, <2>1 DEF Unserved, AtEnd
<1> QED BY <1>2, OneMessage DEF Working

\* A command is only sent once every earlier one has been answered, over any number of
\* transfers on one connection, whatever the server refuses and whichever of them fail:
\* ftp_done keeps the connection only where nothing is left unread on it.
THEOREM AlwaysInStep ==
    ASSUME "TLS" \notin Faults, RangesFit
    PROVE  Spec => []InStep
BY AlwaysTalk, TalkInStep, PTL

LEMMA TalkKeptIsQuiet == Talk => KeptIsQuiet
<1> SUFFICES ASSUME Talk, ftpc.phase = "idle", ftpc.open, ~GivenUp
             PROVE  todo = <<>> /\ replies = <<>> /\ srv.job = "none"
  BY DEF KeptIsQuiet
<1>1. Awaits(ftpc) = "nothing"
  BY DEF Awaits, Forsaken, GivenUp
<1> QED BY <1>1, FourWays DEF Quiet, Working

\* No answer is under way on a connection that ftp_done has given back to the pool,
\* unless the wait for the server was given up.
THEOREM KeptConnectionsAreQuiet ==
    ASSUME "TLS" \notin Faults, RangesFit
    PROVE  Spec => []KeptIsQuiet
BY AlwaysTalk, TalkKeptIsQuiet, PTL

LEMMA TalkTlsKept == Talk => TlsKept
<1> SUFFICES ASSUME Talk, todo # <<>>
             PROVE  LET verb == Head(todo).verb
                    IN  /\ verb \in NameVerb /\ Level(ftpc.use_ssl) >= 2 => srv.tls
                        /\ verb \in TransferVerb =>
                              /\ ftpc.use_ssl = "all" => ftpc.datassl
                              /\ ftpc.datassl = srv.private
  BY DEF TlsKept, NameVerb, TransferVerb
<1>1. CASE Awaits(ftpc) = "answer" /\ Unserved(ftpc)
  <2>1. PICK c : todo = <<c>> /\ Ordinary(c, ftpc)
    BY <1>1 DEF Unserved
  <2>2. Head(todo) = c
    BY <2>1, OneMessage
  <2>3. ftpc.phase \in {"connect", "doing", "more", "postquote"}
    BY <1>1 DEF Awaits, Talk, ClientOK
  <2>4. ASSUME c.verb \in NameVerb, Level(ftpc.use_ssl) >= 2 PROVE srv.tls
    <3>1. ftpc.state \in NameState
      BY <2>1, <2>4 DEF Ordinary
    <3>2. ftpc.phase = "connect"
      BY <2>3, <3>1 DEF Talk, ClientOK, NameState, DoingKept, MoreKept, AskState, DataState,
         StorState, RetrState, SizeState, ListState
    <3>3. LoginKept(ftpc)
      BY <3>2 DEF Talk, ClientOK, ConnectKept
    <3> QED BY <2>4, <3>1, <3>3 DEF LoginKept, EarlyState
  <2>5. ASSUME c.verb \in TransferVerb PROVE Private(ftpc)
    <3>1. ftpc.state \in TransferState
      BY <2>1, <2>5 DEF Ordinary
    <3>2. ftpc.phase # "connect"
      BY <3>1 DEF Talk, ClientOK, TransferState, ConnectKept, EarlyState, LateState, NameState
    <3> QED BY <2>3, <3>2 DEF Talk, ClientOK
  <2> QED BY <2>2, <2>4, <2>5 DEF Private
<1>2. CASE Awaits(ftpc) = "end" /\ AtEnd
  <2>1. Head(todo).verb \in {"ABOR", "QUOTE"}
    BY <1>2, OneMessage DEF AtEnd, Abor
  <2> QED BY <2>1 DEF NameVerb, TransferVerb
<1> QED BY <1>1, <1>2, FourWays DEF Served, Quiet, LastWordDue

\* Where CURLOPT_USE_SSL requires it no name, password or account goes in clear, and no
\* transfer begins unless client and server agree on how its data is protected: on a
\* connection that is used again, too, whose login is long past.
THEOREM TlsIsKept ==
    ASSUME "TLS" \notin Faults, RangesFit
    PROVE  Spec => []TlsKept
BY AlwaysTalk, TalkTlsKept, PTL
-----------------------------------------------------------------------------
(* Where the server is.  CWD, TYPE and REST are left out when an earlier      *)
(* transfer has sent them: Cached says where the server is at each state.    *)

\* The path is remembered though MKD was refused, if it is not to be tried again; the type
\* though TYPE was.  A resumed download in ASCII asks for the whole file.  No path is the
\* one that stands for none.
Followed ==
    /\ Faults \cap {"TYPE", "PWD"} = {}
    /\ \A r \in Requests :
          r.create # 1 /\ (r.ascii /\ r.kind # "put" => r.resume = 0) /\ PathKey(r) # NoKey

TypeState == {"TYPE", "LIST_TYPE", "RETR_TYPE", "STOR_TYPE"}
\* The states in which the server is on its way to the directory.
WayState == {"QUOTE", "CWD", "MKD"}

\* The directory that the first k items of the request's path lead to.
Reached(r, k) ==
    IF k = 0 THEN Entry
    ELSE IF r.method = "single" THEN Wanted(r)
    ELSE IF r.abs THEN SubSeq(r.dirs, 1, k - 1)
    ELSE Entry \o SubSeq(r.dirs, 1, k)

\* The server is where item cwdcount can be entered.
Before(f) ==
    /\ f.cwdcount \in 1 .. Len(DirItems(f.req))
    /\ CwdItem(f).abs \/ srv.cwd = Reached(f.req, f.cwdcount - 1)

InPlace(f) == FullPath(f.req) \/ srv.cwd = Wanted(f.req)
Recalls(f) == f.prevpath # NoKey => srv.cwd = Resolve(Entry, f.prevpath)
TypeKnown(f) == f.transfertype # None => srv.type = f.transfertype

\* `code` is that of the answer the client is about to read, 0 if the server has not
\* answered yet.
OnTheWay(f, code) ==
    /\ f.state = "QUOTE" =>
          IF f.cwddone THEN InPlace(f) ELSE ~FullPath(f.req) /\ (f.reuse \/ srv.cwd = Entry)
    /\ f.state = "CWD" =>
          /\ ~FullPath(f.req)
          /\ IF code \div 100 = 2
             THEN f.cwdcount \in 0 .. Len(DirItems(f.req)) /\ srv.cwd = Reached(f.req, f.cwdcount)
             ELSE f.cwdcount = 0 \/ Before(f)
    /\ f.state = "MKD" => ~FullPath(f.req) /\ Before(f) /\ f.count3 = 1

PathKept(f, code) ==
    IF f.phase = "connect"
    THEN /\ ~f.reuse /\ srv.cwd = Entry /\ f.prevpath = NoKey
         /\ f.state \in {"SYST", "NAMEFMT"} => f.entrypath
         /\ f.state = "PWD" => code \in {0, 257}
    ELSE /\ f.entrypath
         /\ IF f.phase \in {"idle", "final", "postquote"} THEN Recalls(f)
            ELSE /\ FullPath(f.req) => Recalls(f)
                 /\ IF f.state \in WayState THEN OnTheWay(f, code) ELSE InPlace(f)

TypeKept(f, code) ==
    /\ (f.state \in TypeState /\ code = 0) \/ TypeKnown(f)
    /\ f.state \in ListState => f.transfertype = "A"
    /\ f.phase = "more" /\ f.state \in StorState \cup RetrState =>
          f.transfertype = TypeOf(f.req.ascii)

RestKept(f, code) ==
    srv.rest = IF (f.state = "RETR_REST" /\ code = 350) \/ (f.state = "RETR" /\ code = 0)
               THEN f.resume ELSE 0

Kept(f, code) ==
    /\ PathKept(f, code) /\ TypeKept(f, code) /\ RestKept(f, code)
    /\ f.phase = "idle" => f.state = "STOP"

\* The commands that the client sends to leave for a state.
Fitting(verb, state) ==
    /\ verb = "CWD" <=> state = "CWD"
    /\ verb = "TYPE" <=> state \in TypeState
    /\ verb = "REST" <=> state \in {"REST", "RETR_REST"}
    /\ verb = "PWD" <=> state = "PWD"
    /\ verb = "RETR" <=> state = "RETR"
    /\ verb = "LIST" <=> state = "LIST"
    /\ verb \in {"SIZE", "MDTM"} => state \notin WayState \cup EarlyState \cup LateState \cup {"STOP"}

\* What c does to the server is what f takes it to do.
Command(c, f) ==
    /\ Fitting(c.verb, f.state)
    /\ c.verb = "CWD" => c.arg = IF f.cwdcount = 0 THEN HomeItem ELSE CwdItem(f)
    /\ c.verb = "TYPE" => c.arg = f.transfertype
    /\ c.verb = "REST" => c.arg = IF f.state = "REST" THEN 0 ELSE f.resume

Code == IF todo = <<>> /\ replies # <<>> THEN Head(replies).code ELSE 0

\* The inductive invariant, of a connection that may be used again.
Cached ==
    ftpc.open /\ Awaits(ftpc) # "end" =>
        /\ Kept(ftpc, Code)
        /\ \A c : todo = <<c>> => Command(c, ftpc)
        /\ Awaits(ftpc) = "answer" /\ replies # <<>> => Head(replies).code # 0

-----------------------------------------------------------------------------
(* Directories.                                                              *)

LEMMA Appended ==
    ASSUME NEW S, NEW s \in Seq(S)
    PROVE  s \o <<>> = s /\ <<>> \o s = s /\ SubSeq(s, 1, Len(s)) = s
<1>1. s \o <<>> = s /\ <<>> \o s = s
  BY ConcatEmptySeq
<1>2. SubSeq(s, 1, Len(s)) = s
  BY SubSeqFull
<1> QED BY <1>1, <1>2

\* Entering one more name.
LEMMA OneMore ==
    ASSUME NEW S, NEW s \in Seq(S), NEW t \in Seq(S), NEW k \in 1 .. Len(s)
    PROVE  /\ SubSeq(s, 1, k - 1) \o <<s[k]>> = SubSeq(s, 1, k)
           /\ (t \o SubSeq(s, 1, k - 1)) \o <<s[k]>> = t \o SubSeq(s, 1, k)
<1>0. k \in Nat /\ k - 1 \in Int /\ 1 \in Int /\ Len(s) \in Nat /\ s[k] \in S
  BY ElementOfSeq, LenProperties
<1>1. SubSeq(s, 1, k) = SubSeq(s, 1, k - 1) \o <<s[k]>>
  BY <1>0, SubSeqRecursiveSecond
<1>2. SubSeq(s, 1, k - 1) \in Seq(S)
  <2>1. \A i \in 1 .. k - 1 : s[i] \in S
    BY <1>0, ElementOfSeq
  <2> QED BY <1>0, <2>1, SubSeqProperties
<1>3. <<s[k]>> \in Seq(S)
  BY <1>0
<1> DEFINE u == SubSeq(s, 1, k - 1)
<1>4. (t \o u) \o <<s[k]>> = t \o (u \o <<s[k]>>)
  <2> DEFINE last == <<s[k]>>
             left == (t \o u) \o last
             right == t \o (u \o last)
  <2>1. u \in Seq(S) /\ last \in Seq(S)
    BY <1>2, <1>3
  <2>2. left \in Seq(S) /\ right \in Seq(S) /\ Len(left) = Len(right)
    <3> HIDE DEF u, last
    <3> QED BY <2>1
  <2>3. \A i \in 1 .. Len(left) : left[i] = right[i]
    <3> HIDE DEF u, last
    <3> QED BY <2>1
  <2>4. left = right
    <3> HIDE DEF left, right
    <3> QED BY <2>2, <2>3, SeqEqual
  <2> QED BY <2>4
<1>5. (t \o u) \o <<s[k]>> = t \o SubSeq(s, 1, k)
  <2> HIDE DEF u
  <2>1. u \o <<s[k]>> = SubSeq(s, 1, k)
    BY <1>1 DEF u
  <2> QED BY <1>4, <2>1
<1>6. u \o <<s[k]>> = SubSeq(s, 1, k)
  BY <1>1
<1> QED BY <1>5, <1>6

Name == STRING \cup {"home"}

\* What a request is made of.
LEMMA Parts ==
    ASSUME NEW r \in Request
    PROVE  /\ r.dirs \in Seq(Name) /\ r.abs \in BOOLEAN /\ Len(r.dirs) \in Nat
           /\ r.method \in {"nocwd", "single", "multi"}
           /\ Entry \in Seq(Name) /\ r.create \in 0 .. 2
           /\ r.kind \in {"get", "put", "head"} /\ r.ascii \in BOOLEAN /\ r.resume \in Int
<1>1. /\ r.dirs \in Seq(STRING) /\ r.abs \in BOOLEAN
      /\ r.method \in {"nocwd", "single", "multi"} /\ r.create \in 0 .. 2
      /\ r.kind \in {"get", "put", "head"} /\ r.ascii \in BOOLEAN /\ r.resume \in Int
  BY DEF Request
<1>2. Entry \in Seq(Name) /\ r.dirs \in Seq(Name)
  BY <1>1 DEF Entry, Name
<1> QED BY <1>1, <1>2, LenProperties

Names(r) == [i \in 1 .. Len(r.dirs) |-> [abs |-> FALSE, dirs |-> <<r.dirs[i]>>]]
TopItem == [abs |-> TRUE, dirs |-> <<>>]

\* The items of a request's path: those of a path that is entered name by name,
LEMMA ManyItems ==
    ASSUME NEW r \in Request, r.method = "multi"
    PROVE  IF r.abs
           THEN /\ Len(DirItems(r)) = Len(r.dirs) + 1 /\ DirItems(r) # <<>>
                /\ DirItems(r)[1] = TopItem
                /\ \A k \in 2 .. Len(r.dirs) + 1 :
                      DirItems(r)[k] = [abs |-> FALSE, dirs |-> <<r.dirs[k - 1]>>]
           ELSE /\ Len(DirItems(r)) = Len(r.dirs) /\ (DirItems(r) = <<>> <=> Len(r.dirs) = 0)
                /\ \A k \in 1 .. Len(r.dirs) :
                      DirItems(r)[k] = [abs |-> FALSE, dirs |-> <<r.dirs[k]>>]
<1> DEFINE n == Len(r.dirs)
           S == {TopItem} \cup {Names(r)[i] : i \in 1 .. n}
<1>0. n \in Nat
  BY Parts
<1>1. Names(r) \in [1 .. n -> S]
  BY DEF Names
<1>2. Names(r) \in Seq(S) /\ Len(Names(r)) = n
  BY <1>0, <1>1
<1>3. <<TopItem>> \in Seq(S) /\ Len(<<TopItem>>) = 1 /\ <<TopItem>>[1] = TopItem
  BY DEF TopItem
<1>4. \A k \in 1 .. n : Names(r)[k] = [abs |-> FALSE, dirs |-> <<r.dirs[k]>>]
  BY DEF Names
<1>5. CASE r.abs
  <2>1. DirItems(r) = <<TopItem>> \o Names(r)
    BY <1>5 DEF DirItems, Names, TopItem
  <2> DEFINE s == <<TopItem>> \o Names(r)
  <2>2. /\ s \in Seq(S) /\ Len(s) = 1 + n
        /\ \A i \in 1 .. 1 + n : s[i] = IF i <= 1 THEN <<TopItem>>[i] ELSE Names(r)[i - 1]
    BY <1>2, <1>3, ConcatProperties
  <2> HIDE DEF s
  <2>3. s # <<>>
    BY <1>0, <2>2, EmptySeq
  <2>4. s[1] = TopItem
    BY <1>0, <1>3, <2>2
  <2>5. \A k \in 2 .. n + 1 : s[k] = [abs |-> FALSE, dirs |-> <<r.dirs[k - 1]>>]
    BY <1>0, <1>4, <2>2
  <2> QED BY <1>0, <1>5, <2>1, <2>2, <2>3, <2>4, <2>5 DEF s
<1>6. CASE ~r.abs
  <2>1. DirItems(r) = Names(r)
    <3>1. DirItems(r) = <<>> \o Names(r)
      BY <1>6 DEF DirItems, Names
    <3> QED BY <1>2, <3>1, ConcatEmptySeq
  <2>2. Names(r) = <<>> <=> n = 0
    BY <1>0, <1>2, EmptySeq
  <2> QED BY <1>2, <1>4, <1>6, <2>1, <2>2
<1> QED BY <1>5, <1>6

\* and those of one that is entered at once, or not at all.
LEMMA FewItems ==
    ASSUME NEW r \in Request
    PROVE  /\ r.method = "nocwd" \/ (r.method = "single" /\ ~(r.abs \/ r.dirs # <<>>)) =>
                 DirItems(r) = <<>> /\ Len(DirItems(r)) = 0
           /\ r.method = "single" /\ (r.abs \/ r.dirs # <<>>) =>
                 /\ Len(DirItems(r)) = 1 /\ DirItems(r) # <<>>
                 /\ DirItems(r)[1] = [abs |-> r.abs, dirs |-> r.dirs]
<1>1. r.method = "nocwd" => DirItems(r) = <<>>
  BY DEF DirItems
<1>2. r.method = "single" =>
         DirItems(r) = IF r.abs \/ r.dirs # <<>> THEN <<[abs |-> r.abs, dirs |-> r.dirs]>> ELSE <<>>
  BY DEF DirItems
<1>3. Len(<<>>) = 0
  OBVIOUS
<1>4. /\ Len(<<[abs |-> r.abs, dirs |-> r.dirs]>>) = 1
      /\ <<[abs |-> r.abs, dirs |-> r.dirs]>>[1] = [abs |-> r.abs, dirs |-> r.dirs]
      /\ <<[abs |-> r.abs, dirs |-> r.dirs]>> # <<>>
  BY OneMessage
<1> QED BY <1>1, <1>2, <1>3, <1>4

LEMMA ItemCount ==
    ASSUME NEW r \in Request
    PROVE  Len(DirItems(r)) \in Nat /\ (DirItems(r) = <<>> <=> Len(DirItems(r)) = 0)
<1>1. CASE r.method = "multi"
  <2>1. CASE r.abs
    BY <1>1, <2>1, ManyItems, Parts
  <2>2. CASE ~r.abs
    BY <1>1, <2>2, ManyItems, Parts
  <2> QED BY <2>1, <2>2
<1>2. CASE r.method # "multi"
  BY <1>2, FewItems, Parts
<1> QED BY <1>1, <1>2

LEMMA ReachedIs ==
    ASSUME NEW r, NEW k
    PROVE  Reached(r, k) = IF k = 0 THEN Entry
                           ELSE IF r.method = "single" THEN Wanted(r)
                           ELSE IF r.abs THEN SubSeq(r.dirs, 1, k - 1)
                           ELSE Entry \o SubSeq(r.dirs, 1, k)
BY DEF Reached

\* All items lead to the directory that is wanted.
LEMMA ReachedAll ==
    ASSUME NEW r \in Request
    PROVE  Reached(r, Len(DirItems(r))) = Wanted(r)
<1>0. /\ r.dirs \in Seq(Name) /\ Entry \in Seq(Name) /\ r.abs \in BOOLEAN
      /\ r.method \in {"nocwd", "single", "multi"} /\ Len(r.dirs) \in Nat
  BY Parts
<1>1. /\ Entry \o <<>> = Entry /\ Root \o r.dirs = r.dirs
      /\ SubSeq(r.dirs, 1, Len(r.dirs)) = r.dirs
  BY <1>0, Appended DEF Root
<1>2. Wanted(r) = IF r.method = "nocwd" THEN Entry ELSE (IF r.abs THEN Root ELSE Entry) \o r.dirs
  BY DEF Wanted, Resolve
<1>3. CASE r.method = "nocwd"
  <2>1. Len(DirItems(r)) = 0
    BY <1>3, FewItems
  <2> QED BY <1>2, <1>3, <2>1 DEF Reached
<1>4. CASE r.method = "single"
  <2>1. CASE r.abs \/ r.dirs # <<>>
    <3>1. Len(DirItems(r)) = 1
      BY <1>4, <2>1, FewItems
    <3> QED BY <1>4, <3>1 DEF Reached
  <2>2. CASE ~(r.abs \/ r.dirs # <<>>)
    <3>1. Len(DirItems(r)) = 0
      BY <1>4, <2>2, FewItems
    <3> QED BY <1>1, <1>2, <1>4, <2>2, <3>1 DEF Reached
  <2> QED BY <2>1, <2>2
<1>5. CASE r.method = "multi" /\ r.abs
  <2>1. Len(DirItems(r)) = Len(r.dirs) + 1
    BY <1>5, ManyItems
  <2>2. Len(DirItems(r)) # 0 /\ Len(DirItems(r)) - 1 = Len(r.dirs)
    BY <1>0, <2>1
  <2> QED BY <1>1, <1>2, <1>5, <2>2 DEF Reached
<1>6. CASE r.method = "multi" /\ ~r.abs
  <2>1. Len(DirItems(r)) = Len(r.dirs)
    BY <1>6, ManyItems
  <2>2. Len(r.dirs) = 0 => r.dirs = <<>>
    BY <1>0, EmptySeq
  <2> QED BY <1>1, <1>2, <1>6, <2>1, <2>2 DEF Reached
<1> QED BY <1>0, <1>3, <1>4, <1>5, <1>6

\* Each item leads on from where the ones before it lead to.
LEMMA ReachedNext ==
    ASSUME NEW r \in Request, NEW k \in 1 .. Len(DirItems(r)), NEW cwd,
           DirItems(r)[k].abs \/ cwd = Reached(r, k - 1)
    PROVE  Resolve(cwd, DirItems(r)[k]) = Reached(r, k)
<1>0. /\ r.dirs \in Seq(Name) /\ Entry \in Seq(Name) /\ r.abs \in BOOLEAN
      /\ r.method \in {"nocwd", "single", "multi"} /\ Len(r.dirs) \in Nat
      /\ Len(DirItems(r)) \in Nat /\ k \in Nat /\ k # 0
  BY Parts, ItemCount
<1>1. Entry \o <<>> = Entry /\ Root \o r.dirs = r.dirs /\ SubSeq(r.dirs, 1, 0) = <<>>
  BY <1>0, Appended, SubSeqEmpty DEF Root
<1>2. CASE r.method = "single"
  <2>0. r.abs \/ r.dirs # <<>>
    <3>1. Len(DirItems(r)) # 0
      BY <1>0
    <3> QED BY <1>2, <3>1, FewItems
  <2>1. k = 1 /\ DirItems(r)[1] = [abs |-> r.abs, dirs |-> r.dirs]
    <3>1. Len(DirItems(r)) = 1 /\ DirItems(r)[1] = [abs |-> r.abs, dirs |-> r.dirs]
      BY <1>2, <2>0, FewItems
    <3> QED BY <3>1
  <2>2. Resolve(cwd, DirItems(r)[k]) = (IF r.abs THEN Root ELSE cwd) \o r.dirs
    <3> DEFINE i == [abs |-> r.abs, dirs |-> r.dirs]
    <3>1. i.abs = r.abs /\ i.dirs = r.dirs /\ DirItems(r)[k] = i
      BY <2>1
    <3> HIDE DEF i
    <3> QED BY <3>1 DEF Resolve
  <2>3. Wanted(r) = (IF r.abs THEN Root ELSE Entry) \o r.dirs
    BY <1>2 DEF Wanted, Resolve
  <2>4. r.abs \/ cwd = Entry
    <3>1. k - 1 = 0
      BY <2>1
    <3> QED BY <2>1, <3>1 DEF Reached
  <2>5. Reached(r, k) = Wanted(r)
    BY <1>0, <1>2 DEF Reached
  <2> QED BY <2>2, <2>3, <2>4, <2>5
<1>3. CASE r.method = "multi" /\ r.abs
  <2>0. Len(DirItems(r)) = Len(r.dirs) + 1 /\ DirItems(r)[1] = TopItem
    BY <1>3, ManyItems
  <2>1. CASE k = 1
    <3>1. Resolve(cwd, TopItem) = <<>> \o <<>>
      BY DEF Resolve, TopItem, Root
    <3>2. Reached(r, k) = SubSeq(r.dirs, 1, 0)
      <4>1. k - 1 = 0 /\ k # 0
        BY <2>1
      <4> QED BY <1>3, <4>1, ReachedIs
    <3> QED BY <1>1, <2>0, <2>1, <3>1, <3>2, NoMessage
  <2>2. CASE k # 1
    <3>1. k - 1 \in 1 .. Len(r.dirs) /\ k - 1 # 0
      BY <1>0, <2>0, <2>2
    <3>2. DirItems(r)[k] = [abs |-> FALSE, dirs |-> <<r.dirs[k - 1]>>]
      BY <1>0, <1>3, <2>0, <2>2, ManyItems
    <3>3. cwd = SubSeq(r.dirs, 1, (k - 1) - 1)
      BY <1>0, <1>3, <3>1, <3>2 DEF Reached
    <3>4. SubSeq(r.dirs, 1, (k - 1) - 1) \o <<r.dirs[k - 1]>> = SubSeq(r.dirs, 1, k - 1)
      BY <1>0, <3>1, OneMore
    <3>5. Resolve(cwd, DirItems(r)[k]) = cwd \o <<r.dirs[k - 1]>>
      BY <3>2 DEF Resolve
    <3> QED BY <1>0, <1>3, <3>3, <3>4, <3>5 DEF Reached
  <2> QED BY <2>1, <2>2
<1>4. CASE r.method = "multi" /\ ~r.abs
  <2>0. Len(DirItems(r)) = Len(r.dirs) /\ k \in 1 .. Len(r.dirs)
    BY <1>4, ManyItems
  <2>1. DirItems(r)[k] = [abs |-> FALSE, dirs |-> <<r.dirs[k]>>]
    BY <1>4, <2>0, ManyItems
  <2>2. cwd = Entry \o SubSeq(r.dirs, 1, k - 1)
    <3>1. cwd = Reached(r, k - 1)
      BY <2>1
    <3>2. CASE k = 1
      <4>1. k - 1 = 0
        BY <3>2
      <4> QED BY <1>1, <3>1, <4>1, ReachedIs
    <3>3. CASE k # 1
      <4>1. k - 1 # 0
        BY <1>0, <3>3
      <4> QED BY <1>4, <3>1, <4>1 DEF Reached
    <3> QED BY <3>2, <3>3
  <2>3. (Entry \o SubSeq(r.dirs, 1, k - 1)) \o <<r.dirs[k]>> = Entry \o SubSeq(r.dirs, 1, k)
    BY <1>0, <2>0, OneMore
  <2>4. Resolve(cwd, DirItems(r)[k]) = cwd \o <<r.dirs[k]>>
    BY <2>1 DEF Resolve
  <2> QED BY <1>0, <1>4, <2>2, <2>3, <2>4 DEF Reached
<1>5. r.method # "nocwd"
  <2>1. Len(DirItems(r)) # 0
    BY <1>0
  <2> QED BY <2>1, FewItems
<1> QED BY <1>0, <1>2, <1>3, <1>4, <1>5

\* What ftp_parse_url_path compares says where the server has to be.
LEMMA KeyWanted ==
    ASSUME NEW r \in Request, ~FullPath(r)
    PROVE  /\ Resolve(Entry, PathKey(r)) = Wanted(r)
           /\ PathKey(r) = HomeKey => Wanted(r) = Entry
<1>0. /\ r.abs \in BOOLEAN /\ Entry \o <<>> = Entry
  BY Parts, Appended
<1>1. CASE r.method = "nocwd"
  <2>1. PathKey(r) = [abs |-> FALSE, dirs |-> <<>>]
    BY <1>1 DEF PathKey
  <2>2. Wanted(r) = Entry
    BY <1>1 DEF Wanted
  <2> QED BY <1>0, <2>1, <2>2 DEF Resolve
<1>2. CASE r.method # "nocwd"
  <2>1. PathKey(r) = [abs |-> r.abs, dirs |-> r.dirs]
    BY <1>2 DEF PathKey
  <2>2. Wanted(r) = Resolve(Entry, PathKey(r))
    BY <1>2, <2>1 DEF Wanted
  <2>3. Resolve(Entry, HomeKey) = Entry
    BY <1>0 DEF Resolve, HomeKey
  <2> QED BY <2>2, <2>3
<1> QED BY <1>1, <1>2

\* The first CWD of a connection that is used again is to where it began.
LEMMA HomeReached ==
    ASSUME NEW cwd, NEW r
    PROVE  Resolve(cwd, HomeItem) = Entry /\ Reached(r, 0) = Entry
<1>1. Root \o Entry = Entry
  <2>1. Entry \in Seq({"home"})
    BY DEF Entry
  <2> QED BY <2>1, Appended DEF Root
<1> QED BY <1>1 DEF Resolve, HomeItem, Reached

-----------------------------------------------------------------------------
(* What a handler leaves behind.                                             *)

\* The server is where the request wants it.
Settled(f) ==
    /\ f.entrypath /\ InPlace(f) /\ (FullPath(f.req) => Recalls(f))
    /\ TypeKnown(f) /\ srv.rest = 0

\* Where it is can be remembered once the transfer has ended like this.
Leaving(f) ==
    /\ f.entrypath /\ (FullPath(f.req) => Recalls(f))
    /\ f.cwdfail \/ InPlace(f)
    /\ TypeKnown(f) /\ srv.rest = 0

Onward(g) == Kept(g, 0) /\ \A c : g.out = <<c>> => Command(c, g)

CacheNext(g) ==
    IF g.result # "OK" THEN g.result \in Harmless => Leaving(g)
    ELSE IF g.state = "STOP" THEN Settled(g)
    ELSE Onward(g)

\* What the predicates of this part read of the client.
Alike(g, f) ==
    /\ g.phase = f.phase /\ g.req = f.req /\ g.reuse = f.reuse /\ g.entrypath = f.entrypath
    /\ g.prevpath = f.prevpath /\ g.transfertype = f.transfertype /\ g.cwdfail = f.cwdfail
    /\ g.cwddone = f.cwddone /\ g.cwdcount = f.cwdcount /\ g.count3 = f.count3
    /\ g.resume = f.resume

LEMMA SettledAlike ==
    ASSUME NEW f, NEW g, Settled(f), g.req = f.req, g.entrypath = f.entrypath,
           g.prevpath = f.prevpath, g.transfertype = f.transfertype
    PROVE  Settled(g)
BY DEF Settled, InPlace, Recalls, TypeKnown

LEMMA SettledLeaves ==
    ASSUME NEW f, Settled(f)
    PROVE  Leaving(f)
BY DEF Settled, Leaving

LEMMA KeptAlike ==
    ASSUME NEW f, NEW g, NEW code, Kept(f, code), Alike(g, f), g.state = f.state
    PROVE  Kept(g, code)
<1>1. PathKept(g, code)
  <2>1. Recalls(g) = Recalls(f) /\ InPlace(g) = InPlace(f) /\ Before(g) = Before(f)
    BY DEF Alike, Recalls, InPlace, Before, CwdItem
  <2>2. OnTheWay(g, code) = OnTheWay(f, code)
    BY <2>1 DEF Alike, OnTheWay
  <2> QED BY <2>1, <2>2 DEF Kept, PathKept, Alike
<1>2. TypeKept(g, code)
  BY DEF Kept, TypeKept, Alike, TypeKnown
<1>3. RestKept(g, code)
  BY DEF Kept, RestKept, Alike
<1> QED BY <1>1, <1>2, <1>3 DEF Kept, Alike

LEMMA CommandAlike ==
    ASSUME NEW f, NEW g, NEW c, Command(c, f), Alike(g, f), g.state = f.state
    PROVE  Command(c, g)
BY DEF Command, Alike, CwdItem

\* A state that no answer tells anything about.
LEMMA KeptAtRest ==
    ASSUME NEW f, NEW code, NEW d, Kept(f, d), f.state = "STOP"
    PROVE  Kept(f, code)
<1>1. PathKept(f, code) /\ RestKept(f, code)
  BY DEF Kept, PathKept, WayState, RestKept
<1>2. TypeKept(f, code)
  BY DEF Kept, TypeKept, TypeState
<1> QED BY <1>1, <1>2 DEF Kept

LEMMA Sent ==
    ASSUME NEW f, DOMAIN f = Fields, f.out = <<>>, NEW verb, NEW arg, NEW state
    PROVE  LET g == Send(f, verb, arg, state)
           IN  /\ Alike(g, f) /\ g.state = state /\ g.result = f.result
               /\ g.out = <<[verb |-> verb, arg |-> arg]>>
BY FieldNames, OneMessage DEF Send, Alike

\* On the way to the transfer the client says something that moves nothing.
LEMMA SaysNext ==
    ASSUME NEW f, DOMAIN f = Fields, f.out = <<>>, f.result = "OK", Settled(f),
           f.phase \in {"doing", "more"}, NEW verb, NEW arg, NEW state,
           Fitting(verb, state), state \notin WayState \cup {"RETR", "STOP"},
           state \in ListState => f.transfertype = "A",
           f.phase = "more" /\ state \in StorState \cup RetrState =>
              f.transfertype = TypeOf(f.req.ascii),
           state \in TypeState => arg = f.transfertype,
           state = "REST" => arg = 0, state = "RETR_REST" => arg = f.resume
    PROVE  CacheNext(Send(f, verb, arg, state))
<1> DEFINE g == Send(f, verb, arg, state)
           c == [verb |-> verb, arg |-> arg]
<1>1. Alike(g, f) /\ g.state = state /\ g.result = "OK" /\ g.out = <<c>>
  BY Sent
<1> HIDE DEF g
<1>2. PathKept(g, 0)
  BY <1>1 DEF PathKept, Settled, Alike, InPlace, Recalls
<1>3. TypeKept(g, 0)
  BY <1>1 DEF TypeKept, Settled, Alike, TypeKnown
<1>4. RestKept(g, 0)
  BY <1>1 DEF RestKept, Settled
<1>5. Kept(g, 0)
  BY <1>1, <1>2, <1>3, <1>4 DEF Kept, Alike
<1>6. Command(c, g)
  <2>1. c.verb = verb /\ c.arg = arg
    OBVIOUS
  <2>2. verb # "CWD"
    BY DEF Fitting, WayState
  <2> HIDE DEF c
  <2> QED BY <1>1, <2>1, <2>2 DEF Command, Fitting, Alike
<1>7. \A d : g.out = <<d>> => Command(d, g)
  <2> HIDE DEF c
  <2> QED BY <1>1, <1>6
<1> QED BY <1>1, <1>5, <1>7 DEF CacheNext, Onward, g

LEMMA FailsNext ==
    ASSUME NEW f, DOMAIN f = Fields, Settled(f), NEW result, result # "OK"
    PROVE  CacheNext(Fail(f, result))
<1> DEFINE g == Fail(f, result)
<1>1. /\ g.req = f.req /\ g.entrypath = f.entrypath /\ g.prevpath = f.prevpath
      /\ g.transfertype = f.transfertype /\ g.result = result
  BY FieldNames DEF Fail
<1> HIDE DEF g
<1>2. Leaving(g)
  BY <1>1, SettledAlike, SettledLeaves
<1> QED BY <1>1, <1>2 DEF CacheNext, g

LEMMA StopsNext ==
    ASSUME NEW f, DOMAIN f = Fields, f.result = "OK", Settled(f)
    PROVE  CacheNext(Stop(f))
<1> DEFINE g == Stop(f)
<1>1. /\ g.req = f.req /\ g.entrypath = f.entrypath /\ g.prevpath = f.prevpath
      /\ g.transfertype = f.transfertype /\ g.result = "OK" /\ g.state = "STOP"
  BY FieldNames DEF Stop
<1> HIDE DEF g
<1>2. Settled(g)
  BY <1>1, SettledAlike
<1> QED BY <1>1, <1>2 DEF CacheNext, g

-----------------------------------------------------------------------------
(* From the directory to the data connection.                                *)

LEMMA CommandsFit ==
    /\ Fitting("QUOTE", "QUOTE") /\ Fitting("QUOTE", "RETR_PREQUOTE")
    /\ Fitting("QUOTE", "STOR_PREQUOTE") /\ Fitting("QUOTE", "STOP")
    /\ Fitting("CWD", "CWD") /\ Fitting("MKD", "MKD") /\ Fitting("MDTM", "MDTM")
    /\ Fitting("SIZE", "SIZE") /\ Fitting("SIZE", "RETR_SIZE") /\ Fitting("SIZE", "STOR_SIZE")
    /\ Fitting("REST", "REST") /\ Fitting("REST", "RETR_REST") /\ Fitting("PRET", "PRET")
    /\ Fitting("EPSV", "PASV") /\ Fitting("PASV", "PASV")
    /\ Fitting("EPRT", "PORT") /\ Fitting("PORT", "PORT")
    /\ Fitting("RETR", "RETR") /\ Fitting("LIST", "LIST")
    /\ Fitting("STOR", "STOR") /\ Fitting("APPE", "STOR")
    /\ \A state \in TypeState : Fitting("TYPE", state)
BY DEF Fitting, TypeState, WayState, EarlyState, NameState, LateState

Going(f) == DOMAIN f = Fields /\ f.out = <<>> /\ f.result = "OK" /\ Settled(f)
\* The same, before the data connection.
GoingFirst(f) == Going(f) /\ f.phase = "doing"

LEMMA GoingSets ==
    ASSUME NEW f, GoingFirst(f), NEW v
    PROVE  /\ GoingFirst([f EXCEPT !.count1 = v]) /\ GoingFirst([f EXCEPT !.count2 = v])
           /\ GoingFirst([f EXCEPT !.state = v]) /\ GoingFirst([f EXCEPT !.transfer = v])
           /\ GoingFirst([f EXCEPT !.eprt = v]) /\ GoingFirst([f EXCEPT !.cwdcount = v])
           /\ [f EXCEPT !.count1 = v].transfer = f.transfer
           /\ [f EXCEPT !.state = v].transfer = f.transfer
BY FieldNames DEF GoingFirst, Going, Settled, InPlace, Recalls, TypeKnown

LEMMA AsksNext ==
    ASSUME NEW f, GoingFirst(f), NEW verb, NEW arg,
           NEW state \in {"RETR_PREQUOTE", "MDTM", "SIZE", "REST", "PRET", "PASV", "PORT"},
           Fitting(verb, state), state = "REST" => arg = 0
    PROVE  CacheNext(Send(f, verb, arg, state))
<1>1. state \notin WayState \cup {"RETR", "STOP"} \cup ListState \cup TypeState \cup {"RETR_REST"}
  BY DEF WayState, ListState, TypeState
<1> QED BY <1>1, SaysNext DEF GoingFirst, Going

LEMMA UsePasvNext ==
    ASSUME NEW f, GoingFirst(f)
    PROVE  CacheNext(ftp_state_use_pasv(f))
BY GoingSets, AsksNext, CommandsFit DEF ftp_state_use_pasv

LEMMA UsePortNext ==
    ASSUME NEW f, GoingFirst(f), NEW fcmd
    PROVE  CacheNext(ftp_state_use_port(f, fcmd))
<1> DEFINE sent == IF f.eprt THEN fcmd ELSE 1
           g == [f EXCEPT !.count1 = sent, !.second = "listen"]
<1>1. GoingFirst(g)
  BY FieldNames DEF GoingFirst, Going, Settled, InPlace, Recalls, TypeKnown
<1>2. ftp_state_use_port(f, fcmd) = Send(g, IF sent = 0 THEN "EPRT" ELSE "PORT", None, "PORT")
  BY DEF ftp_state_use_port
<1> HIDE DEF g, sent
<1>3. CASE sent = 0
  BY <1>1, <1>2, <1>3, AsksNext, CommandsFit
<1>4. CASE sent # 0
  BY <1>1, <1>2, <1>4, AsksNext, CommandsFit
<1> QED BY <1>3, <1>4

\* An item of a list of commands before the transfer.
LEMMA ItemNext ==
    ASSUME NEW f, Going(f), f.phase \in {"doing", "more"},
           f.phase = "more" => f.transfertype = TypeOf(f.req.ascii),
           NEW state \in {"RETR_PREQUOTE", "STOR_PREQUOTE"}, NEW init
    PROVE  CacheNext(SendItem(f, init, state))
<1>1. PICK i, m : SendItem(f, init, state) =
                    Send([f EXCEPT !.count1 = i, !.count2 = m], "QUOTE", None, state)
  BY DEF SendItem
<1> DEFINE g == [f EXCEPT !.count1 = i, !.count2 = m]
<1>2. /\ DOMAIN g = Fields /\ g.out = <<>> /\ g.result = "OK" /\ g.phase = f.phase
      /\ g.req = f.req /\ g.entrypath = f.entrypath /\ g.prevpath = f.prevpath
      /\ g.transfertype = f.transfertype
  BY FieldNames DEF Going
<1>3. SendItem(f, init, state) = Send(g, "QUOTE", None, state)
  BY <1>1
<1> HIDE DEF g
<1>4. Settled(g)
  BY <1>2, SettledAlike DEF Going
<1>5. /\ state \notin WayState \cup {"RETR", "STOP", "REST", "RETR_REST"} \cup ListState \cup TypeState
      /\ Fitting("QUOTE", state)
  BY CommandsFit DEF WayState, ListState, TypeState
<1> QED BY <1>2, <1>3, <1>4, <1>5, SaysNext

LEMMA AskPrequoteNext ==
    ASSUME NEW f, GoingFirst(f), f.transfer # "BODY", NEW init
    PROVE  CacheNext(RetrPrequote(f, init))
<1>1. CASE MoreItems(f, init, "RETR_PREQUOTE")
  <2>1. RetrPrequote(f, init) = SendItem(f, init, "RETR_PREQUOTE")
    BY <1>1 DEF RetrPrequote
  <2> QED BY <2>1, ItemNext DEF GoingFirst
<1>2. CASE ~MoreItems(f, init, "RETR_PREQUOTE")
  <2> DEFINE g == [f EXCEPT !.count1 = NextItem(f, init)]
  <2>1. GoingFirst(g) /\ g.transfer = f.transfer
    BY GoingSets
  <2>2. RetrPrequote(f, init) = IF g.transfer # "BODY" THEN Stop(g) ELSE RetrPrequote(f, init)
    BY <1>2, <2>1 DEF RetrPrequote
  <2> HIDE DEF g
  <2> QED BY <2>1, <2>2, StopsNext DEF GoingFirst, Going
<1> QED BY <1>1, <1>2

LEMMA PrepareNext ==
    ASSUME NEW f, GoingFirst(f)
    PROVE  CacheNext(ftp_state_prepare_transfer(f))
<1>1. CASE f.transfer # "BODY"
  BY <1>1, GoingSets, AskPrequoteNext DEF ftp_state_prepare_transfer
<1>2. CASE f.transfer = "BODY"
  BY <1>2, UsePortNext, UsePasvNext, AsksNext, CommandsFit DEF ftp_state_prepare_transfer
<1> QED BY <1>1, <1>2

LEMMA RestNext ==
    ASSUME NEW f, GoingFirst(f)
    PROVE  CacheNext(ftp_state_rest(f))
BY PrepareNext, AsksNext, CommandsFit DEF ftp_state_rest

LEMMA SizeNext ==
    ASSUME NEW f, GoingFirst(f)
    PROVE  CacheNext(ftp_state_size(f))
BY RestNext, AsksNext, CommandsFit DEF ftp_state_size

\* TYPE is sent, and may be left out the next time.
LEMMA TypeNext ==
    ASSUME NEW f, Going(f), f.phase \in {"doing", "more"}, NEW ascii, NEW state \in TypeState,
           state = "LIST_TYPE" => ascii,
           f.phase = "more" /\ state # "LIST_TYPE" => ascii = f.req.ascii
    PROVE  CacheNext(Send([f EXCEPT !.transfertype = TypeOf(ascii)], "TYPE", TypeOf(ascii), state))
<1> DEFINE k == [f EXCEPT !.transfertype = TypeOf(ascii)]
           g == Send(k, "TYPE", TypeOf(ascii), state)
           c == [verb |-> "TYPE", arg |-> TypeOf(ascii)]
<1>1. /\ DOMAIN k = Fields /\ k.out = <<>> /\ k.result = "OK" /\ k.phase = f.phase
      /\ k.req = f.req /\ k.entrypath = f.entrypath /\ k.prevpath = f.prevpath
      /\ k.transfertype = TypeOf(ascii)
  BY FieldNames DEF Going
<1> HIDE DEF k
<1>2. Alike(g, k) /\ g.state = state /\ g.result = "OK" /\ g.out = <<c>>
  BY <1>1, Sent
<1> HIDE DEF g
<1>3. state \notin WayState \cup {"STOP", "RETR", "RETR_REST", "LIST"}
  BY DEF WayState, TypeState
<1>4. PathKept(g, 0)
  BY <1>1, <1>2, <1>3 DEF PathKept, Going, Settled, Alike, InPlace, Recalls
<1>5. TypeKept(g, 0)
  <2>1. state \in ListState => state = "LIST_TYPE"
    BY <1>3 DEF ListState
  <2>2. "LIST_TYPE" \notin StorState \cup RetrState
    BY DEF StorState, RetrState, SizeState
  <2>3. ascii => TypeOf(ascii) = "A"
    BY DEF TypeOf
  <2> QED BY <1>1, <1>2, <2>1, <2>2, <2>3 DEF TypeKept, Alike
<1>6. RestKept(g, 0)
  BY <1>2, <1>3 DEF RestKept, Going, Settled
<1>7. Kept(g, 0)
  BY <1>1, <1>2, <1>4, <1>5, <1>6 DEF Kept, Alike
<1>8. Command(c, g)
  <2>1. c.verb = "TYPE" /\ c.arg = TypeOf(ascii)
    OBVIOUS
  <2>2. Fitting("TYPE", state)
    BY CommandsFit
  <2> HIDE DEF c
  <2> QED BY <1>1, <1>2, <2>1, <2>2 DEF Command, Alike
<1>9. \A d : g.out = <<d>> => Command(d, g)
  <2> HIDE DEF c
  <2> QED BY <1>2, <1>8
<1> QED BY <1>2, <1>3, <1>7, <1>9 DEF CacheNext, Onward, g, k

LEMMA StateTypeNext ==
    ASSUME NEW f, GoingFirst(f)
    PROVE  CacheNext(ftp_state_type(f))
<1> DEFINE g == [f EXCEPT !.transfer = "INFO"]
           k == [g EXCEPT !.state = "TYPE"]
<1>1. CASE ~(f.req.kind = "head" /\ f.req.file /\ f.transfertype # TypeOf(f.req.ascii))
  BY <1>1, SizeNext DEF ftp_state_type
<1>2. CASE f.req.kind = "head" /\ f.req.file /\ f.transfertype # TypeOf(f.req.ascii)
  <2>1. GoingFirst(g) /\ GoingFirst(k)
    BY GoingSets
  <2>2. ftp_state_type(f) = ftp_nb_type(g, f.req.ascii, "TYPE")
    BY <1>2 DEF ftp_state_type
  <2>3. CASE g.transfertype = TypeOf(f.req.ascii)
    <3>1. ftp_state_type(f) = ftp_state_size(k)
      BY <2>2, <2>3 DEF ftp_nb_type, ftp_state_type_resp
    <3> HIDE DEF k
    <3> QED BY <2>1, <3>1, SizeNext
  <2>4. CASE g.transfertype # TypeOf(f.req.ascii)
    <3>1. ftp_state_type(f) =
            Send([g EXCEPT !.transfertype = TypeOf(f.req.ascii)], "TYPE", TypeOf(f.req.ascii), "TYPE")
      BY <2>2, <2>4 DEF ftp_nb_type
    <3> HIDE DEF g
    <3> QED BY <2>1, <3>1, TypeNext DEF GoingFirst, TypeState
  <2> QED BY <2>3, <2>4
<1> QED BY <1>1, <1>2

LEMMA MdtmNext ==
    ASSUME NEW f, GoingFirst(f)
    PROVE  CacheNext(ftp_state_mdtm(f))
BY StateTypeNext, AsksNext, CommandsFit DEF ftp_state_mdtm

-----------------------------------------------------------------------------
(* On the way to the directory.                                              *)

\* A transfer has begun.
Under(f) ==
    /\ DOMAIN f = Fields /\ f.out = <<>> /\ f.result = "OK" /\ f.phase = "doing"
    /\ f.req \in Request /\ f.entrypath /\ (FullPath(f.req) => Recalls(f))
    /\ TypeKnown(f) /\ srv.rest = 0

\* The client knows whether it is where it wants to be.
Knows(f) == IF f.cwddone THEN InPlace(f) ELSE ~FullPath(f.req) /\ (f.reuse \/ srv.cwd = Entry)

LEMMA UnderSets ==
    ASSUME NEW f, Under(f), NEW g, DOMAIN g = Fields, g.out = <<>>, g.result = "OK",
           g.phase = "doing", g.req = f.req, g.entrypath = f.entrypath, g.prevpath = f.prevpath,
           g.transfertype = f.transfertype
    PROVE  Under(g)
BY DEF Under, Recalls, TypeKnown

LEMMA UnderGoing ==
    ASSUME NEW f, Under(f), InPlace(f)
    PROVE  GoingFirst(f)
BY DEF Under, GoingFirst, Going, Settled

\* A command that is one of the way.
LEMMA WayNext ==
    ASSUME NEW f, Under(f), NEW verb, NEW arg, NEW state \in WayState, Fitting(verb, state),
           verb = "CWD" => arg = IF f.cwdcount = 0 THEN HomeItem ELSE CwdItem(f),
           OnTheWay([f EXCEPT !.state = state], 0)
    PROVE  CacheNext(Send(f, verb, arg, state))
<1> DEFINE g == Send(f, verb, arg, state)
           k == [f EXCEPT !.state = state]
           c == [verb |-> verb, arg |-> arg]
<1>1. Alike(g, f) /\ g.state = state /\ g.result = "OK" /\ g.out = <<c>>
  BY Sent DEF Under
<1>2. /\ k.state = state /\ k.req = f.req /\ k.reuse = f.reuse /\ k.cwddone = f.cwddone
      /\ k.cwdcount = f.cwdcount /\ k.count3 = f.count3
  BY FieldNames DEF Under
<1> HIDE DEF g, k
<1>3. OnTheWay(k, 0)
  BY DEF k
<1>4. OnTheWay(g, 0)
  <2>1. InPlace(g) = InPlace(k) /\ Before(g) = Before(k)
    BY <1>1, <1>2 DEF Alike, InPlace, Before, CwdItem
  <2> QED BY <1>1, <1>2, <1>3, <2>1 DEF OnTheWay, Alike
<1>5. PathKept(g, 0)
  BY <1>1, <1>4 DEF PathKept, Under, Alike, Recalls
<1>6. /\ state \notin TypeState \cup ListState \cup StorState \cup RetrState
      /\ state \notin {"STOP", "RETR_REST", "RETR", "REST"}
  BY DEF WayState, TypeState, ListState, StorState, RetrState, SizeState
<1>7. TypeKept(g, 0) /\ RestKept(g, 0)
  BY <1>1, <1>6 DEF TypeKept, RestKept, Under, Alike, TypeKnown
<1>8. Command(c, g)
  <2>1. c.verb = verb /\ c.arg = arg
    OBVIOUS
  <2>2. verb \notin {"TYPE", "REST"}
    BY <1>6 DEF Fitting
  <2>3. CwdItem(g) = CwdItem(f) /\ g.cwdcount = f.cwdcount
    BY <1>1 DEF CwdItem, Alike
  <2> HIDE DEF c
  <2> QED BY <1>1, <2>1, <2>2, <2>3 DEF Command
<1>9. \A d : g.out = <<d>> => Command(d, g)
  <2> HIDE DEF c
  <2> QED BY <1>1, <1>8
<1> QED BY <1>1, <1>5, <1>6, <1>7, <1>9 DEF CacheNext, Onward, Kept, Under, Alike, g

\* One item of the path is entered, or where the connection began.
LEMMA CwdSent ==
    ASSUME NEW f, Under(f), ~FullPath(f.req), NEW arg,
           (f.cwdcount = 0 /\ arg = HomeItem) \/ (Before(f) /\ arg = CwdItem(f))
    PROVE  CacheNext(Send(f, "CWD", arg, "CWD"))
<1> DEFINE k == [f EXCEPT !.state = "CWD"]
<1>1. k.state = "CWD" /\ k.req = f.req /\ k.cwdcount = f.cwdcount
  BY FieldNames DEF Under
<1> HIDE DEF k
<1>2. 0 \div 100 # 2
  OBVIOUS
<1>3. k.cwdcount = 0 \/ Before(k)
  BY <1>1 DEF Before, CwdItem
<1>4. OnTheWay(k, 0)
  BY <1>1, <1>2, <1>3 DEF OnTheWay
<1>5. Before(f) => f.cwdcount # 0
  <2>1. Len(DirItems(f.req)) \in Nat
    BY ItemCount DEF Under
  <2> QED BY <2>1 DEF Before
<1>6. arg = IF f.cwdcount = 0 THEN HomeItem ELSE CwdItem(f)
  BY <1>5
<1> QED BY <1>4, <1>6, WayNext, CommandsFit DEF k, WayState

LEMMA CwdNext ==
    ASSUME NEW f, Under(f), Knows(f)
    PROVE  CacheNext(ftp_state_cwd(f))
<1> DEFINE dirs == DirItems(f.req)
           g == [f EXCEPT !.count2 = 0]
           h == [g EXCEPT !.cwdcount = 0]
           k == [g EXCEPT !.cwdcount = 1]
<1>0. Len(dirs) \in Nat /\ (dirs = <<>> <=> Len(dirs) = 0)
  BY ItemCount DEF Under
<1>1. CASE f.cwddone
  BY <1>1, UnderGoing, MdtmNext DEF Knows, ftp_state_cwd
<1>2. CASE ~f.cwddone
  <2>1. ~FullPath(f.req) /\ (f.reuse \/ srv.cwd = Entry) /\ f.entrypath
    BY <1>2 DEF Knows, Under
  <2>2. Under(g) /\ g.req = f.req
    BY UnderSets, FieldNames DEF Under
  <2>3. Under(h) /\ h.req = f.req /\ h.cwdcount = 0
    BY UnderSets, FieldNames DEF Under
  <2>4. Under(k) /\ k.req = f.req /\ k.cwdcount = 1
    BY UnderSets, FieldNames DEF Under
  <2>5. CASE f.reuse /\ ~(dirs # <<>> /\ dirs[1].abs)
    <3>1. ftp_state_cwd(f) = Send(h, "CWD", HomeItem, "CWD")
      BY <1>2, <2>1, <2>5 DEF ftp_state_cwd
    <3> HIDE DEF h, dirs
    <3>2. ~FullPath(h.req)
      BY <2>1, <2>3
    <3> QED BY <2>3, <3>1, <3>2, CwdSent
  <2>6. CASE ~(f.reuse /\ ~(dirs # <<>> /\ dirs[1].abs)) /\ dirs # <<>>
    <3>1. ftp_state_cwd(f) = Send(k, "CWD", dirs[1], "CWD")
      BY <1>2, <2>1, <2>6 DEF ftp_state_cwd
    <3>2. CwdItem(k) = dirs[1]
      BY <2>4 DEF CwdItem
    <3>3. Before(k)
      <4>1. 1 \in 1 .. Len(dirs)
        BY <1>0, <2>6
      <4>2. dirs[1].abs \/ srv.cwd = Reached(f.req, 0)
        BY <2>1, <2>6, HomeReached
      <4> QED BY <2>4, <3>2, <4>1, <4>2 DEF Before
    <3> HIDE DEF k, dirs
    <3> QED BY <2>1, <2>4, <3>1, <3>2, <3>3, CwdSent
  <2>7. CASE ~f.reuse /\ dirs = <<>>
    <3>1. ftp_state_cwd(f) = ftp_state_mdtm(g)
      BY <1>2, <2>7 DEF ftp_state_cwd
    <3>2. Wanted(f.req) = Entry
      BY <1>0, <2>7, ReachedAll, HomeReached DEF Under
    <3>3. InPlace(g)
      BY <2>1, <2>2, <2>7, <3>2 DEF InPlace
    <3> HIDE DEF g
    <3> QED BY <2>2, <3>1, <3>3, UnderGoing, MdtmNext
  <2> QED BY <2>5, <2>6, <2>7
<1> QED BY <1>1, <1>2

LEMMA QuoteNext ==
    ASSUME NEW f, Under(f), Knows(f), NEW init
    PROVE  CacheNext(Quote(f, init))
<1>1. CASE MoreItems(f, init, "QUOTE")
  <2>1. PICK i, m : SendItem(f, init, "QUOTE") =
                      Send([f EXCEPT !.count1 = i, !.count2 = m], "QUOTE", None, "QUOTE")
    BY DEF SendItem
  <2> DEFINE g == [f EXCEPT !.count1 = i, !.count2 = m]
             k == [g EXCEPT !.state = "QUOTE"]
  <2>2. /\ DOMAIN g = Fields /\ g.out = <<>> /\ g.result = "OK" /\ g.phase = "doing"
        /\ g.req = f.req /\ g.entrypath = f.entrypath /\ g.prevpath = f.prevpath
        /\ g.transfertype = f.transfertype /\ g.cwddone = f.cwddone /\ g.reuse = f.reuse
    BY FieldNames DEF Under
  <2>3. Quote(f, init) = Send(g, "QUOTE", None, "QUOTE")
    BY <1>1, <2>1 DEF Quote
  <2> HIDE DEF g
  <2>4. Under(g)
    BY <2>2, UnderSets
  <2>5. k.state = "QUOTE" /\ k.req = f.req /\ k.cwddone = f.cwddone /\ k.reuse = f.reuse
    BY <2>2, FieldNames
  <2> HIDE DEF k
  <2>6. OnTheWay(k, 0)
    BY <2>5 DEF OnTheWay, Knows, InPlace
  <2> QED BY <2>3, <2>4, <2>6, WayNext, CommandsFit DEF k, WayState
<1>2. CASE ~MoreItems(f, init, "QUOTE")
  <2> DEFINE g == [f EXCEPT !.count1 = NextItem(f, init)]
  <2>1. Quote(f, init) = ftp_state_cwd(g)
    BY <1>2 DEF Quote
  <2>2. Under(g) /\ Knows(g)
    <3>1. /\ DOMAIN g = Fields /\ g.out = <<>> /\ g.result = "OK" /\ g.phase = "doing"
          /\ g.req = f.req /\ g.entrypath = f.entrypath /\ g.prevpath = f.prevpath
          /\ g.transfertype = f.transfertype /\ g.cwddone = f.cwddone /\ g.reuse = f.reuse
      BY FieldNames DEF Under
    <3> HIDE DEF g
    <3> QED BY <3>1, UnderSets DEF Knows, InPlace
  <2> HIDE DEF g
  <2> QED BY <2>1, <2>2, CwdNext
<1> QED BY <1>1, <1>2

\* A request begins: what an earlier one has left is compared with what it wants.
LEMMA DoNext ==
    ASSUME Followed, NEW f, DOMAIN f = Fields, f.out = <<>>, f.result = "OK", f.entrypath,
           f.req \in Requests, f.req \in Request, Recalls(f), TypeKnown(f), srv.rest = 0,
           f.reuse \/ srv.cwd = Entry
    PROVE  CacheNext(ftp_do(f))
<1> DEFINE p == ftp_parse_url_path(f)
           old == IF f.reuse THEN f.prevpath ELSE HomeKey
           t == IF f.req.kind = "head" THEN "INFO" ELSE p.transfer
           g == [p EXCEPT !.wait = FALSE, !.ctl_valid = TRUE, !.size = -1, !.phase = "doing",
                          !.transfer = t]
<1>1. ftp_do(f) = Quote(g, TRUE)
  BY DEF ftp_do
<1>2. /\ DOMAIN p = Fields /\ p.out = <<>> /\ p.result = "OK" /\ p.req = f.req
      /\ p.entrypath = f.entrypath /\ p.prevpath = f.prevpath
      /\ p.transfertype = f.transfertype /\ p.reuse = f.reuse
      /\ p.cwddone = (FullPath(f.req) \/ old = PathKey(f.req))
  BY FieldNames DEF ftp_parse_url_path
<1> HIDE DEF p, t
<1>3. /\ DOMAIN g = Fields /\ g.out = <<>> /\ g.result = "OK" /\ g.phase = "doing"
      /\ g.req = f.req /\ g.entrypath = f.entrypath /\ g.prevpath = f.prevpath
      /\ g.transfertype = f.transfertype /\ g.reuse = f.reuse
      /\ g.cwddone = (FullPath(f.req) \/ old = PathKey(f.req))
  BY <1>2, FieldNames
<1> HIDE DEF g
<1>4. Under(g)
  BY <1>3 DEF Under, Recalls, TypeKnown
<1>5. Knows(g)
  <2>1. CASE FullPath(f.req)
    BY <1>3, <2>1 DEF Knows, InPlace
  <2>2. CASE ~FullPath(f.req) /\ old = PathKey(f.req)
    <3>1. srv.cwd = Wanted(f.req)
      <4>1. CASE f.reuse
        <5>1. f.prevpath # NoKey
          BY <2>2, <4>1 DEF Followed
        <5> QED BY <2>2, <4>1, <5>1, KeyWanted DEF Recalls
      <4>2. CASE ~f.reuse
        BY <2>2, <4>2, KeyWanted
      <4> QED BY <4>1, <4>2
    <3> QED BY <1>3, <2>2, <3>1 DEF Knows, InPlace
  <2>3. CASE ~FullPath(f.req) /\ old # PathKey(f.req)
    BY <1>3, <2>3 DEF Knows
  <2> QED BY <2>1, <2>2, <2>3
<1> QED BY <1>1, <1>4, <1>5, QuoteNext

\* CWD is answered: the next item, the directory has to be made, or it is not there.
LEMMA CwdRespNext ==
    ASSUME NEW f, Under(f), f.state = "CWD", NEW code, OnTheWay(f, code),
           f.req.create # 1
    PROVE  CacheNext(CwdResp(f, code))
<1>0. Len(DirItems(f.req)) \in Nat
  BY ItemCount DEF Under
<1>1. ~FullPath(f.req)
  BY DEF OnTheWay, WayState
<1>2. CASE code \div 100 = 2
  <2> DEFINE g == [f EXCEPT !.count2 = 0, !.cwdcount = @ + 1]
  <2>1. f.cwdcount \in 0 .. Len(DirItems(f.req)) /\ srv.cwd = Reached(f.req, f.cwdcount)
    BY <1>2 DEF OnTheWay
  <2>2. /\ DOMAIN g = Fields /\ g.out = <<>> /\ g.result = "OK" /\ g.phase = "doing"
        /\ g.req = f.req /\ g.entrypath = f.entrypath /\ g.prevpath = f.prevpath
        /\ g.transfertype = f.transfertype /\ g.cwdcount = f.cwdcount + 1
    BY FieldNames DEF Under
  <2>3. CwdResp(f, code) = IF g.cwdcount <= Len(DirItems(f.req))
                           THEN Send(g, "CWD", CwdItem(g), "CWD") ELSE ftp_state_mdtm(g)
    BY <1>2 DEF CwdResp
  <2> HIDE DEF g
  <2>4. Under(g)
    BY <2>2, UnderSets
  <2>5. CASE g.cwdcount <= Len(DirItems(f.req))
    <3>1. g.cwdcount \in 1 .. Len(DirItems(f.req)) /\ g.cwdcount - 1 = f.cwdcount
      BY <1>0, <2>1, <2>2, <2>5
    <3>2. Before(g)
      BY <2>1, <2>2, <3>1 DEF Before
    <3> QED BY <1>1, <2>2, <2>3, <2>4, <2>5, <3>2, CwdSent
  <2>6. CASE ~(g.cwdcount <= Len(DirItems(f.req)))
    <3>1. f.cwdcount = Len(DirItems(f.req))
      BY <1>0, <2>1, <2>2, <2>6
    <3>2. InPlace(g)
      BY <2>1, <2>2, <3>1, ReachedAll DEF InPlace, Under
    <3> QED BY <2>3, <2>4, <2>6, <3>2, UnderGoing, MdtmNext
  <2> QED BY <2>5, <2>6
<1>3. CASE code \div 100 # 2 /\ f.req.create # 0 /\ f.cwdcount # 0 /\ f.count2 = 0
  <2> DEFINE g == [f EXCEPT !.count2 = 1, !.count3 = 1]
             k == [g EXCEPT !.state = "MKD"]
  <2>1. f.req.create = 2
    BY <1>3, Parts DEF Under
  <2>2. CwdResp(f, code) = Send(g, "MKD", CwdItem(f), "MKD")
    BY <1>3, <2>1 DEF CwdResp
  <2>3. /\ DOMAIN g = Fields /\ g.out = <<>> /\ g.result = "OK" /\ g.phase = "doing"
        /\ g.req = f.req /\ g.entrypath = f.entrypath /\ g.prevpath = f.prevpath
        /\ g.transfertype = f.transfertype /\ g.cwdcount = f.cwdcount /\ g.count3 = 1
    BY FieldNames DEF Under
  <2> HIDE DEF g
  <2>4. Under(g)
    BY <2>3, UnderSets
  <2>5. k.state = "MKD" /\ k.req = f.req /\ k.cwdcount = f.cwdcount /\ k.count3 = 1
    BY <2>3, FieldNames
  <2>6. Before(f)
    BY <1>3 DEF OnTheWay
  <2> HIDE DEF k
  <2>7. OnTheWay(k, 0)
    BY <1>1, <2>5, <2>6 DEF OnTheWay, Before, CwdItem
  <2> QED BY <2>2, <2>4, <2>7, WayNext, CommandsFit DEF k, WayState
<1>4. CASE code \div 100 # 2 /\ ~(f.req.create # 0 /\ f.cwdcount # 0 /\ f.count2 = 0)
  <2> DEFINE g == Fail([f EXCEPT !.cwdfail = TRUE], "REMOTE_ACCESS_DENIED")
  <2>1. CwdResp(f, code) = g
    BY <1>4 DEF CwdResp
  <2>2. /\ g.result # "OK" /\ g.cwdfail /\ g.req = f.req /\ g.entrypath = f.entrypath
        /\ g.prevpath = f.prevpath /\ g.transfertype = f.transfertype
    BY FieldNames DEF Under, Fail
  <2> HIDE DEF g
  <2> QED BY <2>1, <2>2 DEF CacheNext, Leaving, Under, Recalls, TypeKnown
<1> QED BY <1>2, <1>3, <1>4

\* MKD is answered: the item is entered, whatever the answer.
LEMMA MkdRespNext ==
    ASSUME NEW f, Under(f), f.state = "MKD", NEW code, OnTheWay(f, code)
    PROVE  CacheNext(MkdResp(f, code))
<1> DEFINE n == IF code \div 100 = 2 THEN f.count3 ELSE f.count3 - 1
           g == [f EXCEPT !.count3 = n]
<1>1. ~FullPath(f.req) /\ Before(f) /\ f.count3 = 1
  BY DEF OnTheWay
<1>2. MkdResp(f, code) = Send(g, "CWD", CwdItem(f), "CWD")
  BY <1>1 DEF MkdResp
<1>3. /\ DOMAIN g = Fields /\ g.out = <<>> /\ g.result = "OK" /\ g.phase = "doing"
      /\ g.req = f.req /\ g.entrypath = f.entrypath /\ g.prevpath = f.prevpath
      /\ g.transfertype = f.transfertype /\ g.cwdcount = f.cwdcount
  BY FieldNames DEF Under
<1> HIDE DEF g
<1>4. Under(g)
  BY <1>3, UnderSets
<1>5. Before(g) /\ CwdItem(g) = CwdItem(f)
  BY <1>1, <1>3 DEF Before, CwdItem
<1> QED BY <1>1, <1>2, <1>3, <1>4, <1>5, CwdSent

-----------------------------------------------------------------------------
(* Answers before there is a data connection.                                *)

\* A connection that is closed remembers nothing.
LEMMA BadNext ==
    ASSUME NEW f, DOMAIN f = Fields, NEW result, result \notin Harmless
    PROVE  CacheNext(Fail(f, result))
<1>1. Fail(f, result).result = result
  BY FieldNames DEF Fail
<1> QED BY <1>1 DEF CacheNext, Harmless

\* PASV takes the place of EPSV.
LEMMA EpsvNext ==
    ASSUME NEW f, Going(f)
    PROVE  LET g == ftp_epsv_disable(f)
           IN  /\ f.phase = "doing" => CacheNext(g)
               /\ CacheNext([g EXCEPT !.phase = "doing"])
<1> DEFINE e == [f EXCEPT !.epsv = FALSE, !.second = "none", !.count1 = @ + 1]
           k == [e EXCEPT !.phase = "doing"]
           g == ftp_epsv_disable(f)
           h == [g EXCEPT !.phase = "doing"]
           c == [verb |-> "PASV", arg |-> None]
<1>1. /\ DOMAIN e = Fields /\ e.out = <<>> /\ e.result = "OK" /\ e.req = f.req
      /\ e.entrypath = f.entrypath /\ e.prevpath = f.prevpath
      /\ e.transfertype = f.transfertype /\ e.phase = f.phase
  BY FieldNames DEF Going
<1>2. g = Send(e, "PASV", None, "PASV")
  BY DEF ftp_epsv_disable
<1> HIDE DEF e, g
<1>3. /\ DOMAIN k = Fields /\ k.out = <<>> /\ k.result = "OK" /\ k.req = f.req
      /\ k.entrypath = f.entrypath /\ k.prevpath = f.prevpath
      /\ k.transfertype = f.transfertype /\ k.phase = "doing"
  BY <1>1, FieldNames
<1>4. GoingFirst(k)
  BY <1>3, SettledAlike DEF GoingFirst, Going
<1>5. h = Send(k, "PASV", None, "PASV")
  BY <1>1, <1>2, FieldNames DEF Send
<1> HIDE DEF k, h
<1>6. CacheNext(h)
  BY <1>4, <1>5, AsksNext, CommandsFit
<1>7. ASSUME f.phase = "doing" PROVE CacheNext(g)
  <2>1. GoingFirst(e)
    BY <1>1, <1>7, SettledAlike DEF GoingFirst, Going
  <2> QED BY <1>2, <2>1, AsksNext, CommandsFit
<1> QED BY <1>6, <1>7 DEF h, g

LEMMA PasvRespNext ==
    ASSUME NEW f, GoingFirst(f), NEW code
    PROVE  CacheNext(ftp_state_pasv_resp(f, code))
<1> DEFINE g == [f EXCEPT !.second = "connecting", !.do_more = TRUE]
<1>1. Going(g)
  <2>1. /\ DOMAIN g = Fields /\ g.out = <<>> /\ g.result = "OK" /\ g.req = f.req
        /\ g.entrypath = f.entrypath /\ g.prevpath = f.prevpath
        /\ g.transfertype = f.transfertype
    BY FieldNames DEF GoingFirst, Going
  <2> HIDE DEF g
  <2> QED BY <2>1, SettledAlike DEF GoingFirst, Going
<1>2. CacheNext(Stop(g))
  <2> HIDE DEF g
  <2> QED BY <1>1, StopsNext DEF Going
<1>3. CacheNext(Fail(f, "FTP_WEIRD_PASV_REPLY")) /\ CacheNext(ftp_epsv_disable(f))
  BY FailsNext, EpsvNext DEF GoingFirst, Going
<1> HIDE DEF g
<1> QED BY <1>2, <1>3 DEF ftp_state_pasv_resp, g

LEMMA PortRespNext ==
    ASSUME NEW f, GoingFirst(f), NEW code
    PROVE  CacheNext(ftp_state_port_resp(f, code))
<1> DEFINE g == [f EXCEPT !.eprt = @ /\ f.count1 # 0]
<1>1. GoingFirst(g)
  BY GoingSets
<1>2. \/ ftp_state_port_resp(f, code) = Stop(f)
      \/ ftp_state_port_resp(f, code) = Fail(g, "FTP_PORT_FAILED")
      \/ ftp_state_port_resp(f, code) = ftp_state_use_port(g, 1)
  BY DEF ftp_state_port_resp
<1> HIDE DEF g
<1> QED BY <1>1, <1>2, StopsNext, FailsNext, UsePortNext DEF GoingFirst, Going

\* What the answer to a command of a transfer finds.
LEMMA AnswerFinds ==
    ASSUME FtpAssumption, NEW f, Held(f), Ready(f), f.phase \in {"doing", "more"},
           NEW code, code # 0, Kept(f, code)
    PROVE  /\ f.req \in Request /\ TypeKnown(f)
           /\ f.state \notin WayState => InPlace(f) /\ (f.state # "RETR_REST" => Going(f))
           /\ f.phase = "doing" /\ f.state # "RETR_REST" => Under(f)
           /\ f.state \in WayState => OnTheWay(f, code)
<1>1. f.req \in Request /\ DOMAIN f = Fields /\ f.out = <<>> /\ f.result = "OK"
  BY DEF FtpAssumption, Held, Ready
<1>2. /\ f.entrypath /\ (FullPath(f.req) => Recalls(f))
      /\ IF f.state \in WayState THEN OnTheWay(f, code) ELSE InPlace(f)
  BY DEF Kept, PathKept
<1>3. TypeKnown(f)
  BY DEF Kept, TypeKept
<1>4. f.state # "RETR_REST" => srv.rest = 0
  BY DEF Kept, RestKept
<1> QED BY <1>1, <1>2, <1>3, <1>4 DEF Going, Settled, Under

LEMMA DoingRespNext ==
    ASSUME FtpAssumption, Followed, NEW f, Doing(f), Ready(f), DoingKept(f),
           NEW r, r.code # 0, Kept(f, r.code)
    PROVE  CacheNext(ftp_statemachine(f, r))
<1>0. Held(f) /\ f.phase = "doing" /\ DOMAIN f = Fields /\ f.state # "RETR_REST"
  BY DEF Doing, Held, DoingKept, AskState, DataState
<1>1. /\ Under(f) /\ (f.state \in WayState => OnTheWay(f, r.code))
      /\ f.state \notin WayState => GoingFirst(f)
  BY <1>0, AnswerFinds DEF GoingFirst
<1>2. {"CWD", "MKD", "QUOTE"} \subseteq WayState
  BY DEF WayState
<1>3. {"RETR_PREQUOTE", "MDTM", "TYPE", "SIZE", "REST", "PRET", "PASV", "PORT"} \cap WayState = {}
  BY DEF WayState
<1>4. {"QUOTE_ERROR", "FTP_PRET_FAILED"} \cap Harmless = {}
  BY DEF Harmless
<1>5. CASE f.state = "QUOTE"
  <2>1. ftp_statemachine(f, r) = QuoteResp(f, r.code)
    BY <1>5 DEF ftp_statemachine
  <2>2. Knows(f)
    BY <1>1, <1>2, <1>5 DEF OnTheWay, Knows
  <2>3. CacheNext(ftp_state_quote(f))
    BY <1>1, <1>5, <2>2, QuoteNext DEF ftp_state_quote
  <2>4. CacheNext(Fail(f, "QUOTE_ERROR"))
    BY <1>0, <1>4, BadNext
  <2> QED BY <2>1, <2>3, <2>4 DEF QuoteResp
<1>6. CASE f.state = "RETR_PREQUOTE"
  <2>1. ftp_statemachine(f, r) = QuoteResp(f, r.code)
    BY <1>6 DEF ftp_statemachine
  <2>2. GoingFirst(f) /\ f.transfer # "BODY"
    BY <1>1, <1>3, <1>6 DEF DoingKept
  <2>3. CacheNext(ftp_state_quote(f))
    BY <1>6, <2>2, AskPrequoteNext DEF ftp_state_quote
  <2>4. CacheNext(Fail(f, "QUOTE_ERROR"))
    BY <1>0, <1>4, BadNext
  <2> QED BY <2>1, <2>3, <2>4 DEF QuoteResp
<1>7. CASE f.state = "CWD"
  <2>1. f.req.create # 1
    BY DEF Doing, Held, Followed
  <2>2. ftp_statemachine(f, r) = CwdResp(f, r.code)
    BY <1>7 DEF ftp_statemachine
  <2> QED BY <1>1, <1>2, <1>7, <2>1, <2>2, CwdRespNext
<1>8. CASE f.state = "MKD"
  <2>1. ftp_statemachine(f, r) = MkdResp(f, r.code)
    BY <1>8 DEF ftp_statemachine
  <2> QED BY <1>1, <1>2, <1>8, <2>1, MkdRespNext
<1>9. CASE f.state = "MDTM"
  <2> DEFINE g == [f EXCEPT !.transfer = "NONE"]
  <2>1. GoingFirst(f) /\ GoingFirst(g)
    BY <1>1, <1>3, <1>9, GoingSets
  <2>2. \/ ftp_statemachine(f, r) = ftp_state_type(f)
        \/ ftp_statemachine(f, r) = Stop(g)
    BY <1>9 DEF ftp_statemachine, ftp_state_mdtm_resp
  <2> HIDE DEF g
  <2> QED BY <2>1, <2>2, StateTypeNext, StopsNext DEF GoingFirst, Going
<1>10. CASE f.state = "TYPE"
  <2>1. GoingFirst(f)
    BY <1>1, <1>3, <1>10
  <2>2. \/ ftp_statemachine(f, r) = ftp_state_size(f)
        \/ ftp_statemachine(f, r) = Fail(f, "FTP_COULDNT_SET_TYPE")
    BY <1>10 DEF ftp_statemachine, ftp_state_type_resp
  <2> QED BY <2>1, <2>2, SizeNext, FailsNext DEF GoingFirst, Going
<1>11. CASE f.state = "SIZE"
  <2>1. GoingFirst(f)
    BY <1>1, <1>3, <1>11
  <2>2. \/ ftp_statemachine(f, r) = ftp_state_rest(f)
        \/ ftp_statemachine(f, r) = Fail(f, "REMOTE_FILE_NOT_FOUND")
    BY <1>11 DEF ftp_statemachine, ftp_state_size_resp
  <2> QED BY <2>1, <2>2, RestNext, FailsNext DEF GoingFirst, Going
<1>12. CASE f.state = "REST"
  <2>1. ftp_statemachine(f, r) = ftp_state_prepare_transfer(f)
    BY <1>12 DEF ftp_statemachine, ftp_state_rest_resp
  <2> QED BY <1>1, <1>3, <1>12, <2>1, PrepareNext
<1>13. CASE f.state = "PRET"
  <2>1. CacheNext(ftp_state_use_pasv(f)) /\ CacheNext(Fail(f, "FTP_PRET_FAILED"))
    BY <1>0, <1>1, <1>3, <1>4, <1>13, UsePasvNext, BadNext
  <2> QED BY <1>13, <2>1 DEF ftp_statemachine
<1>14. CASE f.state = "PASV"
  <2>1. ftp_statemachine(f, r) = ftp_state_pasv_resp(f, r.code)
    BY <1>14 DEF ftp_statemachine
  <2> QED BY <1>1, <1>3, <1>14, <2>1, PasvRespNext
<1>15. CASE f.state = "PORT"
  <2>1. ftp_statemachine(f, r) = ftp_state_port_resp(f, r.code)
    BY <1>15 DEF ftp_statemachine
  <2> QED BY <1>1, <1>3, <1>15, <2>1, PortRespNext
<1> QED BY <1>5, <1>6, <1>7, <1>8, <1>9, <1>10, <1>11, <1>12, <1>13, <1>14, <1>15
        DEF DoingKept, AskState, DataState

-----------------------------------------------------------------------------
(* With a data connection.                                                   *)

GoingMore(f) == Going(f) /\ f.phase = "more"
\* The type is what the request wants.
Typed(f) == GoingMore(f) /\ f.transfertype = TypeOf(f.req.ascii)

LEMMA MoreAlike ==
    ASSUME NEW f, NEW g, GoingMore(f), DOMAIN g = Fields, g.out = <<>>, g.result = "OK",
           g.phase = "more", g.req = f.req, g.entrypath = f.entrypath,
           g.prevpath = f.prevpath, g.transfertype = f.transfertype
    PROVE  GoingMore(g) /\ (Typed(f) => Typed(g))
BY SettledAlike DEF Typed, GoingMore, Going

\* What setting a member leaves as it was.
Carried(g, f) ==
    GoingMore(g) /\ (Typed(f) => Typed(g)) /\ g.req = f.req /\ g.transfertype = f.transfertype

LEMMA TypedSets ==
    ASSUME NEW f, GoingMore(f), NEW v
    PROVE  /\ Carried([f EXCEPT !.count1 = v], f) /\ Carried([f EXCEPT !.state = v], f)
           /\ Carried([f EXCEPT !.resume = v], f) /\ Carried([f EXCEPT !.downloadsize = v], f)
           /\ Carried([f EXCEPT !.infilesize = v], f) /\ Carried([f EXCEPT !.retr_size = v], f)
           /\ Carried([f EXCEPT !.transfer = v], f)
           /\ [f EXCEPT !.count1 = v].resume = f.resume
           /\ [f EXCEPT !.state = v].resume = f.resume
           /\ [f EXCEPT !.downloadsize = v].resume = f.resume
BY FieldNames DEF Carried, GoingMore, Going, Typed, Settled, InPlace, Recalls, TypeKnown

LEMMA TypedStays ==
    ASSUME NEW f, Typed(f), NEW v
    PROVE  /\ Typed([f EXCEPT !.count1 = v]) /\ [f EXCEPT !.count1 = v].resume = f.resume
           /\ [f EXCEPT !.count1 = v].req = f.req
           /\ Typed([f EXCEPT !.downloadsize = v]) /\ [f EXCEPT !.downloadsize = v].resume = f.resume
           /\ Typed([f EXCEPT !.resume = v]) /\ Typed([f EXCEPT !.infilesize = v])
<1>1. GoingMore(f)
  BY DEF Typed
<1>2. /\ Carried([f EXCEPT !.count1 = v], f) /\ [f EXCEPT !.count1 = v].resume = f.resume
      /\ Carried([f EXCEPT !.downloadsize = v], f) /\ [f EXCEPT !.downloadsize = v].resume = f.resume
      /\ Carried([f EXCEPT !.resume = v], f) /\ Carried([f EXCEPT !.infilesize = v], f)
  BY <1>1, TypedSets
<1>3. \A g : Carried(g, f) => Typed(g) /\ g.req = f.req
  BY DEF Carried
<1> QED BY <1>2, <1>3

LEMMA TypedSays ==
    ASSUME NEW f, Typed(f), NEW verb, NEW arg,
           NEW state \in {"RETR_PREQUOTE", "RETR_SIZE", "RETR_REST", "STOR_PREQUOTE", "STOR_SIZE", "STOR"},
           Fitting(verb, state), state = "RETR_REST" => arg = f.resume
    PROVE  CacheNext(Send(f, verb, arg, state))
<1>1. /\ state \notin WayState \cup {"RETR", "STOP", "REST"} \cup ListState \cup TypeState
  BY DEF WayState, ListState, TypeState
<1> QED BY <1>1, SaysNext DEF Typed, GoingMore, Going

\* RETR finds the server at the offset.
LEMMA RetrSent ==
    ASSUME NEW f, DOMAIN f = Fields, f.out = <<>>, f.result = "OK", f.phase = "more",
           f.entrypath, InPlace(f), FullPath(f.req) => Recalls(f), TypeKnown(f),
           f.transfertype = TypeOf(f.req.ascii), srv.rest = f.resume
    PROVE  CacheNext(Send(f, "RETR", None, "RETR"))
<1> DEFINE g == Send(f, "RETR", None, "RETR")
           c == [verb |-> "RETR", arg |-> None]
<1>1. Alike(g, f) /\ g.state = "RETR" /\ g.result = "OK" /\ g.out = <<c>>
  BY Sent
<1> HIDE DEF g
<1>2. "RETR" \notin WayState \cup ListState
  BY DEF WayState, ListState
<1>3. PathKept(g, 0)
  BY <1>1, <1>2 DEF PathKept, Alike, InPlace, Recalls
<1>4. TypeKept(g, 0)
  BY <1>1, <1>2 DEF TypeKept, Alike, TypeKnown
<1>5. RestKept(g, 0)
  BY <1>1 DEF RestKept, Alike
<1>6. Kept(g, 0)
  BY <1>1, <1>3, <1>4, <1>5 DEF Kept, Alike
<1>7. Command(c, g)
  <2>1. c.verb = "RETR" /\ Fitting("RETR", "RETR")
    BY CommandsFit
  <2> HIDE DEF c
  <2> QED BY <1>1, <2>1 DEF Command
<1>8. \A d : g.out = <<d>> => Command(d, g)
  <2> HIDE DEF c
  <2> QED BY <1>1, <1>7
<1> QED BY <1>1, <1>6, <1>8 DEF CacheNext, Onward, g

LEMMA RetrFromStart ==
    ASSUME NEW f, Typed(f), f.resume = 0
    PROVE  CacheNext(Send(f, "RETR", None, "RETR"))
BY RetrSent DEF Typed, GoingMore, Going, Settled

\* Without a REST the whole file is asked for.
LEMMA RetrPrequoteNext ==
    ASSUME NEW f, Typed(f), f.req.ascii => f.resume = 0, NEW init
    PROVE  CacheNext(RetrPrequote(f, init))
<1>1. CASE MoreItems(f, init, "RETR_PREQUOTE")
  <2>1. RetrPrequote(f, init) = SendItem(f, init, "RETR_PREQUOTE")
    BY <1>1 DEF RetrPrequote
  <2> QED BY <2>1, ItemNext DEF Typed, GoingMore
<1>2. CASE ~MoreItems(f, init, "RETR_PREQUOTE")
  <2> DEFINE g == [f EXCEPT !.count1 = NextItem(f, init)]
  <2>1. Typed(g) /\ g.req = f.req /\ g.resume = f.resume
    BY TypedStays
  <2>2. RetrPrequote(f, init) = IF g.transfer # "BODY" THEN Stop(g)
                                ELSE IF g.req.ascii THEN Send(g, "RETR", None, "RETR")
                                ELSE Send(g, "SIZE", None, "RETR_SIZE")
    BY <1>2, <2>1 DEF RetrPrequote
  <2> HIDE DEF g
  <2>3. CacheNext(Stop(g))
    BY <2>1, StopsNext DEF Typed, GoingMore, Going
  <2>4. g.req.ascii => CacheNext(Send(g, "RETR", None, "RETR"))
    BY <2>1, RetrFromStart
  <2>5. CacheNext(Send(g, "SIZE", None, "RETR_SIZE"))
    BY <2>1, TypedSays, CommandsFit
  <2> QED BY <2>2, <2>3, <2>4, <2>5
<1> QED BY <1>1, <1>2

\* Nothing is to be transferred.
LEMMA NothingNext ==
    ASSUME NEW f, GoingMore(f)
    PROVE  CacheNext(Stop([SetupTransfer(f, None, -1) EXCEPT !.transfer = "NONE"]))
<1> DEFINE g == [f EXCEPT !.way = None, !.size = -1]
           h == [g EXCEPT !.transfer = "NONE"]
<1>1. GoingMore(g)
  BY FieldNames DEF GoingMore, Going, Settled, InPlace, Recalls, TypeKnown
<1> HIDE DEF g
<1>2. GoingMore(h)
  BY <1>1, TypedSets DEF Carried
<1> HIDE DEF h
<1>3. CacheNext(Stop(h))
  BY <1>2, StopsNext DEF GoingMore, Going
<1> QED BY <1>3 DEF SetupTransfer, g, h

LEMMA RetrNext ==
    ASSUME NEW f, Typed(f), NEW filesize
    PROVE  CacheNext(ftp_state_retr(f, filesize))
<1> DEFINE size == CASE f.resume = 0 \/ filesize = -1 -> filesize
                     [] f.resume < 0 -> -f.resume
                     [] OTHER -> filesize - f.resume
           from == IF f.resume < 0 /\ filesize # -1 THEN filesize + f.resume ELSE f.resume
           k == [f EXCEPT !.downloadsize = filesize]
           g == [f EXCEPT !.downloadsize = size, !.resume = from]
<1>1. \/ f.resume = 0 /\ ftp_state_retr(f, filesize) = Send(k, "RETR", None, "RETR")
      \/ ftp_state_retr(f, filesize) = Fail(f, "BAD_DOWNLOAD_RESUME")
      \/ ftp_state_retr(f, filesize) = Stop([SetupTransfer(g, None, -1) EXCEPT !.transfer = "NONE"])
      \/ ftp_state_retr(f, filesize) = Send(g, "REST", from, "RETR_REST")
  BY DEF ftp_state_retr
<1>2. Typed(k) /\ k.resume = f.resume
  BY TypedStays
<1>3. Typed(g) /\ g.resume = from
  <2> HIDE DEF size, from
  <2> QED BY FieldNames DEF Typed, GoingMore, Going, Settled, InPlace, Recalls, TypeKnown
<1> HIDE DEF k, g, from
<1>4. f.resume = 0 => CacheNext(Send(k, "RETR", None, "RETR"))
  BY <1>2, RetrFromStart
<1>5. CacheNext(Fail(f, "BAD_DOWNLOAD_RESUME"))
  BY FailsNext DEF Typed, GoingMore, Going
<1>6. CacheNext(Stop([SetupTransfer(g, None, -1) EXCEPT !.transfer = "NONE"]))
  BY <1>3, NothingNext DEF Typed
<1>7. CacheNext(Send(g, "REST", from, "RETR_REST"))
  BY <1>3, TypedSays, CommandsFit
<1> QED BY <1>1, <1>4, <1>5, <1>6, <1>7

LEMMA UlSetupNext ==
    ASSUME NEW f, Typed(f), NEW checked
    PROVE  CacheNext(ftp_state_ul_setup(f, checked))
<1> DEFINE left == IF f.infilesize > 0 THEN f.infilesize - f.resume ELSE f.infilesize
           g == [f EXCEPT !.infilesize = left]
<1>1. \/ ftp_state_ul_setup(f, checked) = Send(f, "STOR", None, "STOR")
      \/ ftp_state_ul_setup(f, checked) = Send(f, "SIZE", None, "STOR_SIZE")
      \/ ftp_state_ul_setup(f, checked) = Stop([SetupTransfer(f, None, -1) EXCEPT !.transfer = "NONE"])
      \/ ftp_state_ul_setup(f, checked) = Send(g, "APPE", None, "STOR")
  BY DEF ftp_state_ul_setup
<1>2. Typed(g)
  BY TypedStays
<1> HIDE DEF g
<1>3. CacheNext(Stop([SetupTransfer(f, None, -1) EXCEPT !.transfer = "NONE"]))
  BY NothingNext DEF Typed
<1> QED BY <1>1, <1>2, <1>3, TypedSays, CommandsFit

LEMMA StorPrequoteNext ==
    ASSUME NEW f, Typed(f), NEW init
    PROVE  CacheNext(StorPrequote(f, init))
<1> DEFINE g == [f EXCEPT !.count1 = NextItem(f, init)]
<1>1. StorPrequote(f, init) = IF MoreItems(f, init, "STOR_PREQUOTE")
                              THEN SendItem(f, init, "STOR_PREQUOTE") ELSE ftp_state_ul_setup(g, FALSE)
  BY DEF StorPrequote
<1>2. Typed(g)
  BY TypedStays
<1> HIDE DEF g
<1> QED BY <1>1, <1>2, UlSetupNext, ItemNext DEF Typed, GoingMore

LEMMA ListNext ==
    ASSUME NEW f, GoingMore(f), f.transfertype = "A"
    PROVE  CacheNext(ftp_state_list(f))
<1>1. /\ "LIST" \notin WayState \cup {"RETR", "STOP", "REST", "RETR_REST"} \cup TypeState
      /\ "LIST" \notin StorState \cup RetrState
  BY DEF WayState, TypeState, StorState, RetrState, SizeState
<1> QED BY <1>1, SaysNext, CommandsFit DEF ftp_state_list, GoingMore, Going

\* The type is set: the transfer's own commands follow.
LEMMA TypeRespNext ==
    ASSUME NEW f, GoingMore(f), NEW state \in {"LIST_TYPE", "RETR_TYPE", "STOR_TYPE"}, NEW code,
           IF state = "LIST_TYPE" THEN f.transfertype = "A" ELSE Typed(f),
           state = "RETR_TYPE" => (f.req.ascii => f.resume = 0)
    PROVE  CacheNext(ftp_state_type_resp(f, code, state))
<1>1. CacheNext(Fail(f, "FTP_COULDNT_SET_TYPE"))
  BY FailsNext DEF GoingMore, Going
<1>2. CASE state = "LIST_TYPE"
  BY <1>1, <1>2, ListNext DEF ftp_state_type_resp
<1>3. CASE state = "RETR_TYPE"
  BY <1>1, <1>3, RetrPrequoteNext DEF ftp_state_type_resp
<1>4. CASE state = "STOR_TYPE"
  BY <1>1, <1>4, StorPrequoteNext DEF ftp_state_type_resp
<1> QED BY <1>2, <1>3, <1>4

\* TYPE is sent, or left out.
LEMMA NbTypeNext ==
    ASSUME NEW f, GoingMore(f), NEW ascii \in BOOLEAN,
           NEW state \in {"LIST_TYPE", "RETR_TYPE", "STOR_TYPE"},
           IF state = "LIST_TYPE" THEN ascii ELSE ascii = f.req.ascii,
           state = "RETR_TYPE" => (f.req.ascii => f.resume = 0)
    PROVE  CacheNext(ftp_nb_type(f, ascii, state))
<1> DEFINE g == [f EXCEPT !.state = state]
<1>1. CASE f.transfertype = TypeOf(ascii)
  <2>1. ftp_nb_type(f, ascii, state) = ftp_state_type_resp(g, 200, state)
    BY <1>1 DEF ftp_nb_type
  <2>2. GoingMore(g) /\ (Typed(f) => Typed(g)) /\ g.req = f.req /\ g.resume = f.resume
    BY TypedSets DEF Carried
  <2>3. g.transfertype = f.transfertype
    BY FieldNames DEF GoingMore, Going
  <2> HIDE DEF g
  <2>4. state = "LIST_TYPE" => g.transfertype = "A"
    BY <1>1, <2>3 DEF TypeOf
  <2>5. state # "LIST_TYPE" => Typed(g)
    BY <1>1, <2>2 DEF Typed
  <2> QED BY <2>1, <2>2, <2>4, <2>5, TypeRespNext
<1>2. CASE f.transfertype # TypeOf(ascii)
  <2>1. ftp_nb_type(f, ascii, state) =
          Send([f EXCEPT !.transfertype = TypeOf(ascii)], "TYPE", TypeOf(ascii), state)
    BY <1>2 DEF ftp_nb_type
  <2>2. state \in TypeState
    BY DEF TypeState
  <2> QED BY <2>1, <2>2, TypeNext DEF GoingMore
<1> QED BY <1>1, <1>2

LEMMA KickstartNext ==
    ASSUME Followed, NEW f, GoingMore(f), f.req \in Requests, f.req \in Request
    PROVE  CacheNext(Kickstart(f))
<1>0. f.req.ascii \in BOOLEAN /\ (f.req.ascii /\ f.req.kind # "put" => f.req.resume = 0)
  BY Parts DEF Followed
<1>1. CASE f.req.kind = "put"
  <2> DEFINE g == [f EXCEPT !.resume = f.req.resume, !.infilesize = f.req.len]
  <2>1. GoingMore(g) /\ g.req = f.req
    BY FieldNames DEF GoingMore, Going, Settled, InPlace, Recalls, TypeKnown
  <2>2. Kickstart(f) = ftp_nb_type(g, f.req.ascii, "STOR_TYPE")
    BY <1>1 DEF Kickstart
  <2> HIDE DEF g
  <2> QED BY <1>0, <2>1, <2>2, NbTypeNext
<1>2. CASE f.req.kind # "put"
  <2> DEFINE h == [f EXCEPT !.downloadsize = -1]
             g == [h EXCEPT !.resume = h.req.resume, !.maxdownload = h.req.max,
                            !.dont_check = h.req.max >= 0]
  <2>1. GoingMore(h) /\ h.req = f.req
    BY TypedSets DEF Carried
  <2>2. Kickstart(f) = IF f.req.file THEN ftp_nb_type(g, f.req.ascii, "RETR_TYPE")
                       ELSE ftp_nb_type(g, TRUE, "LIST_TYPE")
    BY <1>2 DEF Kickstart, Curl_range
  <2> HIDE DEF h
  <2>3. GoingMore(g) /\ g.req = f.req /\ g.resume = f.req.resume
    BY <2>1, FieldNames DEF GoingMore, Going, Settled, InPlace, Recalls, TypeKnown
  <2> HIDE DEF g
  <2> QED BY <1>0, <1>2, <2>2, <2>3, NbTypeNext
<1> QED BY <1>1, <1>2

\* The transfer begins: at once, or when the server connects.
LEMMA AllowNext ==
    ASSUME NEW f, GoingMore(f)
    PROVE  CacheNext(AllowServerConnect(f)) /\ CacheNext(InitiateTransfer(f))
<1>1. ASSUME NEW g, g.req = f.req, g.entrypath = f.entrypath, g.prevpath = f.prevpath,
             g.transfertype = f.transfertype, g.result = "OK", g.state = "STOP"
      PROVE  CacheNext(g)
  BY <1>1, SettledAlike DEF CacheNext, GoingMore, Going
<1> DEFINE g == InitiateTransfer(f)
           h == [Stop(f) EXCEPT !.wait = TRUE]
<1>2. CacheNext(g)
  <2>1. /\ g.req = f.req /\ g.entrypath = f.entrypath /\ g.prevpath = f.prevpath
        /\ g.transfertype = f.transfertype /\ g.result = "OK" /\ g.state = "STOP"
    BY FieldNames DEF InitiateTransfer, SetupTransfer, Stop, GoingMore, Going
  <2> HIDE DEF g
  <2> QED BY <1>1, <2>1
<1>3. CacheNext(h)
  <2>1. /\ h.req = f.req /\ h.entrypath = f.entrypath /\ h.prevpath = f.prevpath
        /\ h.transfertype = f.transfertype /\ h.result = "OK" /\ h.state = "STOP"
    BY FieldNames DEF Stop, GoingMore, Going
  <2> HIDE DEF h
  <2> QED BY <1>1, <2>1
<1> HIDE DEF g, h
<1> QED BY <1>2, <1>3 DEF AllowServerConnect, g, h

\* The server's answer to the transfer.
LEMMA TransferAnswered ==
    ASSUME NEW f, GoingMore(f), f.state \in TransferState, NEW r
    PROVE  CacheNext(ftp_statemachine(f, r))
<1>1. CASE f.state = "STOR"
  <2>1. GoingMore(Stop(f))
    BY TypedSets DEF Stop, Carried
  <2>2. \/ ftp_statemachine(f, r) = Fail(Stop(f), "UPLOAD_FAILED")
        \/ ftp_statemachine(f, r) = AllowServerConnect(f)
    BY <1>1 DEF ftp_statemachine, ftp_state_stor_resp
  <2> QED BY <2>1, <2>2, FailsNext, AllowNext DEF GoingMore, Going
<1>2. CASE f.state \in {"LIST", "RETR"}
  <2> DEFINE k == [f EXCEPT !.transfer = "NONE"]
  <2>1. \/ \E v : ftp_statemachine(f, r) = AllowServerConnect([f EXCEPT !.retr_size = v])
        \/ ftp_statemachine(f, r) = Stop(k)
        \/ \E v : v # "OK" /\ ftp_statemachine(f, r) = Fail(f, v)
    BY <1>2 DEF ftp_statemachine, ftp_state_get_resp
  <2>2. GoingMore(k)
    BY TypedSets DEF Carried
  <2> HIDE DEF k
  <2>3. CacheNext(Stop(k))
    BY <2>2, StopsNext DEF GoingMore, Going
  <2>4. \A v : v # "OK" => CacheNext(Fail(f, v))
    BY FailsNext DEF GoingMore, Going
  <2>5. \A v : CacheNext(AllowServerConnect([f EXCEPT !.retr_size = v]))
    BY TypedSets, AllowNext DEF Carried
  <2> QED BY <2>1, <2>3, <2>4, <2>5
<1> QED BY <1>1, <1>2 DEF TransferState

LEMMA MoreRespNext ==
    ASSUME FtpAssumption, Followed, NEW f, More(f), Ready(f), MoreKept(f), f.state # "STOP",
           NEW r, r.code # 0, Kept(f, r.code)
    PROVE  CacheNext(ftp_statemachine(f, r))
<1>0. /\ Held(f) /\ f.phase = "more" /\ DOMAIN f = Fields /\ f.out = <<>> /\ f.result = "OK"
      /\ f.req \in Requests
  BY DEF More, Held, Ready
<1>1. f.state \notin WayState
  BY DEF MoreKept, StorState, RetrState, SizeState, ListState, WayState
<1>2. InPlace(f) /\ TypeKnown(f) /\ f.req \in Request /\ (f.state # "RETR_REST" => GoingMore(f))
  BY <1>0, <1>1, AnswerFinds DEF GoingMore
<1>3. f.state \in StorState \cup RetrState => f.transfertype = TypeOf(f.req.ascii)
  BY <1>0 DEF Kept, TypeKept
<1>4. f.state \in RetrState => (f.req.ascii => f.req.resume = 0)
  BY <1>0 DEF Followed, MoreKept
<1>5. f.state \in SizeState => f.resume = f.req.resume
  BY DEF MoreKept, Ranged
<1>6. {"QUOTE_ERROR", "FTP_COULDNT_USE_REST"} \cap Harmless = {}
  BY DEF Harmless
<1>7. CASE f.state \in {"LIST_TYPE", "RETR_TYPE", "STOR_TYPE"}
  <2>1. ftp_statemachine(f, r) = ftp_state_type_resp(f, r.code, f.state)
    BY <1>7 DEF ftp_statemachine
  <2>2. f.state = "LIST_TYPE" => f.transfertype = "A"
    BY DEF Kept, TypeKept, ListState
  <2>3. f.state # "LIST_TYPE" => Typed(f)
    BY <1>2, <1>3, <1>7 DEF Typed, StorState, RetrState, SizeState
  <2>4. f.state = "RETR_TYPE" => (f.req.ascii => f.resume = 0)
    BY <1>4, <1>5 DEF SizeState, RetrState
  <2> QED BY <1>2, <1>7, <2>1, <2>2, <2>3, <2>4, TypeRespNext
<1>8. CASE f.state \in {"RETR_PREQUOTE", "STOR_PREQUOTE"}
  <2>1. ftp_statemachine(f, r) = QuoteResp(f, r.code)
    BY <1>8 DEF ftp_statemachine
  <2>2. Typed(f)
    BY <1>2, <1>3, <1>8 DEF Typed, StorState, RetrState, SizeState
  <2>3. f.state = "RETR_PREQUOTE" => (f.req.ascii => f.resume = 0)
    BY <1>4, <1>5 DEF SizeState, RetrState
  <2>4. CacheNext(ftp_state_quote(f))
    BY <1>8, <2>2, <2>3, RetrPrequoteNext, StorPrequoteNext DEF ftp_state_quote
  <2>5. CacheNext(Fail(f, "QUOTE_ERROR"))
    BY <1>0, <1>6, BadNext
  <2> QED BY <2>1, <2>4, <2>5 DEF QuoteResp
<1>9. CASE f.state \in {"RETR_SIZE", "STOR_SIZE"}
  <2> DEFINE filesize == IF r.code = 213 THEN r.size ELSE -1
             g == [f EXCEPT !.resume = filesize]
  <2>1. \/ ftp_statemachine(f, r) = Fail(f, "REMOTE_FILE_NOT_FOUND")
        \/ ftp_statemachine(f, r) = ftp_state_retr(f, filesize)
        \/ ftp_statemachine(f, r) = ftp_state_ul_setup(g, TRUE)
    BY <1>9 DEF ftp_statemachine, ftp_state_size_resp
  <2>2. Typed(f)
    BY <1>2, <1>3, <1>9 DEF Typed, StorState, RetrState, SizeState
  <2>3. Typed(g)
    BY <2>2, TypedStays
  <2> HIDE DEF g, filesize
  <2>4. CacheNext(Fail(f, "REMOTE_FILE_NOT_FOUND"))
    BY <2>2, FailsNext DEF Typed, GoingMore, Going
  <2> QED BY <2>1, <2>2, <2>3, <2>4, RetrNext, UlSetupNext
<1>10. CASE f.state = "RETR_REST"
  <2>1. \/ ftp_statemachine(f, r) = Fail(f, "FTP_COULDNT_USE_REST")
        \/ r.code = 350 /\ ftp_statemachine(f, r) = Send(f, "RETR", None, "RETR")
    BY <1>10 DEF ftp_statemachine, ftp_state_rest_resp
  <2>2. CacheNext(Fail(f, "FTP_COULDNT_USE_REST"))
    BY <1>0, <1>6, BadNext
  <2>3. ASSUME r.code = 350 PROVE CacheNext(Send(f, "RETR", None, "RETR"))
    <3>1. srv.rest = f.resume
      BY <1>10, <2>3 DEF Kept, RestKept
    <3>2. f.entrypath /\ (FullPath(f.req) => Recalls(f))
      BY <1>0 DEF Kept, PathKept
    <3>3. f.transfertype = TypeOf(f.req.ascii)
      BY <1>3, <1>10 DEF RetrState
    <3> QED BY <1>0, <1>2, <3>1, <3>2, <3>3, RetrSent
  <2> QED BY <2>1, <2>2, <2>3
<1>11. CASE f.state \in TransferState
  <2>1. GoingMore(f)
    BY <1>2, <1>11 DEF TransferState
  <2> QED BY <1>11, <2>1, TransferAnswered
<1> QED BY <1>7, <1>8, <1>9, <1>10, <1>11
        DEF MoreKept, StorState, RetrState, SizeState, ListState, TransferState

-----------------------------------------------------------------------------
(* Logging in.                                                               *)

\* The connection is new, and its login goes on.
LogsIn(f) ==
    /\ DOMAIN f = Fields /\ f.out = <<>> /\ f.result = "OK" /\ f.phase = "connect"
    /\ ~f.reuse /\ f.prevpath = NoKey /\ TypeKnown(f) /\ srv.cwd = Entry /\ srv.rest = 0

LogsNext(g) ==
    IF g.result # "OK" THEN g.result \notin Harmless
    ELSE IF g.state = "STOP" THEN LogsIn(g) /\ g.entrypath
    ELSE Onward(g)

LEMMA LogsSets ==
    ASSUME NEW f, LogsIn(f), NEW v
    PROVE  /\ LogsIn([f EXCEPT !.alternative = v]) /\ LogsIn([f EXCEPT !.count3 = v])
           /\ LogsIn([f EXCEPT !.entrypath = v]) /\ [f EXCEPT !.entrypath = v].entrypath = v
           /\ LogsIn([f EXCEPT !.server_os = v]) /\ [f EXCEPT !.server_os = v].entrypath = f.entrypath
           /\ LogsIn([f EXCEPT !.datassl = v])
BY FieldNames DEF LogsIn, TypeKnown

LEMMA LogsSay ==
    ASSUME NEW f, LogsIn(f), NEW state \in (EarlyState \cup LateState) \ {"WAIT220"}, NEW arg,
           state \in {"SYST", "NAMEFMT"} => f.entrypath
    PROVE  LogsNext(Send(f, state, arg, state))
<1> DEFINE g == Send(f, state, arg, state)
           c == [verb |-> state, arg |-> arg]
<1>1. Alike(g, f) /\ g.state = state /\ g.result = "OK" /\ g.out = <<c>>
  BY Sent DEF LogsIn
<1> HIDE DEF g
<1>2. state \notin {"STOP", "RETR", "RETR_REST", "REST", "CWD", "LIST", "SIZE", "MDTM"} \cup TypeState \cup ListState
  BY DEF EarlyState, NameState, LateState, TypeState, ListState
<1>3. PathKept(g, 0)
  BY <1>1 DEF PathKept, Alike, LogsIn
<1>4. TypeKept(g, 0)
  <2>1. TypeKnown(g) /\ g.phase # "more" /\ g.state \notin ListState
    BY <1>1, <1>2 DEF Alike, LogsIn, TypeKnown
  <2> QED BY <2>1 DEF TypeKept
<1>5. RestKept(g, 0)
  BY <1>1, <1>2 DEF RestKept, LogsIn
<1>6. Kept(g, 0)
  BY <1>1, <1>3, <1>4, <1>5 DEF Kept, Alike, LogsIn
<1>7. Fitting(state, state)
  BY <1>2 DEF Fitting, TypeState
<1>8. Command(c, g)
  <2>1. c.verb = state
    OBVIOUS
  <2> HIDE DEF c
  <2> QED BY <1>1, <1>2, <1>7, <2>1 DEF Command, TypeState
<1>9. \A d : g.out = <<d>> => Command(d, g)
  <2> HIDE DEF c
  <2> QED BY <1>1, <1>8
<1> QED BY <1>1, <1>2, <1>6, <1>9 DEF LogsNext, Onward, g

LEMMA LogsSays ==
    ASSUME NEW f, LogsIn(f), NEW arg
    PROVE  /\ \A state \in {"AUTH", "USER", "PASS", "ACCT", "PBSZ", "PROT", "CCC", "PWD"} :
                 LogsNext(Send(f, state, arg, state))
           /\ f.entrypath =>
                 LogsNext(Send(f, "SYST", arg, "SYST")) /\ LogsNext(Send(f, "NAMEFMT", arg, "NAMEFMT"))
<1>1. \A state \in {"AUTH", "USER", "PASS", "ACCT", "PBSZ", "PROT", "CCC", "PWD", "SYST", "NAMEFMT"} :
         state \in (EarlyState \cup LateState) \ {"WAIT220"}
  BY DEF EarlyState, NameState, LateState
<1> QED BY <1>1, LogsSay

LEMMA LogsFail ==
    ASSUME NEW f, DOMAIN f = Fields,
           NEW result \in {"LOGIN_DENIED", "WEIRD_SERVER_REPLY", "USE_SSL_FAILED", "FTP_WEIRD_PASS_REPLY"}
    PROVE  LogsNext(Fail(f, result))
<1>1. Fail(f, result).result = result /\ result # "OK"
  BY FieldNames DEF Fail
<1>2. result \notin Harmless
  BY DEF Harmless
<1> QED BY <1>1, <1>2 DEF LogsNext

LEMMA LogsEnd ==
    ASSUME NEW f, LogsIn(f), f.entrypath
    PROVE  LogsNext(LoginEnds(f))
<1> DEFINE g == LoginEnds(f)
<1>1. LogsIn(g) /\ g.entrypath /\ g.state = "STOP"
  BY FieldNames DEF LoginEnds, Stop, LogsIn, TypeKnown
<1> HIDE DEF g
<1> QED BY <1>1 DEF LogsNext, LogsIn, g

LEMMA LogsUser ==
    ASSUME NEW f, LogsIn(f)
    PROVE  /\ LogsNext(ftp_state_user(f)) /\ LogsNext(ftp_state_pwd(f))
           /\ LogsNext(ftp_state_loggedin(f))
           /\ \A code : LogsNext(ftp_state_user_resp(f, code))
<1>1. LogsNext(ftp_state_user(f))
  BY LogsSets, LogsSays DEF ftp_state_user
<1>2. LogsNext(ftp_state_pwd(f))
  BY LogsSays DEF ftp_state_pwd
<1>3. LogsNext(ftp_state_loggedin(f))
  BY <1>2, LogsSays DEF ftp_state_loggedin
<1>4. ASSUME NEW code PROVE LogsNext(ftp_state_user_resp(f, code))
  <2>1. /\ LogsNext(Send(f, "PASS", None, "PASS")) /\ LogsNext(Send(f, "ACCT", None, "ACCT"))
        /\ LogsNext(Send([f EXCEPT !.alternative = TRUE], "USER", None, "USER"))
    BY LogsSets, LogsSays
  <2>2. LogsNext(Fail(f, "LOGIN_DENIED"))
    BY LogsFail DEF LogsIn
  <2> QED BY <1>3, <2>1, <2>2 DEF ftp_state_user_resp
<1> QED BY <1>1, <1>2, <1>3, <1>4

LEMMA LoginRespNext ==
    ASSUME NEW f, LogsIn(f), f.state \in EarlyState \cup LateState,
           f.state \in {"SYST", "NAMEFMT"} => f.entrypath,
           NEW r, f.state = "PWD" => r.code = 257
    PROVE  LogsNext(ftp_statemachine(f, r))
<1>0. /\ LogsNext(Fail(f, "LOGIN_DENIED")) /\ LogsNext(Fail(f, "WEIRD_SERVER_REPLY"))
      /\ LogsNext(Fail(f, "USE_SSL_FAILED")) /\ LogsNext(Fail(f, "FTP_WEIRD_PASS_REPLY"))
  BY LogsFail DEF LogsIn
<1>1. CASE f.state = "WAIT220"
  <2>1. LogsNext(Send([f EXCEPT !.count3 = 0], "AUTH", None, "AUTH"))
    BY LogsSets, LogsSays
  <2> QED BY <1>0, <1>1, <2>1, LogsUser DEF ftp_statemachine, Wait220
<1>2. CASE f.state = "AUTH"
  <2> DEFINE g == [f EXCEPT !.tls = TRUE, !.datassl = FALSE]
             h == [f EXCEPT !.count3 = f.count3 + 1]
  <2>1. LogsIn(g)
    BY FieldNames DEF LogsIn, TypeKnown
  <2>2. LogsIn(h)
    BY LogsSets
  <2>3. ftp_statemachine(f, r) =
          IF r.code \in {234, 334} THEN ftp_state_user(g)
          ELSE IF f.count3 < 1 THEN Send(h, "AUTH", None, "AUTH")
          ELSE IF Level(f.use_ssl) > 1 THEN Fail(f, "USE_SSL_FAILED")
          ELSE ftp_state_user(f)
    BY <1>2 DEF ftp_statemachine, AuthResp
  <2> HIDE DEF g, h
  <2>4. LogsNext(Send(h, "AUTH", None, "AUTH"))
    BY <2>2, LogsSays
  <2> QED BY <1>0, <2>1, <2>3, <2>4, LogsUser
<1>3. CASE f.state \in {"USER", "PASS"}
  BY <1>3, LogsUser DEF ftp_statemachine
<1>4. CASE f.state = "ACCT"
  BY <1>0, <1>4, LogsUser DEF ftp_statemachine
<1>5. CASE f.state = "PBSZ"
  BY <1>5, LogsSays DEF ftp_statemachine
<1>6. CASE f.state = "PROT"
  <2> DEFINE g == [f EXCEPT !.datassl = IF r.code \div 100 = 2 THEN f.use_ssl # "control" ELSE f.datassl]
  <2>1. LogsIn(g)
    <3>1. \A v : LogsIn([f EXCEPT !.datassl = v])
      BY LogsSets
    <3> QED BY <3>1, Zenon
  <2>2. \/ ftp_statemachine(f, r) = Fail(f, "USE_SSL_FAILED")
        \/ ftp_statemachine(f, r) = Send(g, "CCC", None, "CCC")
        \/ ftp_statemachine(f, r) = ftp_state_pwd(g)
    BY <1>6 DEF ftp_statemachine, ProtResp
  <2> HIDE DEF g
  <2>3. LogsNext(Send(g, "CCC", None, "CCC"))
    BY <2>1, LogsSays
  <2> QED BY <1>0, <2>1, <2>2, <2>3, LogsUser
<1>7. CASE f.state = "CCC"
  BY <1>7, LogsUser DEF ftp_statemachine
<1>8. CASE f.state = "PWD"
  <2> DEFINE known == f.entrypath \/ r.code = 257
             g == [f EXCEPT !.entrypath = known]
  <2>1. LogsIn(g) /\ g.entrypath
    <3>1. g = [f EXCEPT !.entrypath = TRUE]
      BY <1>8
    <3> HIDE DEF g
    <3> QED BY <3>1, FieldNames DEF LogsIn, TypeKnown
  <2>2. \/ ftp_statemachine(f, r) = Send(g, "SYST", None, "SYST")
        \/ ftp_statemachine(f, r) = LoginEnds(g)
    BY <1>8 DEF ftp_statemachine, PwdResp
  <2> HIDE DEF g
  <2> QED BY <2>1, <2>2, LogsSays, LogsEnd
<1>9. CASE f.state = "SYST"
  <2> DEFINE known == f.server_os \/ r.code = 215
             g == [f EXCEPT !.server_os = known]
  <2>1. LogsIn(g) /\ g.entrypath
    <3>1. g = [f EXCEPT !.server_os = TRUE] \/ g = [f EXCEPT !.server_os = FALSE]
      BY DEF known
    <3> HIDE DEF g
    <3> QED BY <1>9, <3>1, FieldNames DEF LogsIn, TypeKnown
  <2>2. \/ ftp_statemachine(f, r) = Send(g, "NAMEFMT", None, "NAMEFMT")
        \/ ftp_statemachine(f, r) = LoginEnds(g)
    BY <1>9 DEF ftp_statemachine, SystResp
  <2> HIDE DEF g
  <2> QED BY <2>1, <2>2, LogsSays, LogsEnd
<1>10. CASE f.state = "NAMEFMT"
  BY <1>10, LogsUser, LogsEnd DEF ftp_statemachine
<1> QED BY <1>1, <1>2, <1>3, <1>4, <1>5, <1>6, <1>7, <1>8, <1>9, <1>10
        DEF EarlyState, NameState, LateState

\* The login is over: the request begins.
LEMMA LoggedInNext ==
    ASSUME FtpAssumption, Followed, NEW g, LogsNext(g), g.result = "OK", g.state = "STOP",
           g.req \in Requests
    PROVE  CacheNext(ftp_do(g))
<1>1. LogsIn(g) /\ g.entrypath
  BY DEF LogsNext
<1>2. g.req \in Request
  BY DEF FtpAssumption
<1>3. Recalls(g)
  BY <1>1 DEF LogsIn, Recalls
<1> QED BY <1>1, <1>2, <1>3, DoNext DEF LogsIn

-----------------------------------------------------------------------------
(* The server's answers.                                                     *)

\* What the answer to c has done to the server's directory, type and offset.
Moves(a, c) ==
    \E r :
        /\ a.says = <<r>> /\ r.code # 0
        /\ a.srv.cwd = IF c.verb = "CWD" /\ r.code \div 100 = 2
                       THEN Resolve(srv.cwd, c.arg) ELSE srv.cwd
        /\ a.srv.type = IF c.verb = "TYPE" THEN c.arg ELSE srv.type
        /\ a.srv.rest \in {0, srv.rest} \cup (IF c.verb = "REST" THEN {c.arg} ELSE {})
        /\ c.verb = "REST" => a.srv.rest = IF r.code = 350 THEN c.arg ELSE srv.rest
        /\ c.verb = "RETR" => a.srv.rest = 0
        /\ c.verb = "PWD" => r.code = 257

\* The answer has code n, and s is the server then.
Told(a, n, s) == \E w, z : a.says = <<Reply(n, w, z)>> /\ a.srv = s

LEMMA SaysTells ==
    /\ \A codes, s : \A a \in Says(codes, s) : \E n \in codes : Told(a, n, s)
    /\ \A codes : \A a \in No(codes) : \E n \in codes : Told(a, n, srv)
    /\ \A code, words, s : \A a \in SaysWord(code, words, s) : Told(a, code, s)
    /\ \A code, sizes, s : \A a \in SaysSize(code, sizes, s) : Told(a, code, s)
BY DEF Says, No, SaysWord, SaysSize, Told

\* It leaves directory and type as they were.
Stays(a, n) ==
    \E s : /\ Told(a, n, s) /\ n # 0 /\ s.cwd = srv.cwd /\ s.type = srv.type
           /\ s.rest = srv.rest

LEMMA NoStays ==
    ASSUME NEW codes, 0 \notin codes, NEW a \in No(codes)
    PROVE  \E n \in codes : Stays(a, n)
BY SaysTells DEF Stays

\* s has the same directory, type and offset as the server.
SamePlace(s) == s.cwd = srv.cwd /\ s.type = srv.type /\ s.rest = srv.rest

LEMMA SetSame ==
    ASSUME DOMAIN srv = ServerFields, NEW v, NEW s,
           \/ s = [srv EXCEPT !.tls = v] \/ s = [srv EXCEPT !.private = v]
           \/ s = [srv EXCEPT !.port = v] \/ s = [srv EXCEPT !.kept = v]
           \/ s = [srv EXCEPT !.dirs = v]
    PROVE  SamePlace(s)
BY ServerNames DEF SamePlace

LEMMA SaysStays ==
    ASSUME NEW n, n # 0, NEW s, SamePlace(s), NEW a,
           \/ a \in Says({n}, s)
           \/ \E words : a \in SaysWord(n, words, s)
           \/ \E sizes : a \in SaysSize(n, sizes, s)
    PROVE  Stays(a, n)
<1>1. Told(a, n, s) => Stays(a, n)
  BY DEF Stays, SamePlace
<1>2. a \in Says({n}, s) => Told(a, n, s)
  BY DEF Says, Told
<1>3. \A words : a \in SaysWord(n, words, s) => Told(a, n, s)
  BY SaysTells
<1>4. \A sizes : a \in SaysSize(n, sizes, s) => Told(a, n, s)
  BY SaysTells
<1> QED BY <1>1, <1>2, <1>3, <1>4

LEMMA StaysMoves ==
    ASSUME NEW a, NEW c, NEW n, Stays(a, n), c.verb \notin {"TYPE", "RETR"},
           c.verb = "CWD" => n \div 100 # 2, c.verb = "REST" => n # 350,
           c.verb = "PWD" => n = 257
    PROVE  Moves(a, c)
<1>1. PICK s, w, z : /\ a.says = <<Reply(n, w, z)>> /\ a.srv = s /\ n # 0
                     /\ s.cwd = srv.cwd /\ s.type = srv.type /\ s.rest = srv.rest
  BY DEF Stays, Told
<1>2. Reply(n, w, z).code = n
  BY DEF Reply
<1> QED BY <1>1, <1>2 DEF Moves

\* A transfer begins: the offset has been used up.
LEMMA BeginsMoves ==
    ASSUME DOMAIN srv = ServerFields, NEW c, c.verb \in TransferVerb,
           NEW kind, NEW left, NEW told, NEW a \in Begins(kind, left, told)
    PROVE  Moves(a, c) /\ Moves([a EXCEPT !.srv.kept = 0], c)
<1> DEFINE s == [srv EXCEPT !.job = kind, !.left = left, !.rest = 0]
           k == [s EXCEPT !.kept = 0]
           b == [a EXCEPT !.srv.kept = 0]
<1>1. PICK n \in told : a = [says |-> <<Reply(150, None, n)>>, srv |-> s]
  BY DEF Begins, SaysSize
<1>2. Reply(150, None, n).code = 150
  BY DEF Reply
<1>3. /\ a.says = <<Reply(150, None, n)>> /\ a.srv = s
      /\ b.says = <<Reply(150, None, n)>> /\ b.srv = k
  BY <1>1
<1>4. /\ s.cwd = srv.cwd /\ s.type = srv.type /\ s.rest = 0
      /\ k.cwd = srv.cwd /\ k.type = srv.type /\ k.rest = 0
  BY ServerNames
<1>5. c.verb \notin {"CWD", "TYPE", "REST", "PWD"}
  BY DEF TransferVerb
<1> HIDE DEF s, k, b
<1>6. Moves(a, c) /\ Moves(b, c)
  BY <1>2, <1>3, <1>4, <1>5 DEF Moves
<1> QED BY <1>6 DEF b

LEMMA AnswerMoves ==
    ASSUME DOMAIN srv = ServerFields, Faults \cap {"TYPE", "PWD"} = {},
           NEW c, c.verb \in Verb, NEW a \in Answers(c)
    PROVE  Moves(a, c)
<1> DEFINE dir == Resolve(srv.cwd, c.arg)
<1>1. CASE c.verb \in NameVerb \cup {"AUTH", "PBSZ", "PRET", "PROT", "CCC", "NAMEFMT", "QUOTE", "SYST",
                                     "MKD", "MDTM", "SIZE", "EPSV", "PASV", "EPRT", "PORT"}
  <2>1. c.verb \notin {"TYPE", "RETR", "CWD", "REST", "PWD"}
    BY <1>1 DEF NameVerb
  <2>2. \/ \E codes : 0 \notin codes /\ a \in No(codes)
        \/ a \in Says({234}, [srv EXCEPT !.tls = TRUE])
        \/ a \in Says({200}, [srv EXCEPT !.private = (c.arg = "P")])
        \/ a \in Says({200}, [srv EXCEPT !.tls = FALSE])
        \/ \E v : a \in Says({257}, [srv EXCEPT !.dirs = v])
        \/ \E n \in {227, 229} : a \in Says({n}, [srv EXCEPT !.port = FALSE])
        \/ a \in Says({200}, [srv EXCEPT !.port = TRUE])
        \/ \E n \in {213, 215} : \E words : a \in SaysWord(n, words, srv)
        \/ \E sizes : a \in SaysSize(213, sizes, srv)
        \/ \E v, sizes : a \in SaysSize(213, sizes, [srv EXCEPT !.kept = v])
    <3>1. CASE c.verb \in NameVerb \cup {"PBSZ", "PRET", "QUOTE", "NAMEFMT"}
      <4>1. /\ c.verb = "USER" => a \in No({331, 230, 332, 530})
            /\ c.verb = "PASS" => a \in No({230, 332, 530})
            /\ c.verb = "ACCT" => a \in No({230, 530})
            /\ c.verb \in {"PBSZ", "PRET", "QUOTE"} => a \in No({200, 500})
            /\ c.verb = "NAMEFMT" => a \in No({250, 500})
        BY DEF Answers
      <4>2. /\ 0 \notin {331, 230, 332, 530} /\ 0 \notin {230, 332, 530} /\ 0 \notin {230, 530}
            /\ 0 \notin {200, 500} /\ 0 \notin {250, 500}
        OBVIOUS
      <4> QED BY <3>1, <4>1, <4>2 DEF NameVerb
    <3>2. CASE c.verb \in {"AUTH", "PROT", "CCC"}
      <4>1. \/ a \in No({500})
            \/ a \in Says({234}, [srv EXCEPT !.tls = TRUE])
            \/ a \in Says({200}, [srv EXCEPT !.private = (c.arg = "P")])
            \/ a \in Says({200}, [srv EXCEPT !.tls = FALSE])
        BY <3>2 DEF Answers
      <4>2. 0 \notin {500}
        OBVIOUS
      <4> QED BY <4>1, <4>2
    <3>3. CASE c.verb \in {"SYST", "MDTM"}
      <4>1. \/ \E codes : 0 \notin codes /\ a \in No(codes)
            \/ \E n \in {213, 215} : \E words : a \in SaysWord(n, words, srv)
        <5>1. \/ a \in No({500}) \/ a \in No({500, 550})
              \/ \E n \in {213, 215} : \E words : a \in SaysWord(n, words, srv)
          BY <3>3 DEF Answers
        <5>2. 0 \notin {500} /\ 0 \notin {500, 550}
          OBVIOUS
        <5>3. a \in No({500}) \/ a \in No({500, 550}) => \E codes : 0 \notin codes /\ a \in No(codes)
          BY <5>2
        <5> QED BY <5>1, <5>3
      <4> QED BY <4>1
    <3>4. CASE c.verb = "MKD"
      <4>1. a \in No({550}) \/ \E v : a \in Says({257}, [srv EXCEPT !.dirs = v])
        BY <3>4 DEF Answers
      <4>2. 0 \notin {550}
        OBVIOUS
      <4> QED BY <4>1, <4>2
    <3>5. CASE c.verb \in {"EPSV", "PASV", "EPRT", "PORT"}
      <4>1. \/ a \in No({500})
            \/ \E n \in {227, 229} : a \in Says({n}, [srv EXCEPT !.port = FALSE])
            \/ a \in Says({200}, [srv EXCEPT !.port = TRUE])
        <5>1. CASE c.verb = "EPSV"
          BY <5>1 DEF Answers
        <5>2. CASE c.verb = "PASV"
          BY <5>2 DEF Answers
        <5>3. CASE c.verb \in {"EPRT", "PORT"}
          BY <5>3 DEF Answers
        <5> QED BY <3>5, <5>1, <5>2, <5>3
      <4>2. 0 \notin {500}
        OBVIOUS
      <4> QED BY <4>1, <4>2
    <3>6. CASE c.verb = "SIZE"
      <4> DEFINE told == UNION {SaysSize(213, {n}, [srv EXCEPT !.kept = n]) : n \in 0..ftpc.req.len}
      <4>1. Answers(c) = No({500, 550}) \cup
                         (IF ftpc.req.kind # "put" THEN SaysSize(213, {ftpc.req.len}, srv) ELSE told)
        BY <3>6 DEF Answers
      <4>2. ASSUME a \in told PROVE \E v, sizes : a \in SaysSize(213, sizes, [srv EXCEPT !.kept = v])
        <5>1. PICK x \in {SaysSize(213, {n}, [srv EXCEPT !.kept = n]) : n \in 0..ftpc.req.len} : a \in x
          BY <4>2
        <5>2. PICK n \in 0..ftpc.req.len : x = SaysSize(213, {n}, [srv EXCEPT !.kept = n])
          BY <5>1
        <5> QED BY <5>1, <5>2
      <4>3. 0 \notin {500, 550}
        OBVIOUS
      <4>4. a \in No({500, 550}) \/ a \in SaysSize(213, {ftpc.req.len}, srv) \/ a \in told
        <5> HIDE DEF told
        <5> QED BY <4>1
      <4> HIDE DEF told
      <4> QED BY <4>2, <4>3, <4>4
    <3> QED BY <1>1, <3>1, <3>2, <3>3, <3>4, <3>5, <3>6
  <2>4. \E n : Stays(a, n)
    <3> DEFINE stays == \E k : Stays(a, k)
    <3> SUFFICES stays
      OBVIOUS
    <3>1. ASSUME NEW codes, 0 \notin codes, a \in No(codes) PROVE \E n : Stays(a, n)
      BY <3>1, NoStays
    <3>2. ASSUME NEW n \in {200, 213, 215, 227, 229, 234, 257}, NEW s, SamePlace(s),
                 \/ a \in Says({n}, s)
                 \/ \E words : a \in SaysWord(n, words, s)
                 \/ \E sizes : a \in SaysSize(n, sizes, s)
          PROVE  \E k : Stays(a, k)
      <4>1. n # 0
        OBVIOUS
      <4>2. Stays(a, n)
        BY <3>2, <4>1, SaysStays
      <4> QED BY <4>2
    <3>3. ASSUME NEW v, NEW s, s = [srv EXCEPT !.tls = v], a \in Says({234}, s) \/ a \in Says({200}, s)
          PROVE  \E k : Stays(a, k)
      BY <3>2, <3>3, SetSame
    <3>4. ASSUME NEW s, s = [srv EXCEPT !.private = (c.arg = "P")], a \in Says({200}, s)
          PROVE  \E k : Stays(a, k)
      <4>1. SamePlace(s)
        BY <3>4, ServerNames DEF SamePlace
      <4> QED BY <3>2, <3>4, <4>1
    <3>5. ASSUME NEW v, NEW s, s = [srv EXCEPT !.port = v], NEW n \in {200, 227, 229}, a \in Says({n}, s)
          PROVE  \E k : Stays(a, k)
      <4>1. SamePlace(s)
        BY <3>5, SetSame
      <4>2. Stays(a, n)
        <5>1. n # 0
          BY <3>5
        <5> QED BY <3>5, <4>1, <5>1, SaysStays
      <4> QED BY <4>2
    <3>6. ASSUME NEW v, NEW s, s = [srv EXCEPT !.dirs = v], a \in Says({257}, s)
          PROVE  \E k : Stays(a, k)
      BY <3>2, <3>6, SetSame
    <3>7. ASSUME \E n \in {213, 215} : \E words : a \in SaysWord(n, words, srv)
          PROVE  \E k : Stays(a, k)
      BY <3>2, <3>7 DEF SamePlace
    <3>8. ASSUME NEW s, s = srv \/ (\E v : s = [srv EXCEPT !.kept = v]),
                 \E sizes : a \in SaysSize(213, sizes, s)
          PROVE  \E k : Stays(a, k)
      <4>1. SamePlace(s)
        BY <3>8, SetSame DEF SamePlace
      <4> QED BY <3>2, <3>8, <4>1
    <3> DEFINE refused == \E codes : 0 \notin codes /\ a \in No(codes)
           secured == a \in Says({234}, [srv EXCEPT !.tls = TRUE])
           data_secured == a \in Says({200}, [srv EXCEPT !.private = (c.arg = "P")])
           cleared == a \in Says({200}, [srv EXCEPT !.tls = FALSE])
           created == \E v : a \in Says({257}, [srv EXCEPT !.dirs = v])
           listens == \E n \in {227, 229} : a \in Says({n}, [srv EXCEPT !.port = FALSE])
           connects == a \in Says({200}, [srv EXCEPT !.port = TRUE])
           word == \E n \in {213, 215} : \E words : a \in SaysWord(n, words, srv)
           size == \E sizes : a \in SaysSize(213, sizes, srv)
           size_kept == \E v, sizes : a \in SaysSize(213, sizes, [srv EXCEPT !.kept = v])
    <3>9. refused \/ secured \/ data_secured \/ cleared \/ created
          \/ listens \/ connects \/ word \/ size \/ size_kept
      BY <2>2
    <3>10. refused => stays
      BY <3>1
    <3>11. secured => stays
      BY <3>3, Zenon
    <3>12. data_secured => stays
      BY <3>4, Zenon
    <3>13. cleared => stays
      BY <3>3, Zenon
    <3>14. created => stays
      BY <3>6, Zenon
    <3>15. listens => stays
      <4>1. ASSUME NEW n \in {227, 229}, a \in Says({n}, [srv EXCEPT !.port = FALSE])
            PROVE  stays
        <5> DEFINE s == [srv EXCEPT !.port = FALSE]
        <5>1. n \in {200, 227, 229} /\ s = [srv EXCEPT !.port = FALSE] /\ a \in Says({n}, s)
          BY <4>1
        <5> HIDE DEF s
        <5> QED BY <3>5, <5>1
      <4> QED BY <4>1
    <3>16. connects => stays
      <4> DEFINE s == [srv EXCEPT !.port = TRUE]
      <4>1. connects => a \in Says({200}, s)
        OBVIOUS
      <4>2. s = [srv EXCEPT !.port = TRUE] /\ 200 \in {200, 227, 229}
        OBVIOUS
      <4> HIDE DEF s, connects
      <4> QED BY <3>5, <4>1, <4>2
    <3>17. word => stays
      BY <3>7
    <3>18. size => stays
      BY <3>8
    <3>19. size_kept => stays
      <4>1. ASSUME NEW v, NEW sizes, a \in SaysSize(213, sizes, [srv EXCEPT !.kept = v])
            PROVE  stays
        <5> DEFINE s == [srv EXCEPT !.kept = v]
        <5>1. \E w : s = [srv EXCEPT !.kept = w]
          OBVIOUS
        <5>2. \E x : a \in SaysSize(213, x, s)
          BY <4>1
        <5> HIDE DEF s
        <5> QED BY <3>8, <5>1, <5>2
      <4> QED BY <4>1
    <3> HIDE DEF stays, refused, secured, data_secured, cleared, created, listens, connects, word, size, size_kept
    <3> QED BY <3>9, <3>10, <3>11, <3>12, <3>13, <3>14, <3>15, <3>16, <3>17, <3>18, <3>19
  <2> QED BY <2>1, <2>4, StaysMoves
<1>2. CASE c.verb = "PWD"
  <2>1. a \in SaysWord(257, {"plain", "odd"}, srv)
    BY <1>2 DEF Answers, Unless
  <2>2. Stays(a, 257)
    <3>1. SamePlace(srv) /\ 257 # 0
      BY DEF SamePlace
    <3>2. \E words : a \in SaysWord(257, words, srv)
      BY <2>1
    <3> QED BY <3>1, <3>2, SaysStays
  <2> QED BY <1>2, <2>2, StaysMoves
<1>3. CASE c.verb = "CWD"
  <2>1. a \in Says({250}, [srv EXCEPT !.cwd = dir]) \/ a \in No({550})
    BY <1>3 DEF Answers
  <2>2. ASSUME a \in No({550}) PROVE Moves(a, c)
    <3>1. Stays(a, 550)
      BY <2>2, NoStays
    <3> QED BY <1>3, <3>1, StaysMoves
  <2>3. ASSUME a \in Says({250}, [srv EXCEPT !.cwd = dir]) PROVE Moves(a, c)
    <3> DEFINE s == [srv EXCEPT !.cwd = dir]
    <3>1. /\ a.says = <<Reply(250, None, -1)>> /\ a.srv = s /\ Reply(250, None, -1).code = 250
      BY <2>3 DEF Says, Reply
    <3>2. s.cwd = dir /\ s.type = srv.type /\ s.rest = srv.rest
      <4> HIDE DEF dir
      <4> QED BY ServerNames
    <3> HIDE DEF s
    <3> QED BY <1>3, <3>1, <3>2 DEF Moves
  <2> QED BY <2>1, <2>2, <2>3
<1>4. CASE c.verb = "TYPE"
  <2>1. a \in Says({200}, [srv EXCEPT !.type = c.arg])
    BY <1>4 DEF Answers, Unless
  <2> DEFINE s == [srv EXCEPT !.type = c.arg]
  <2>2. /\ a.says = <<Reply(200, None, -1)>> /\ a.srv = s /\ Reply(200, None, -1).code = 200
    BY <2>1 DEF Says, Reply
  <2>3. s.cwd = srv.cwd /\ s.type = c.arg /\ s.rest = srv.rest
    BY ServerNames
  <2> HIDE DEF s
  <2> QED BY <1>4, <2>2, <2>3 DEF Moves
<1>5. CASE c.verb = "REST"
  <2>1. a \in Says({350}, [srv EXCEPT !.rest = c.arg]) \/ a \in No({500})
    BY <1>5 DEF Answers
  <2>2. ASSUME a \in No({500}) PROVE Moves(a, c)
    <3>1. Stays(a, 500)
      BY <2>2, NoStays
    <3> QED BY <1>5, <3>1, StaysMoves
  <2>3. ASSUME a \in Says({350}, [srv EXCEPT !.rest = c.arg]) PROVE Moves(a, c)
    <3> DEFINE s == [srv EXCEPT !.rest = c.arg]
    <3>1. /\ a.says = <<Reply(350, None, -1)>> /\ a.srv = s /\ Reply(350, None, -1).code = 350
      BY <2>3 DEF Says, Reply
    <3>2. s.cwd = srv.cwd /\ s.type = srv.type /\ s.rest = c.arg
      BY ServerNames
    <3> HIDE DEF s
    <3> QED BY <1>5, <3>1, <3>2 DEF Moves
  <2> QED BY <2>1, <2>2, <2>3
<1>6. CASE c.verb \in TransferVerb
  <2>1. \/ \E kind, l, told : a \in Begins(kind, l, told)
        \/ \E b : b \in Begins("receive", 0, {-1}) /\ a = [b EXCEPT !.srv.kept = 0]
        \/ c.verb # "RETR" /\ \E codes \in {{450, 550}, {550}} : a \in No(codes)
        \/ c.verb = "RETR" /\ a \in Says({425, 550}, [srv EXCEPT !.rest = 0])
    <3>1. CASE c.verb = "LIST"
      BY <3>1 DEF Answers
    <3>2. CASE c.verb = "RETR"
      BY <3>2 DEF Answers
    <3>3. CASE c.verb = "STOR"
      BY <3>3 DEF Answers
    <3>4. CASE c.verb = "APPE"
      BY <3>4 DEF Answers
    <3> QED BY <1>6, <3>1, <3>2, <3>3, <3>4 DEF TransferVerb
  <2>2. ASSUME c.verb # "RETR", NEW codes \in {{450, 550}, {550}}, a \in No(codes) PROVE Moves(a, c)
    <3>1. \E n : Stays(a, n)
      BY <2>2, NoStays
    <3>2. c.verb \notin {"TYPE", "CWD", "REST", "PWD"}
      BY <1>6 DEF TransferVerb
    <3> QED BY <2>2, <3>1, <3>2, StaysMoves
  <2>3. ASSUME c.verb = "RETR", a \in Says({425, 550}, [srv EXCEPT !.rest = 0]) PROVE Moves(a, c)
    <3> DEFINE s == [srv EXCEPT !.rest = 0]
    <3>1. PICK n \in {425, 550} : a.says = <<Reply(n, None, -1)>> /\ a.srv = s
      BY <2>3 DEF Says
    <3>2. Reply(n, None, -1).code = n
      BY DEF Reply
    <3>3. s.cwd = srv.cwd /\ s.type = srv.type /\ s.rest = 0
      BY ServerNames
    <3> HIDE DEF s
    <3> QED BY <2>3, <3>1, <3>2, <3>3 DEF Moves
  <2>4. ASSUME NEW kind, NEW l, NEW told, a \in Begins(kind, l, told) PROVE Moves(a, c)
    BY <1>6, <2>4, BeginsMoves
  <2>5. ASSUME NEW b, b \in Begins("receive", 0, {-1}), a = [b EXCEPT !.srv.kept = 0] PROVE Moves(a, c)
    <3>1. Moves([b EXCEPT !.srv.kept = 0], c)
      BY <1>6, <2>5, BeginsMoves
    <3> QED BY <2>5, <3>1
  <2> QED BY <2>1, <2>2, <2>3, <2>4, <2>5
<1> QED BY <1>1, <1>2, <1>3, <1>4, <1>5, <1>6 DEF Verb, OtherVerb

\* Nothing that Cached speaks of has moved.
LEMMA KeptStays ==
    ASSUME NEW f, NEW n, Kept(f, n), ftpc' = f, Code' = n, SamePlace(srv')
    PROVE  Kept(ftpc, Code)'
<1>1. PathKept(ftpc, Code)'
  BY DEF Kept, PathKept, Recalls, InPlace, OnTheWay, Before, CwdItem, SamePlace
<1>2. TypeKept(ftpc, Code)'
  BY DEF Kept, TypeKept, TypeKnown, SamePlace
<1>3. RestKept(ftpc, Code)'
  BY DEF Kept, RestKept, SamePlace
<1> QED BY <1>1, <1>2, <1>3 DEF Kept

LEMMA CachedFrame ==
    ASSUME Cached, UNCHANGED <<ftpc, todo, replies>>, SamePlace(srv')
    PROVE  Cached'
<1>1. (ftpc.open /\ Awaits(ftpc) # "end")' => ftpc.open /\ Awaits(ftpc) # "end"
  BY DEF Awaits, Forsaken, Aborts
<1>2. Code' = Code
  BY DEF Code
<1>3. Kept(ftpc, Code) => Kept(ftpc, Code)'
  BY <1>2, KeptStays
<1>4. (\A c : todo = <<c>> => Command(c, ftpc)) => (\A c : todo = <<c>> => Command(c, ftpc))'
  BY DEF Command, CwdItem
<1>5. Awaits(ftpc)' = Awaits(ftpc)
  BY DEF Awaits, Forsaken, Aborts
<1> QED BY <1>1, <1>3, <1>4, <1>5 DEF Cached

\* The last word is the first thing the client has to read, or it has more to read before.
LEMMA LastWordCached ==
    ASSUME Talk, Cached, Working, NEW code, LastWord(code)
    PROVE  Cached'
<1> DEFINE r == Reply(code, None, -1)
<1>0. /\ UNCHANGED <<ftpc, todo>> /\ replies' = Append(replies, r)
      /\ srv' = [srv EXCEPT !.job = "none", !.left = 0]
  BY DEF LastWord
<1>1. SamePlace(srv')
  BY <1>0, ServerNames DEF Talk, SamePlace
<1>2. ASSUME ftpc'.open, Awaits(ftpc)' # "end"
      PROVE  /\ Kept(ftpc, Code)' /\ (\A c : todo = <<c>> => Command(c, ftpc))'
             /\ (Awaits(ftpc) = "answer" /\ replies # <<>> => Head(replies).code # 0)'
  <2>1. ftpc.open /\ Awaits(ftpc) # "end"
    BY <1>0, <1>2 DEF Awaits, Forsaken, Aborts
  <2>2. Kept(ftpc, Code) /\ todo = <<>>
    <3>1. Quiet \/ LastWordDue \/ Unserved(ftpc) \/ Served(ftpc)
      BY <2>1, FourWays
    <3> QED BY <2>1, <3>1 DEF Cached, Quiet, LastWordDue, Unserved, Served
  <2>3. Kept(ftpc, Code')
    <3>1. CASE Awaits(ftpc) = "answer"
      <4>1. PICK q : replies = <<q>>
        BY <3>1, FourWays DEF Unserved, Served
      <4>2. /\ Head(replies') = q /\ replies' # <<>>
            /\ Head(replies) = q /\ replies # <<>>
        <5>1. replies' = <<q, r>>
          BY <1>0, <4>1, TwoMessages
        <5> HIDE DEF r
        <5>2. Head(<<q, r>>) = q /\ <<q, r>> # <<>>
          BY TwoMessages
        <5>3. Head(<<q>>) = q /\ <<q>> # <<>>
          BY OneMessage
        <5> QED BY <4>1, <5>1, <5>2, <5>3
      <4>3. Code' = Code
        BY <1>0, <2>2, <4>2 DEF Code
      <4> QED BY <2>2, <4>3
    <3>2. CASE Awaits(ftpc) # "answer"
      <4>1. Awaits(ftpc) = "last"
        BY <2>1, <3>2, FourWays DEF Quiet
      <4>2. ftpc.state = "STOP"
        BY <4>1 DEF Talk, ClientOK, Awaits, PerformKept
      <4> QED BY <2>2, <4>2, KeptAtRest
    <3> QED BY <3>1, <3>2
  <2>4. Kept(ftpc, Code)'
    BY <1>0, <1>1, <2>3, KeptStays
  <2>5. \A c : <<>> # <<c>>
    BY OneMessage
  <2>6. ASSUME (Awaits(ftpc) = "answer")' PROVE Head(replies').code # 0
    <3>1. Awaits(ftpc) = "answer"
      BY <1>0, <2>6 DEF Awaits, Forsaken, Aborts
    <3>2. PICK q : replies = <<q>>
      BY <3>1, FourWays DEF Unserved, Served
    <3>3. q.code # 0
      BY <2>1, <3>1, <3>2, OneMessage DEF Cached
    <3>4. replies' = <<q, r>>
      BY <1>0, <3>2, TwoMessages
    <3> HIDE DEF r
    <3> QED BY <3>3, <3>4, TwoMessages
  <2> QED BY <1>0, <2>2, <2>4, <2>5, <2>6
<1> QED BY <1>2 DEF Cached

LEMMA ServeCached ==
    ASSUME FtpAssumption, Followed, Talk, Cached, Awaits(ftpc) = "answer", Unserved(ftpc), Serve
    PROVE  Cached'
<1>1. PICK c : todo = <<c>> /\ Ordinary(c, ftpc)
  BY DEF Unserved
<1>2. Head(todo) = c /\ c.verb # "ABOR" /\ c.verb \in Verb
  BY <1>1, OneMessage DEF Ordinary, Verb, TransferVerb, NameVerb, OtherVerb
<1>3. PICK a \in Answers(c) :
         /\ replies' = replies \o (IF srv.job = "none" THEN <<>> ELSE <<Reply(426, None, -1)>>) \o a.says
         /\ srv' = a.srv /\ todo' = Tail(todo) /\ UNCHANGED <<ftpc, data>>
  BY <1>2 DEF Serve
<1>4. srv.job = "none" /\ replies = <<>>
  BY DEF Unserved, Working
<1>5. Moves(a, c)
  BY <1>2, <1>3, AnswerMoves DEF Talk, Followed
<1>6. PICK r :
        /\ a.says = <<r>> /\ r.code # 0
        /\ a.srv.cwd = IF c.verb = "CWD" /\ r.code \div 100 = 2
                       THEN Resolve(srv.cwd, c.arg) ELSE srv.cwd
        /\ a.srv.type = IF c.verb = "TYPE" THEN c.arg ELSE srv.type
        /\ a.srv.rest \in {0, srv.rest} \cup (IF c.verb = "REST" THEN {c.arg} ELSE {})
        /\ c.verb = "REST" => a.srv.rest = IF r.code = 350 THEN c.arg ELSE srv.rest
        /\ c.verb = "RETR" => a.srv.rest = 0
        /\ c.verb = "PWD" => r.code = 257
  BY <1>5 DEF Moves
<1>7. todo' = <<>> /\ replies' = <<r>>
  BY <1>1, <1>3, <1>4, <1>6, OneMessage, NoMessage
<1>8. Code' = r.code
  BY <1>7, OneMessage DEF Code
<1>9. ftpc.open /\ ftpc.phase \in {"connect", "doing", "more", "postquote"} /\ ftpc.req \in Request
  BY DEF Awaits, Talk, ClientOK, FtpAssumption
<1>10. Kept(ftpc, 0) /\ Command(c, ftpc)
  <2>1. Code = 0
    BY <1>4 DEF Code
  <2> QED BY <1>1, <1>9, <2>1 DEF Cached
<1>11. PathKept(ftpc, Code)'
  <2>1. CASE ftpc.state = "CWD"
    <3>1. ftpc.phase = "doing"
      BY <1>9, <2>1 DEF Talk, ClientOK, ConnectKept, MoreKept, EarlyState, NameState, LateState,
                        StorState, RetrState, SizeState, ListState
    <3>2. ftpc.entrypath /\ ~FullPath(ftpc.req) /\ (ftpc.cwdcount = 0 \/ Before(ftpc))
      BY <1>10, <2>1, <3>1 DEF Kept, PathKept, OnTheWay, WayState
    <3>3. c.verb = "CWD" /\ c.arg = IF ftpc.cwdcount = 0 THEN HomeItem ELSE CwdItem(ftpc)
      BY <1>10, <2>1 DEF Command, Fitting
    <3>4. CASE r.code \div 100 = 2
      <4>1. Len(DirItems(ftpc.req)) \in Nat
        BY <1>9, ItemCount
      <4>2. srv'.cwd = Resolve(srv.cwd, c.arg)
        BY <1>3, <1>6, <3>3, <3>4
      <4>3. ftpc.cwdcount \in 0 .. Len(DirItems(ftpc.req)) /\ srv'.cwd = Reached(ftpc.req, ftpc.cwdcount)
        <5>1. CASE ftpc.cwdcount = 0
          BY <3>3, <4>1, <4>2, <5>1, HomeReached
        <5>2. CASE ftpc.cwdcount # 0
          <6>1. /\ ftpc.cwdcount \in 1 .. Len(DirItems(ftpc.req)) /\ c.arg = DirItems(ftpc.req)[ftpc.cwdcount]
                /\ c.arg.abs \/ srv.cwd = Reached(ftpc.req, ftpc.cwdcount - 1)
            BY <3>2, <3>3, <5>2 DEF Before, CwdItem
          <6>2. Resolve(srv.cwd, c.arg) = Reached(ftpc.req, ftpc.cwdcount)
            BY <1>9, <6>1, ReachedNext
          <6> QED BY <4>1, <4>2, <6>1, <6>2
        <5> QED BY <5>1, <5>2
      <4>4. OnTheWay(ftpc, Code)'
        BY <1>3, <1>8, <2>1, <3>2, <3>4, <4>3 DEF OnTheWay
      <4> QED BY <1>3, <2>1, <3>1, <3>2, <4>4 DEF PathKept, WayState
    <3>5. CASE r.code \div 100 # 2
      <4>1. srv'.cwd = srv.cwd
        BY <1>3, <1>6, <3>5
      <4>2. OnTheWay(ftpc, Code)'
        BY <1>3, <1>8, <2>1, <3>2, <3>5, <4>1 DEF OnTheWay, Before, CwdItem
      <4> QED BY <1>3, <2>1, <3>1, <3>2, <4>2 DEF PathKept, WayState
    <3> QED BY <3>4, <3>5
  <2>2. CASE ftpc.state # "CWD"
    <3>1. c.verb # "CWD"
      BY <1>10, <2>2 DEF Command, Fitting
    <3>2. srv'.cwd = srv.cwd
      BY <1>3, <1>6, <3>1
    <3>3. ftpc.state = "PWD" => r.code = 257
      BY <1>6, <1>10 DEF Command, Fitting
    <3>4. PathKept(ftpc, 0)
      BY <1>10 DEF Kept
    <3>5. OnTheWay(ftpc, 0) /\ ftpc.state \in WayState => OnTheWay(ftpc, Code)'
      BY <1>3, <2>2, <3>2 DEF OnTheWay, InPlace, Before, CwdItem, WayState
    <3> QED BY <1>3, <1>8, <3>2, <3>3, <3>4, <3>5 DEF PathKept, Recalls, InPlace
  <2> QED BY <2>1, <2>2
<1>12. TypeKept(ftpc, Code)'
  <2>1. TypeKept(ftpc, 0)
    BY <1>10 DEF Kept
  <2>2. TypeKnown(ftpc)'
    <3>1. CASE ftpc.state \in TypeState
      <4>1. c.verb = "TYPE" /\ c.arg = ftpc.transfertype
        BY <1>10, <3>1 DEF Command, Fitting
      <4> QED BY <1>3, <1>6, <4>1 DEF TypeKnown
    <3>2. CASE ftpc.state \notin TypeState
      <4>1. c.verb # "TYPE"
        BY <1>10, <3>2 DEF Command, Fitting
      <4>2. TypeKnown(ftpc)
        BY <2>1, <3>2 DEF TypeKept
      <4> QED BY <1>3, <1>6, <4>1, <4>2 DEF TypeKnown
    <3> QED BY <3>1, <3>2
  <2> QED BY <1>3, <2>1, <2>2 DEF TypeKept
<1>13. RestKept(ftpc, Code)'
  <2>1. RestKept(ftpc, 0)
    BY <1>10 DEF Kept
  <2>2. CASE ftpc.state \in {"REST", "RETR_REST"}
    <3>1. c.verb = "REST" /\ c.arg = IF ftpc.state = "REST" THEN 0 ELSE ftpc.resume
      BY <1>10, <2>2 DEF Command, Fitting
    <3>2. srv.rest = 0
      BY <2>1, <2>2 DEF RestKept
    <3>3. srv'.rest = IF r.code = 350 THEN c.arg ELSE 0
      BY <1>3, <1>6, <3>1, <3>2
    <3> QED BY <1>3, <1>8, <2>2, <3>1, <3>3 DEF RestKept
  <2>3. CASE ftpc.state = "RETR"
    <3>1. c.verb = "RETR"
      BY <1>10, <2>3 DEF Command, Fitting
    <3> QED BY <1>3, <1>6, <1>8, <2>3, <3>1 DEF RestKept
  <2>4. CASE ftpc.state \notin {"REST", "RETR_REST", "RETR"}
    <3>1. c.verb # "REST"
      BY <1>10, <2>4 DEF Command, Fitting
    <3>2. srv.rest = 0
      BY <2>1, <2>4 DEF RestKept
    <3>3. srv'.rest = 0
      BY <1>3, <1>6, <3>1, <3>2
    <3> QED BY <1>3, <2>4, <3>3 DEF RestKept
  <2> QED BY <2>2, <2>3, <2>4
<1>14. Kept(ftpc, Code)'
  BY <1>3, <1>9, <1>11, <1>12, <1>13 DEF Kept
<1>15. (\A d : todo' # <<d>>) /\ Head(replies').code # 0
  BY <1>6, <1>7, OneMessage
<1> QED BY <1>14, <1>15 DEF Cached

LEMMA ServerCached ==
    ASSUME FtpAssumption, Followed, Talk, Cached, Server \/ OtherMkdir
    PROVE  Cached'
<1>0. DOMAIN srv = ServerFields
  BY DEF Talk
<1>1. CASE Serve
  <2>1. CASE Awaits(ftpc) = "end"
    <3>1. ftpc' = ftpc
      BY <1>1 DEF Serve
    <3>2. (Awaits(ftpc) = "end")'
      BY <2>1, <3>1 DEF Awaits, Forsaken, Aborts
    <3> QED BY <3>2 DEF Cached
  <2>2. CASE Awaits(ftpc) # "end"
    <3>1. todo # <<>>
      BY <1>1 DEF Serve
    <3> QED BY <1>1, <2>2, <3>1, FourWays, ServeCached DEF Served, Quiet, LastWordDue
  <2> QED BY <2>1, <2>2
<1>2. CASE ServerConnects
  BY <1>2, CachedFrame DEF ServerConnects, SamePlace
<1>3. CASE SendByte
  BY <1>0, <1>3, CachedFrame, ServerNames DEF SendByte, SamePlace
<1>4. CASE KeepByte
  BY <1>0, <1>4, CachedFrame, ServerNames DEF KeepByte, SamePlace
<1>5. CASE TransferEnds
  BY <1>5, LastWordCached DEF TransferEnds, Working
<1>6. CASE TransferFails
  BY <1>6, LastWordCached DEF TransferFails, Working
<1>7. CASE OtherMkdir
  BY <1>0, <1>7, CachedFrame, ServerNames DEF OtherMkdir, SamePlace
<1> QED BY <1>1, <1>2, <1>3, <1>4, <1>5, <1>6, <1>7 DEF Server
-----------------------------------------------------------------------------
(* The end of a transfer, and what the next one finds.                       *)

\* What the client remembers is where the server is.
Retained(h) == h.entrypath /\ Recalls(h) /\ TypeKnown(h) /\ srv.rest = 0

\* g, once it is in effect, is as Cached wants it.
Good(g) ==
    g.open /\ Awaits(g) # "end" =>
        Kept(g, 0) /\ (Awaits(g) = "answer" => \A c : g.out = <<c>> => Command(c, g))

LEMMA RetainedGood ==
    ASSUME NEW g, Retained(g), g.phase \in {"idle", "final", "postquote"}, g.state = "STOP",
           g.phase = "postquote" => \E a : g.out = <<[verb |-> "QUOTE", arg |-> a]>>
    PROVE  Good(g)
<1>1. Kept(g, 0)
  BY DEF Retained, Kept, PathKept, TypeKept, RestKept, TypeState, ListState, StorState, RetrState,
         SizeState
<1>2. ASSUME Awaits(g) = "answer", NEW c, g.out = <<c>> PROVE Command(c, g)
  <2>1. g.phase = "postquote"
    BY <1>2 DEF Awaits
  <2>2. c.verb = "QUOTE"
    BY <1>2, <2>1
  <2> QED BY <2>2, CommandsFit DEF Command
<1> QED BY <1>1, <1>2 DEF Good

LEMMA ReturnGood ==
    ASSUME NEW f, Held(f), Retained(f), NEW result
    PROVE  Good(Return(f, result, FALSE))
<1> DEFINE g == Return(f, result, FALSE)
           k == Fresh(f)
<1>1. CASE f.close
  BY <1>1, ReturnClosed DEF Held, Closed, Good
<1>2. CASE ~f.close
  <2>1. g = [k EXCEPT !.result = result]
    BY <1>2 DEF Return
  <2>2. /\ DOMAIN k = Fields /\ k.phase = "idle" /\ k.state = "STOP" /\ k.entrypath = f.entrypath
        /\ k.prevpath = f.prevpath /\ k.transfertype = f.transfertype
    BY FieldNames DEF Fresh, Held
  <2>3. /\ g.phase = "idle" /\ g.state = "STOP" /\ g.entrypath = f.entrypath
        /\ g.prevpath = f.prevpath /\ g.transfertype = f.transfertype
    <3> HIDE DEF g, k
    <3> QED BY <2>1, <2>2, FieldNames
  <2> HIDE DEF g
  <2>4. Retained(g)
    BY <2>3 DEF Retained, Recalls, TypeKnown
  <2>5. Good(g)
    BY <2>3, <2>4, RetainedGood
  <2> QED BY <2>5 DEF g
<1> QED BY <1>1, <1>2

LEMMA SendPostquoteGood ==
    ASSUME NEW f, Held(f), f.out = <<>>, f.state = "STOP", Retained(f), NEW item
    PROVE  Good(SendPostquote(f, item))
<1> DEFINE g == SendPostquote(f, item)
<1>1. /\ g.phase = "postquote" /\ g.out = <<[verb |-> "QUOTE", arg |-> None]>>
      /\ g.state = "STOP" /\ g.entrypath = f.entrypath /\ g.prevpath = f.prevpath
      /\ g.transfertype = f.transfertype
  BY FieldNames, OneMessage DEF SendPostquote, Send, Held
<1> HIDE DEF g
<1>2. Retained(g)
  BY <1>1 DEF Retained, Recalls, TypeKnown
<1>3. Good(g)
  BY <1>1, <1>2, RetainedGood
<1> QED BY <1>3 DEF g

LEMMA FinishGood ==
    ASSUME NEW f, Held(f), f.out = <<>>, Retained(f), NEW status, NEW result,
           status = "OK" => f.state = "STOP"
    PROVE  Good(Finish(f, status, result, FALSE))
<1> DEFINE h == [f EXCEPT !.transfer = "BODY", !.dont_check = FALSE]
<1>1. /\ Held(h) /\ h.out = <<>> /\ h.state = f.state /\ h.entrypath = f.entrypath
      /\ h.prevpath = f.prevpath /\ h.transfertype = f.transfertype
  BY FieldNames DEF Held
<1>2. \/ status = "OK" /\ Finish(f, status, result, FALSE) = SendPostquote(h, 1)
      \/ \E r : Finish(f, status, result, FALSE) = Return(h, r, FALSE)
  BY DEF Finish
<1> HIDE DEF h
<1>3. Retained(h)
  BY <1>1 DEF Retained, Recalls, TypeKnown
<1> QED BY <1>1, <1>2, <1>3, SendPostquoteGood, ReturnGood

\* ftp_done remembers the path that the transfer has entered, if it has.
LEMMA LeavingRetains ==
    ASSUME NEW f, DOMAIN f = Fields, f.req \in Request, Leaving(f), NEW h, Parted(h, f)
    PROVE  Retained(h)
<1>1. h.prevpath = IF FullPath(f.req) THEN f.prevpath ELSE IF f.cwdfail THEN NoKey ELSE PathKey(f.req)
  BY FieldNames DEF Parted, RememberPath
<1>2. Recalls(h)
  <2>1. CASE FullPath(f.req)
    BY <1>1, <2>1 DEF Leaving, Recalls
  <2>2. CASE ~FullPath(f.req) /\ ~f.cwdfail
    BY <1>1, <2>2, KeyWanted DEF Leaving, Recalls, InPlace
  <2>3. CASE ~FullPath(f.req) /\ f.cwdfail
    BY <1>1, <2>3 DEF Recalls
  <2> QED BY <2>1, <2>2, <2>3
<1> QED BY <1>2 DEF Retained, Parted, Leaving, TypeKnown

\* However a transfer ends, the connection is closed or the client knows where it is.
LEMMA DoneGood ==
    ASSUME FtpAssumption, NEW f, Held(f), f.out = <<>>, ~f.pending \/ f.state = "STOP",
           NEW status, status = "OK" => f.state = "STOP", NEW early \in BOOLEAN,
           early => status # "OK", status \in Harmless /\ ~early => Leaving(f),
           Aborts(f) => f.transfer = "BODY" /\ f.ctl_valid
    PROVE  Good(ftp_done(f, status, early))
<1>1. CASE early \/ status \notin Harmless \ {"WRITE_ERROR"}
  <2>1. status # "OK"
    BY <1>1 DEF Harmless
  <2> QED BY <1>1, <2>1, DoneClosed DEF Closed, Good
<1>2. CASE ~early /\ status \in Harmless \ {"WRITE_ERROR"}
  <2>0. early = FALSE /\ f.req \in Request
    BY <1>2 DEF Held, FtpAssumption
  <2>1. PICK h : Parted(h, f) /\ ftp_done(f, status, FALSE) = Ended(h, status)
    BY <1>2, DoneHarmless
  <2>2. Held(h) /\ Retained(h)
    BY <1>2, <2>0, <2>1, LeavingRetains DEF Held, Parted
  <2>3. CASE h.transfer = "BODY" /\ h.ctl_valid /\ h.pending
    <3> DEFINE g == [h EXCEPT !.phase = "final", !.status = status]
    <3>1. ftp_done(f, status, FALSE) = g
      BY <2>1, <2>3 DEF Ended
    <3>2. /\ g.phase = "final" /\ g.state = h.state /\ g.entrypath = h.entrypath
          /\ g.prevpath = h.prevpath /\ g.transfertype = h.transfertype
          /\ g.dont_check = h.dont_check /\ g.maxdownload = h.maxdownload
      BY <2>2, FieldNames DEF Held
    <3> HIDE DEF g
    <3>3. Retained(g)
      BY <2>2, <3>2 DEF Retained, Recalls, TypeKnown
    <3>4. CASE Aborts(h)
      <4>1. Awaits(g) = "end"
        BY <3>2, <3>4 DEF Awaits, Aborts
      <4> QED BY <2>0, <3>1, <4>1 DEF Good
    <3>5. CASE ~Aborts(h)
      <4>1. g.state = "STOP"
        BY <2>1, <2>3, <3>2, <3>5 DEF Parted
      <4> QED BY <2>0, <3>1, <3>2, <3>3, <4>1, RetainedGood
    <3> QED BY <3>4, <3>5
  <2>4. CASE ~(h.transfer = "BODY" /\ h.ctl_valid /\ h.pending)
    <3>1. ftp_done(f, status, FALSE) = Finish(h, status, "OK", FALSE)
      BY <2>1, <2>4 DEF Ended
    <3>2. h.out = <<>> /\ (status = "OK" => h.state = "STOP")
      BY <2>1, <2>4 DEF Parted
    <3> QED BY <2>0, <2>1, <2>2, <3>1, <3>2, FinishGood
  <2> QED BY <2>3, <2>4
<1> QED BY <1>1, <1>2

\* Settled is all that Kept asks of a state that waits for no command's answer.
LEMMA SettledGood ==
    ASSUME NEW g, Settled(g), g.state = "STOP", g.out = <<>>, g.phase \in {"doing", "more", "perform"}
    PROVE  Good(g)
<1>1. Kept(g, 0)
  BY DEF Settled, Kept, PathKept, TypeKept, RestKept, TypeState, WayState, ListState, StorState,
         RetrState, SizeState
<1>2. \A c : <<>> # <<c>>
  BY OneMessage
<1> QED BY <1>1, <1>2 DEF Good

\* What the multi state machine does once a handler has run.
LEMMA GoodNext ==
    ASSUME FtpAssumption, NEW g, Held(g), g.phase \in {"doing", "more"}, CacheNext(g),
           g.result # "OK" => g.out = <<>> /\ ~g.pending, g.state = "STOP" => g.out = <<>>,
           g.phase = "doing" => ~Aborts(g),
           g.result # "OK" \/ g.state = "STOP" => (Aborts(g) => g.transfer = "BODY" /\ g.ctl_valid)
    PROVE  Good(AfterDo(g))
<1>1. CASE g.result # "OK"
  <2>1. AfterDo(g) = ftp_done(g, g.result, FALSE)
    BY <1>1 DEF AfterDo
  <2>2. g.result \in Harmless => Leaving(g)
    BY <1>1 DEF CacheNext
  <2>3. Good(ftp_done(g, g.result, FALSE))
    BY <1>1, <2>2, DoneGood
  <2> QED BY <2>1, <2>3
<1>2. CASE g.result = "OK" /\ g.state # "STOP"
  <2>1. AfterDo(g) = g /\ Onward(g)
    BY <1>2 DEF AfterDo, CacheNext
  <2> QED BY <2>1 DEF Good, Onward
<1>3. CASE g.result = "OK" /\ g.state = "STOP"
  <2>0. Settled(g) /\ g.out = <<>>
    BY <1>3 DEF CacheNext
  <2>1. CASE g.wait
    BY <1>3, <2>0, <2>1, SettledGood DEF AfterDo
  <2>2. CASE ~g.wait /\ g.phase = "doing"
    <3> DEFINE more == g.do_more \/ g.transfer = "BODY"
               k == [g EXCEPT !.ctl_valid = TRUE, !.do_more = more]
               m == [k EXCEPT !.phase = "more"]
               j == SetupTransfer(k, None, -1)
    <3>1. AfterDo(g) = IF more THEN m ELSE Did(j)
      BY <1>3, <2>2 DEF AfterDo, ftp_dophase_done
    <3>2. /\ Held(k) /\ k.out = <<>> /\ k.state = "STOP" /\ k.req = g.req
          /\ k.entrypath = g.entrypath /\ k.prevpath = g.prevpath
          /\ k.transfertype = g.transfertype
          /\ k.maxdownload = g.maxdownload /\ k.dont_check = g.dont_check
      BY <1>3, <2>0, FieldNames DEF Held
    <3> HIDE DEF k, more
    <3>3. /\ m.phase = "more" /\ m.out = <<>> /\ m.state = "STOP" /\ m.req = g.req
          /\ m.entrypath = g.entrypath /\ m.prevpath = g.prevpath
          /\ m.transfertype = g.transfertype
      BY <3>2, FieldNames DEF Held
    <3>4. /\ Held(j) /\ j.way = None /\ j.out = <<>> /\ j.state = "STOP" /\ j.req = g.req
          /\ j.entrypath = g.entrypath /\ j.prevpath = g.prevpath
          /\ j.transfertype = g.transfertype
          /\ j.maxdownload = g.maxdownload /\ j.dont_check = g.dont_check
      BY <3>2, FieldNames DEF Held, SetupTransfer
    <3> HIDE DEF m, j
    <3>5. Good(m)
      <4>1. Settled(m)
        BY <2>0, <3>3, SettledAlike
      <4> QED BY <3>3, <4>1, SettledGood
    <3>6. Good(Did(j))
      <4>1. Settled(j)
        BY <2>0, <3>4, SettledAlike
      <4>2. Leaving(j) /\ ~Aborts(j)
        BY <2>2, <3>4, <4>1, SettledLeaves DEF Aborts
      <4>3. Good(ftp_done(j, "OK", FALSE))
        BY <3>4, <4>2, DoneGood
      <4> QED BY <3>4, <4>3 DEF Did
    <3> QED BY <3>1, <3>5, <3>6
  <2>3. CASE ~g.wait /\ g.phase = "more"
    <3>1. AfterDo(g) = Did(g)
      BY <1>3, <2>3 DEF AfterDo
    <3>2. CASE g.way = None
      <4>1. Leaving(g)
        BY <2>0, SettledLeaves
      <4>2. Good(ftp_done(g, "OK", FALSE))
        BY <1>3, <2>0, <4>1, DoneGood
      <4> QED BY <3>1, <3>2, <4>2 DEF Did
    <3>3. CASE g.way # None
      <4> DEFINE p == [g EXCEPT !.phase = "perform"]
      <4>1. /\ p.phase = "perform" /\ p.out = <<>> /\ p.state = "STOP" /\ p.req = g.req
            /\ p.entrypath = g.entrypath /\ p.prevpath = g.prevpath
            /\ p.transfertype = g.transfertype
        BY <1>3, <2>0, FieldNames DEF Held
      <4>2. AfterDo(g) = p
        BY <3>1, <3>3 DEF Did
      <4> HIDE DEF p
      <4>3. Settled(p)
        BY <2>0, <4>1, SettledAlike
      <4> QED BY <4>1, <4>2, <4>3, SettledGood
    <3> QED BY <3>2, <3>3
  <2> QED BY <2>1, <2>2, <2>3
<1> QED BY <1>1, <1>2, <1>3

\* What a handler leaves behind is put into effect.
LEMMA CommitGood ==
    ASSUME DOMAIN srv = ServerFields, todo = <<>>, NEW g, NEW rest, Good(g), Commit(g, rest),
           (AfterQuiet(g) /\ rest = <<>>) \/ AfterLast(g)
    PROVE  Cached'
<1>1. CASE ~g.open
  <2>1. DOMAIN g = Fields
    BY <1>1 DEF AfterQuiet, AfterLast, Closed
  <2>2. ~ftpc'.open
    BY <1>1, <2>1, FieldNames DEF Commit
  <2> QED BY <2>2 DEF Cached
<1>2. CASE g.open
  <2> DEFINE f == [g EXCEPT !.out = <<>>]
  <2>1. ClientOK(f)
    BY DEF AfterQuiet, AfterLast
  <2>2. /\ UNCHANGED srv /\ replies' = rest /\ todo' = todo \o g.out
        /\ Awaits(ftpc)' = Awaits(g)
    BY <1>2, <2>1, CommitOpen
  <2>3. ftpc' = f
    BY DEF Commit
  <2>4. Alike(f, g) /\ f.state = g.state
    <3>1. DOMAIN f = Fields
      BY <2>1 DEF ClientOK
    <3>2. DOMAIN g = DOMAIN f
      OBVIOUS
    <3> QED BY <3>1, <3>2, FieldNames DEF Alike
  <2>5. f.phase = g.phase /\ f.state = g.state /\ f.wait = g.wait /\ f.dont_check = g.dont_check /\ f.maxdownload = g.maxdownload
    <3>1. DOMAIN f = Fields
      BY <2>1 DEF ClientOK
    <3>2. DOMAIN g = DOMAIN f
      OBVIOUS
    <3> QED BY <3>1, <3>2, FieldNames
  <2> HIDE DEF f
  <2>6. ASSUME Awaits(g) # "end"
        PROVE  /\ Kept(ftpc, Code)' /\ (\A c : todo = <<c>> => Command(c, ftpc))'
               /\ (Awaits(ftpc) = "answer" /\ replies # <<>> => Head(replies).code # 0)'
    <3>1. Kept(g, 0) /\ (Awaits(g) = "answer" => \A c : g.out = <<c>> => Command(c, g))
      BY <1>2, <2>6 DEF Good
    <3>2. rest = <<>> \/ (Awaits(g) = "last" /\ g.state = "STOP")
      <4>1. CASE rest # <<>>
        <5>1. Awaits(g) = "last"
          BY <1>2, <2>6, <4>1 DEF AfterLast, Closed
        <5> QED BY <2>1, <2>5, <5>1 DEF ClientOK, PerformKept, Aborts, Awaits
      <4> QED BY <4>1
    <3>3. Kept(g, Code')
      <4>1. rest = <<>> => Code' = 0
        BY <2>2 DEF Code
      <4> QED BY <3>1, <3>2, <4>1, KeptAtRest
    <3>4. Kept(f, Code')
      BY <2>4, <3>3, KeptAlike
    <3>5. Kept(ftpc, Code)'
      BY <2>2, <2>3, <3>4, KeptStays DEF SamePlace
    <3>6. ASSUME NEW c, todo' = <<c>> PROVE Command(c, ftpc)'
      <4>1. g.out = <<c>> /\ Awaits(g) = "answer"
        <5>1. CASE g.out = <<>>
          BY <2>2, <3>6, <5>1, NoMessage, OneMessage
        <5>2. CASE \E d : g.out = <<d>> /\ Awaits(g) = "answer"
          BY <2>2, <3>6, <5>2, OneMessage
        <5> QED BY <1>2, <2>6, <5>1, <5>2 DEF AfterQuiet, AfterLast, Closed
      <4>2. Command(c, f)
        BY <2>4, <3>1, <4>1, CommandAlike
      <4>3. Command(c, ftpc')
        BY <2>3, <4>2
      <4> QED BY <4>3 DEF Command, CwdItem
    <3>7. (Awaits(ftpc) = "answer")' => replies' = <<>>
      BY <2>2, <3>2
    <3> QED BY <3>5, <3>6, <3>7
  <2> QED BY <2>2, <2>6 DEF Cached
<1> QED BY <1>1, <1>2

LEMMA CommitLost ==
    ASSUME NEW g, Closed(g), NEW rest, Commit(g, rest)
    PROVE  Cached'
<1>1. ~ftpc'.open
  BY FieldNames DEF Commit, Closed
<1> QED BY <1>1 DEF Cached

LEMMA DoingGood ==
    ASSUME FtpAssumption, NEW g, DoingNext(g), CacheNext(g)
    PROVE  Good(AfterDo(g)) /\ AfterQuiet(AfterDo(g)) /\ AfterDo(g) = After(g)
<1>1. Held(g) /\ g.phase = "doing" /\ ~Aborts(g)
  BY DEF DoingNext, Doing, Aborts
<1>2. (g.result # "OK" => g.out = <<>> /\ ~g.pending) /\ (g.state = "STOP" => g.out = <<>>)
  BY DEF DoingNext, Speaks, Halts, Fails, Ready, DoingKept, AskState, DataState
<1> QED BY <1>1, <1>2, GoodNext, AfterDoing

LEMMA MoreGood ==
    ASSUME FtpAssumption, NEW g, MoreNext(g), CacheNext(g)
    PROVE  Good(AfterDo(g)) /\ AfterQuiet(AfterDo(g)) /\ AfterDo(g) = After(g)
<1>1. Held(g) /\ g.phase = "more" /\ g.ctl_valid
  BY DEF MoreNext, More
<1>2. (g.result # "OK" => g.out = <<>> /\ ~g.pending) /\ (g.state = "STOP" => g.out = <<>>)
  BY DEF MoreNext, Speaks, Halts, Fails, Ready, MoreKept
<1>3. g.result # "OK" \/ g.state = "STOP" => (Aborts(g) => g.transfer = "BODY")
  BY DEF MoreNext, Speaks, MoreKept
<1> QED BY <1>1, <1>2, <1>3, GoodNext, AfterMore

-----------------------------------------------------------------------------
(* The steps of the client.                                                  *)

LEMMA StartCached ==
    ASSUME FtpAssumption, Followed, Talk, Cached, NEW r \in Requests, Start(r)
    PROVE  Cached'
<1>0. ftpc.phase = "idle" /\ DOMAIN srv = ServerFields
  BY DEF Start, Talk
<1>1. CASE Reusable
  <2> DEFINE k == Fresh(ftpc)
             f == [k EXCEPT !.req = r, !.reuse = TRUE, !.result = "OK", !.n = 0]
             g == AfterDo(ftp_do(f))
  <2>1. Commit(g, <<>>)
    BY <1>1 DEF Start
  <2>2. ftpc.open /\ ~Forsaken(ftpc)
    BY <1>1 DEF Reusable, GivenUp, Forsaken
  <2>3. Quiet /\ Awaits(ftpc) = "nothing"
    BY <1>0, <2>2, FourWays DEF Awaits
  <2>4. /\ DOMAIN ftpc = Fields /\ ftpc.use_ssl \in SslLevels /\ ftpc.out = <<>>
        /\ ~ftpc.pending /\ Private(ftpc)
    BY <1>0, <2>2 DEF Talk, ClientOK
  <2>5. ftpc.entrypath /\ Recalls(ftpc) /\ TypeKnown(ftpc) /\ srv.rest = 0
    <3>1. Kept(ftpc, 0)
      BY <2>2, <2>3 DEF Cached, Code, Quiet
    <3> QED BY <1>0, <3>1 DEF Kept, PathKept, TypeKept, RestKept, TypeState
  <2>6. /\ DOMAIN k = Fields /\ k.use_ssl = ftpc.use_ssl /\ k.open /\ k.out = <<>>
        /\ ~k.pending /\ k.datassl = ftpc.datassl /\ ~k.do_more /\ k.maxdownload = -1
        /\ k.way = None /\ k.entrypath = ftpc.entrypath /\ k.prevpath = ftpc.prevpath
        /\ k.transfertype = ftpc.transfertype
    BY <2>2, <2>4, FieldNames DEF Fresh
  <2> HIDE DEF k
  <2>7. /\ Held(f) /\ Private(f) /\ Ready(f) /\ ~f.do_more /\ f.maxdownload = -1
        /\ f.way = None
    BY <2>4, <2>6, FieldNames DEF Held, Private, Ready
  <2>8. /\ DOMAIN f = Fields /\ f.out = <<>> /\ f.result = "OK" /\ f.req = r /\ f.reuse
        /\ f.entrypath = ftpc.entrypath /\ f.prevpath = ftpc.prevpath
        /\ f.transfertype = ftpc.transfertype
    BY <2>6, FieldNames
  <2> HIDE DEF f
  <2>9. r \in Request
    BY DEF FtpAssumption
  <2>10. CacheNext(ftp_do(f))
    BY <2>5, <2>8, <2>9, DoNext DEF Recalls, TypeKnown
  <2>11. Good(g) /\ AfterQuiet(g)
    BY <2>7, <2>10, DoQuiet, DoingGood
  <2> HIDE DEF g
  <2> QED BY <1>0, <2>1, <2>3, <2>11, CommitGood DEF Quiet
<1>2. CASE ~Reusable
  <2>1. PICK l \in UseSsl, code \in {220, 230, 500} :
            /\ ftpc' = [NewConn(l) EXCEPT !.phase = "connect", !.open = TRUE, !.req = r,
                                          !.state = "WAIT220"]
            /\ replies' = <<Reply(code, None, -1)>>
            /\ todo' = <<>> /\ data' = NoData
            /\ srv' = NewSession(srv)
    BY <1>2, Zenon DEF Start
  <2> DEFINE f == ftpc'
  <2>2. /\ f.phase = "connect" /\ f.state = "WAIT220" /\ ~f.reuse /\ f.prevpath = NoKey
        /\ f.transfertype = None
    <3> DEFINE k == NewConn(l)
    <3>1. /\ DOMAIN k = Fields /\ ~k.reuse /\ k.prevpath = NoKey /\ k.transfertype = None
      <4>1. DOMAIN k = Fields
        BY NewConnFields
      <4> QED BY <4>1, ZenonT(60) DEF NewConn
    <3> HIDE DEF k
    <3> QED BY <2>1, <3>1, FieldNames DEF k
  <2>3. srv'.cwd = Entry /\ srv'.rest = 0
    BY <1>0, <2>1, ServerNames DEF NewSession
  <2>4. Kept(ftpc, Code)'
    BY <2>2, <2>3 DEF Kept, PathKept, TypeKept, RestKept, TypeKnown, ListState
  <2>5. \A c : <<>> # <<c>>
    BY OneMessage
  <2>6. Head(replies').code # 0
    BY <2>1, OneMessage DEF Reply
  <2> QED BY <2>1, <2>4, <2>5, <2>6 DEF Cached
<1> QED BY <1>1, <1>2

\* A login that is over has its first request begun, and one that fails is closed.
LEMMA LoginGood ==
    ASSUME FtpAssumption, Followed, NEW g, LoginNext(g), LogsNext(g)
    PROVE  Good(After(g))
<1>0. Held(g) /\ g.phase = "connect" /\ g.req \in Requests
  BY DEF LoginNext, Login, Held
<1>1. CASE Speaks(g) /\ ConnectKept(g)
  <2>1. After(g) = g /\ g.result = "OK" /\ g.state # "STOP"
    BY <1>1 DEF After, AfterDo, Speaks, ConnectKept, EarlyState, LateState, NameState
  <2>2. Onward(g)
    BY <2>1 DEF LogsNext
  <2> QED BY <2>1, <2>2 DEF Good, Onward
<1>2. CASE Halts(g) /\ Private(g)
  <2>1. After(g) = AfterDo(ftp_do(g)) /\ g.result = "OK" /\ g.state = "STOP"
    BY <1>0, <1>2 DEF After, Halts, Ready
  <2>2. DoingNext(ftp_do(g))
    BY <1>2, DoQuiet DEF Halts, LoginNext, Login
  <2>3. CacheNext(ftp_do(g))
    BY <1>0, <2>1, LoggedInNext
  <2> QED BY <2>1, <2>2, <2>3, DoingGood
<1>3. CASE Fails(g) /\ g.result \notin Harmless
  <2>1. After(g) = ftp_done(g, g.result, FALSE)
    BY <1>3 DEF After, AfterDo, Fails
  <2>2. Closed(After(g))
    BY <1>0, <1>3, <2>1, DoneClosed DEF Fails
  <2> QED BY <2>2 DEF Closed, Good
<1> QED BY <1>1, <1>2, <1>3 DEF LoginNext

\* The data connection is there, or is waited for.
LEMMA AllowGood ==
    ASSUME FtpAssumption, NEW f, GoingMore(f), Held(f), f.ctl_valid, f.transfer = "BODY"
    PROVE  Good(AfterDo(AllowServerConnect(f))) /\ Good(AfterDo(InitiateTransfer(f)))
<1>1. ASSUME NEW g, CacheNext(g), DOMAIN g = Fields, g.use_ssl = f.use_ssl, g.open = f.open,
             g.req = f.req, g.phase = "more", g.out = <<>>, g.result = "OK",
             g.ctl_valid = f.ctl_valid, g.transfer = f.transfer
      PROVE  Good(AfterDo(g))
  <2>1. Held(g)
    BY <1>1 DEF Held
  <2> QED BY <1>1, <2>1, GoodNext
<1> DEFINE g == InitiateTransfer(f)
           k == Stop(f)
           h == [k EXCEPT !.wait = TRUE]
<1>2. Good(AfterDo(g))
  <2>1. /\ DOMAIN g = Fields /\ g.use_ssl = f.use_ssl /\ g.open = f.open /\ g.req = f.req
        /\ g.phase = "more" /\ g.out = <<>> /\ g.result = "OK" /\ g.ctl_valid = f.ctl_valid
        /\ g.transfer = f.transfer
    BY FieldNames DEF InitiateTransfer, SetupTransfer, Stop, GoingMore, Going
  <2>2. CacheNext(g)
    BY AllowNext
  <2> HIDE DEF g
  <2> QED BY <1>1, <2>1, <2>2
<1>3. f.req.port => Good(AfterDo(h))
  <2>1. /\ DOMAIN k = Fields /\ k.use_ssl = f.use_ssl /\ k.open = f.open /\ k.req = f.req
        /\ k.phase = "more" /\ k.out = <<>> /\ k.result = "OK" /\ k.ctl_valid = f.ctl_valid
        /\ k.transfer = f.transfer
    BY FieldNames DEF Stop, GoingMore, Going
  <2> HIDE DEF k
  <2>2. /\ DOMAIN h = Fields /\ h.use_ssl = f.use_ssl /\ h.open = f.open /\ h.req = f.req
        /\ h.phase = "more" /\ h.out = <<>> /\ h.result = "OK" /\ h.ctl_valid = f.ctl_valid
        /\ h.transfer = f.transfer
    BY <2>1, FieldNames
  <2>3. f.req.port => CacheNext(h)
    <3>1. CacheNext(AllowServerConnect(f))
      BY AllowNext
    <3>2. f.req.port => AllowServerConnect(f) = h
      BY DEF AllowServerConnect, k
    <3> HIDE DEF h
    <3> QED BY <3>1, <3>2
  <2> HIDE DEF h
  <2> QED BY <1>1, <2>2, <2>3
<1>4. AllowServerConnect(f) = IF f.req.port THEN h ELSE g
  BY DEF AllowServerConnect
<1> HIDE DEF g, h
<1>5. Good(AfterDo(AllowServerConnect(f)))
  <2>1. CASE f.req.port
    BY <1>3, <1>4, <2>1
  <2>2. CASE ~f.req.port
    BY <1>2, <1>4, <2>2
  <2> QED BY <2>1, <2>2
<1> QED BY <1>2, <1>5 DEF g

LEMMA BeginsGood ==
    ASSUME FtpAssumption, NEW f, ReadyMore(f), GoingMore(f), f.state \in TransferState,
           NEW r, r.code = 150
    PROVE  Good(After(ftp_statemachine(f, r)))
<1>0. Held(f) /\ f.phase = "more" /\ f.ctl_valid /\ f.transfer = "BODY"
  BY DEF ReadyMore, More
<1>1. ~(r.code >= 400) /\ r.code \in {125, 150}
  OBVIOUS
<1>2. \E v : ftp_statemachine(f, r) \in {AllowServerConnect(f), AllowServerConnect([f EXCEPT !.retr_size = v])}
  <2>1. CASE f.state = "STOR"
    BY <1>1, <2>1 DEF ftp_statemachine, ftp_state_stor_resp
  <2>2. CASE f.state \in {"LIST", "RETR"}
    <3>1. ftp_statemachine(f, r) = ftp_state_get_resp(f, r)
      BY <2>2 DEF ftp_statemachine
    <3> QED BY <1>1, <3>1 DEF ftp_state_get_resp
  <2> QED BY <2>1, <2>2 DEF TransferState
<1>3. ASSUME NEW v
      PROVE  /\ Good(AfterDo(AllowServerConnect([f EXCEPT !.retr_size = v])))
             /\ AllowServerConnect([f EXCEPT !.retr_size = v]).phase = "more"
  <2> DEFINE k == [f EXCEPT !.retr_size = v]
  <2>1. GoingMore(k)
    BY TypedSets DEF Carried
  <2>2. Held(k) /\ k.ctl_valid /\ k.transfer = "BODY" /\ k.phase = "more"
    BY <1>0, FieldNames DEF Held
  <2> HIDE DEF k
  <2>3. AllowServerConnect(k).phase = "more"
    BY <2>2, FieldNames DEF AllowServerConnect, InitiateTransfer, SetupTransfer, Stop, Held
  <2>4. Good(AfterDo(AllowServerConnect(k)))
    BY <2>1, <2>2, AllowGood
  <2> QED BY <2>3, <2>4 DEF k
<1>4. AllowServerConnect(f).phase = "more"
  BY <1>0, FieldNames DEF AllowServerConnect, InitiateTransfer, SetupTransfer, Stop, Held
<1>5. Good(AfterDo(AllowServerConnect(f)))
  BY <1>0, AllowGood
<1>6. \A g : g.phase = "more" => After(g) = AfterDo(g)
  BY DEF After
<1> QED BY <1>2, <1>3, <1>4, <1>5, <1>6

LEMMA RespondCached ==
    ASSUME FtpAssumption, RangesFit, Followed, Talk, Cached, Respond
    PROVE  Cached'
<1> DEFINE f == [ftpc EXCEPT !.pending = FALSE]
<1>0. /\ ftpc.phase \in {"connect", "doing", "more"} /\ ftpc.state # "STOP" /\ replies # <<>>
      /\ Commit(After(ftp_statemachine(f, Head(replies))), Tail(replies))
      /\ DOMAIN srv = ServerFields /\ Awaits(ftpc) = "answer"
  BY DEF Respond, Talk, Awaits
<1>1. todo = <<>> /\ Served(ftpc)
  BY <1>0, FourWays DEF Unserved, Served
<1>2. PICK r : /\ Heard(r, ftpc)
               /\ \/ r.code # 150 /\ ~Working /\ replies = <<r>>
                  \/ r.code = 150 /\ Working /\ replies = <<r>>
                  \/ r.code = 150 /\ ~Working /\ \E s : replies = <<r, s>>
  BY <1>1 DEF Served
<1>3. Head(replies) = r
  BY <1>2, OneMessage, TwoMessages
<1>4. /\ Held(f) /\ Ready(f) /\ f.phase = ftpc.phase /\ f.state = ftpc.state
      /\ ftpc.phase # "connect" => Private(f)
  BY <1>0, Reads, Busy DEF Ready
<1>5. Heard(r, f)
  BY <1>0, <1>2, Reads DEF Heard
<1>6. r.code # 0 /\ Kept(f, r.code)
  <2>1. ftpc.open
    BY <1>0, Busy DEF Held
  <2>2. Kept(ftpc, Code) /\ r.code # 0
    BY <1>0, <1>3, <2>1 DEF Cached
  <2>3. Code = r.code
    BY <1>0, <1>1, <1>3 DEF Code
  <2>4. Alike(f, ftpc)
    BY <1>0, Busy, FieldNames DEF Alike, Held
  <2> HIDE DEF f
  <2> QED BY <1>4, <2>2, <2>3, <2>4, KeptAlike
<1>7. ASSUME ftpc.phase = "connect" PROVE Login(f) /\ ConnectKept(f)
  <2>1. ConnectKept(ftpc)
    BY <1>7 DEF Talk, ClientOK
  <2> QED BY <1>0, <1>4, <1>7, <2>1, Reads DEF Login, ConnectKept, LoginKept, Private
<1>8. ASSUME ftpc.phase = "doing" PROVE Doing(f) /\ DoingKept(f)
  <2>1. DoingKept(ftpc)
    BY <1>8 DEF Talk, ClientOK
  <2> QED BY <1>0, <1>4, <1>8, <2>1, Reads DEF Doing, DoingKept
<1>9. ASSUME ftpc.phase = "more" PROVE More(f) /\ MoreKept(f)
  <2>1. MoreKept(ftpc)
    BY <1>9 DEF Talk, ClientOK
  <2> QED BY <1>0, <1>4, <1>9, <2>1, Reads DEF More, MoreKept, Ranged
<1> HIDE DEF f
<1> DEFINE g == ftp_statemachine(f, r)
<1>10. CASE r.code # 150
  <2>1. Tail(replies) = <<>>
    BY <1>2, <1>10, OneMessage
  <2>2. Good(After(g)) /\ AfterQuiet(After(g))
    <3>1. CASE ftpc.phase = "connect"
      <4>1. LoginNext(g)
        BY <1>4, <1>5, <1>7, <3>1, LoginResponds
      <4>2. PathKept(f, r.code) /\ TypeKept(f, r.code) /\ RestKept(f, r.code)
        BY <1>6 DEF Kept
      <4>3. f.phase = "connect" /\ f.state \in EarlyState \cup LateState
        BY <1>4, <1>7, <3>1 DEF ConnectKept
      <4>4. LogsIn(f)
        BY <1>4, <4>2, <4>3 DEF LogsIn, Held, Ready, PathKept, TypeKept, RestKept, TypeState,
                                EarlyState, LateState, NameState
      <4>5. /\ f.state \in {"SYST", "NAMEFMT"} => f.entrypath
            /\ f.state = "PWD" => r.code = 257
        BY <1>6, <4>2, <4>3 DEF PathKept
      <4>6. LogsNext(g)
        BY <4>3, <4>4, <4>5, LoginRespNext
      <4> HIDE DEF g
      <4> QED BY <4>1, <4>6, LoginGood, AfterLogin
    <3>2. CASE ftpc.phase = "doing"
      <4>1. DoingNext(g) /\ CacheNext(g)
        BY <1>4, <1>6, <1>8, <3>2, DoingResponds, DoingRespNext
      <4> HIDE DEF g
      <4> QED BY <4>1, DoingGood
    <3>3. CASE ftpc.phase = "more"
      <4>1. MoreNext(g)
        BY <1>0, <1>4, <1>5, <1>9, <1>10, <3>3, MoreResponds
      <4>2. CacheNext(g)
        BY <1>0, <1>4, <1>6, <1>9, <3>3, MoreRespNext
      <4> HIDE DEF g
      <4> QED BY <4>1, <4>2, MoreGood
    <3> QED BY <1>0, <3>1, <3>2, <3>3
  <2> HIDE DEF g
  <2> QED BY <1>0, <1>1, <1>3, <2>1, <2>2, CommitGood DEF g
<1>11. CASE r.code = 150
  <2>1. f.state \in TransferState
    BY <1>5, <1>11 DEF Heard
  <2>2. ftpc.phase = "more"
    BY <1>0, <1>7, <1>8, <2>1, <1>4
       DEF ConnectKept, DoingKept, AskState, DataState, EarlyState, LateState, NameState, TransferState
  <2>3. ReadyMore(f)
    BY <1>4, <1>9, <2>2 DEF ReadyMore, MoreKept, Ranged
  <2>4. GoingMore(f)
    <3>1. f.state \notin WayState /\ f.state # "RETR_REST"
      BY <2>1 DEF TransferState, WayState
    <3> QED BY <1>4, <1>6, <2>2, <3>1, AnswerFinds DEF GoingMore
  <2>5. AfterLast(After(g)) /\ Good(After(g))
    BY <1>11, <2>1, <2>3, <2>4, TransferBegins, BeginsGood
  <2> HIDE DEF g
  <2> QED BY <1>0, <1>1, <1>3, <2>5, CommitGood DEF g
<1> QED BY <1>10, <1>11

\* What the client knows when it waits for no command's answer.
LEMMA RestsSettled ==
    ASSUME Talk, Cached, ftpc.phase \in {"more", "perform"}, ftpc.state = "STOP"
    PROVE  Settled(ftpc)
<1>1. ftpc.open /\ Awaits(ftpc) # "end"
  BY Busy DEF Held, Awaits
<1>2. Kept(ftpc, 0)
  BY <1>1, KeptAtRest DEF Cached
<1> QED BY <1>2 DEF Kept, PathKept, TypeKept, RestKept, Settled, TypeState, WayState

LEMMA ConnectedCached ==
    ASSUME Talk, Cached, Connected
    PROVE  Cached'
<1>1. /\ ftpc.phase = "more" /\ ftpc.second = "connecting"
      /\ ftpc' = [ftpc EXCEPT !.second = "open"] /\ UNCHANGED <<srv, todo, replies>>
  BY DEF Connected
<1>2. MoreKept(ftpc) /\ Held(ftpc)
  BY <1>1, Busy DEF Talk, ClientOK
<1>3. ftpc.state = "STOP" /\ ~ftpc.wait /\ Quiet
  BY <1>1, <1>2, FourWays DEF MoreKept, Awaits
<1>4. Settled(ftpc)
  BY <1>1, <1>3, RestsSettled
<1> DEFINE g == ftpc'
<1>5. /\ g.phase = "more" /\ g.state = "STOP" /\ g.req = ftpc.req /\ g.entrypath = ftpc.entrypath
      /\ g.prevpath = ftpc.prevpath /\ g.transfertype = ftpc.transfertype /\ ~g.wait
  BY <1>1, <1>2, <1>3, FieldNames DEF Held
<1>6. (Awaits(ftpc) = "nothing")' /\ todo' = <<>>
  BY <1>1, <1>3, <1>5 DEF Awaits, Quiet
<1>7. Kept(ftpc', 0)
  BY <1>4, <1>5 DEF Settled, Kept, PathKept, TypeKept, RestKept, TypeState, WayState, ListState,
                    StorState, RetrState, SizeState, InPlace, Recalls, TypeKnown
<1>8. Kept(ftpc', Code')
  BY <1>5, <1>7, KeptAtRest
<1>9. Kept(ftpc, Code)'
  BY <1>1, <1>8, KeptStays DEF SamePlace
<1>10. \A c : <<>> # <<c>>
  BY OneMessage
<1> QED BY <1>6, <1>9, <1>10 DEF Cached

LEMMA ConnectFailsCached ==
    ASSUME FtpAssumption, Talk, Cached, "TLS" \notin Faults, ConnectFails
    PROVE  Cached'
<1> DEFINE k == [ftp_epsv_disable(ftpc) EXCEPT !.phase = "doing"]
           d == ftp_done(ftpc, "COULDNT_CONNECT", FALSE)
<1>1. /\ ftpc.phase = "more" /\ ftpc.second = "connecting"
      /\ Commit(IF ftpc.count1 = 0 THEN k ELSE d, replies)
  BY DEF ConnectFails
<1>2. /\ MoreKept(ftpc) /\ Held(ftpc) /\ Private(ftpc) /\ ftpc.out = <<>> /\ ftpc.result = "OK"
      /\ DOMAIN srv = ServerFields
  BY <1>1, Busy DEF Talk, ClientOK
<1>3. Quiet
  BY <1>1, <1>2, FourWays DEF MoreKept, Awaits
<1>4. CASE ftpc.count1 = 0
  <2>1. DoingNext(k)
    BY <1>1, <1>2, EpsvDisabled DEF MoreKept
  <2>2. k.state = "PASV" /\ k.result = "OK"
    BY <1>2, FieldNames DEF ftp_epsv_disable, Send, Held
  <2>3. AfterDo(k) = k
    BY <2>2 DEF AfterDo
  <2>4. Going(ftpc)
    BY <1>1, <1>2, RestsSettled DEF Going, Held, MoreKept
  <2>5. CacheNext(k)
    BY <2>4, EpsvNext
  <2>6. AfterQuiet(k) /\ Good(k)
    BY <2>1, <2>3, <2>5, DoingGood
  <2> HIDE DEF k
  <2> QED BY <1>1, <1>2, <1>3, <1>4, <2>6, CommitGood DEF Quiet
<1>5. CASE ftpc.count1 # 0
  <2>1. "COULDNT_CONNECT" \notin Harmless
    BY DEF Harmless
  <2>2. Closed(d)
    BY <1>2, <2>1, DoneClosed
  <2> HIDE DEF d
  <2> QED BY <1>1, <1>5, <2>2, CommitLost
<1> QED BY <1>4, <1>5

LEMMA DoMoreCached ==
    ASSUME FtpAssumption, Followed, Talk, Cached, DoMore
    PROVE  Cached'
<1> DEFINE g == AfterDo(Kickstart(ftpc))
<1>1. /\ ftpc.phase = "more" /\ ftpc.state = "STOP" /\ ~ftpc.wait
      /\ ftpc.second \in {"open", "listen"} /\ Commit(g, replies)
  BY DEF DoMore
<1>2. /\ MoreKept(ftpc) /\ Held(ftpc) /\ Private(ftpc) /\ ftpc.out = <<>> /\ ftpc.result = "OK"
      /\ DOMAIN srv = ServerFields
  BY <1>1, Busy DEF Talk, ClientOK
<1>3. Quiet
  BY <1>1, FourWays DEF Awaits
<1>4. MoreNext(Kickstart(ftpc))
  BY <1>1, <1>2, Kickstarts DEF More, Ready, MoreKept, Ranged
<1>5. GoingMore(ftpc)
  BY <1>1, <1>2, RestsSettled DEF GoingMore, Going, Held
<1>6. CacheNext(Kickstart(ftpc))
  BY <1>2, <1>5, KickstartNext DEF Held, FtpAssumption
<1>7. AfterQuiet(g) /\ Good(g)
  BY <1>4, <1>6, MoreGood
<1> HIDE DEF g
<1> QED BY <1>1, <1>2, <1>3, <1>7, CommitGood DEF Quiet

LEMMA AcceptCached ==
    ASSUME FtpAssumption, Talk, Cached, Accepted \/ NotAccepted \/ AcceptTimeout
    PROVE  Cached'
<1>1. ftpc.phase = "more" /\ ftpc.wait
  BY DEF Accepted, NotAccepted, AcceptTimeout
<1>2. /\ MoreKept(ftpc) /\ Held(ftpc) /\ Private(ftpc) /\ ftpc.out = <<>> /\ ftpc.result = "OK"
      /\ DOMAIN srv = ServerFields
  BY <1>1, Busy DEF Talk, ClientOK
<1>3. ftpc.state = "STOP" /\ LastWordDue
  BY <1>1, <1>2, FourWays DEF MoreKept, Awaits
<1>4. Settled(ftpc)
  BY <1>1, <1>3, RestsSettled
<1>5. CASE Accepted
  <2> DEFINE f == [ftpc EXCEPT !.wait = FALSE, !.do_more = FALSE, !.second = "open"]
             h == InitiateTransfer(f)
             g == Did(h)
  <2>1. Commit(g, replies)
    BY <1>5 DEF Accepted
  <2>2. /\ Held(f) /\ Private(f) /\ f.phase = "more" /\ ~f.wait /\ f.ctl_valid
        /\ f.out = <<>> /\ f.result = "OK" /\ f.transfer = "BODY"
        /\ f.req = ftpc.req /\ f.entrypath = ftpc.entrypath /\ f.prevpath = ftpc.prevpath
        /\ f.transfertype = ftpc.transfertype
    BY <1>1, <1>2, FieldNames DEF Held, Private, MoreKept
  <2> HIDE DEF f
  <2>3. GoingMore(f)
    BY <1>4, <2>2, SettledAlike DEF GoingMore, Going, Held
  <2>4. h.result = "OK" /\ h.state = "STOP" /\ ~h.wait /\ h.phase = "more"
    BY <2>2, FieldNames DEF InitiateTransfer, SetupTransfer, Stop, Held
  <2>5. AfterLast(g) /\ Good(AfterDo(h))
    BY <2>2, <2>3, Initiated, AllowGood
  <2> HIDE DEF h
  <2>6. AfterDo(h) = g
    BY <2>4 DEF AfterDo
  <2> HIDE DEF g
  <2> QED BY <1>2, <1>3, <2>1, <2>5, <2>6, CommitGood DEF LastWordDue
<1>6. CASE NotAccepted
  <2> DEFINE f == [ftpc EXCEPT !.pending = FALSE]
             status == IF Head(replies).code >= 400 THEN "FTP_ACCEPT_FAILED" ELSE "WEIRD_SERVER_REPLY"
             g == ftp_done(f, status, FALSE)
  <2>1. Commit(g, Tail(replies)) /\ replies # <<>>
    BY <1>6 DEF NotAccepted
  <2>2. Tail(replies) = <<>>
    BY <1>3, <2>1, OneMessage DEF LastWordDue
  <2>3. /\ Held(f) /\ Private(f) /\ f.out = <<>> /\ ~f.pending /\ f.transfer = "BODY"
        /\ f.ctl_valid
    BY <1>1, <1>2, Reads DEF MoreKept
  <2>4. /\ f.req = ftpc.req /\ f.entrypath = ftpc.entrypath /\ f.prevpath = ftpc.prevpath
        /\ f.transfertype = ftpc.transfertype
    BY <1>2, FieldNames DEF Held
  <2> HIDE DEF f
  <2>5. Leaving(f)
    BY <1>4, <2>4, SettledAlike, SettledLeaves
  <2>6. AfterQuiet(g) /\ Good(g)
    BY <2>3, <2>5, DoneQuiet, DoneGood
  <2> HIDE DEF g
  <2> QED BY <1>2, <1>3, <2>1, <2>2, <2>6, CommitGood DEF LastWordDue
<1>7. CASE AcceptTimeout
  <2> DEFINE g == ftp_done(ftpc, "FTP_ACCEPT_TIMEOUT", FALSE)
  <2>1. Commit(g, replies) /\ replies = <<>>
    BY <1>7 DEF AcceptTimeout
  <2>2. Leaving(ftpc)
    BY <1>4, SettledLeaves
  <2>3. AfterLast(g) /\ Good(g)
    BY <1>2, <1>3, <2>2, DoneTimeout, DoneGood DEF MoreKept
  <2> HIDE DEF g
  <2> QED BY <1>2, <1>3, <2>1, <2>3, CommitGood DEF LastWordDue
<1> QED BY <1>5, <1>6, <1>7

LEMMA ByteMovedCached ==
    ASSUME Talk, Cached, ftpc.phase = "perform", NEW n, ftpc' = [ftpc EXCEPT !.n = n],
           UNCHANGED <<srv, todo, replies>>
    PROVE  Cached'
<1>1. Held(ftpc) /\ LastWordDue /\ Awaits(ftpc) = "last"
  BY Busy, FourWays DEF Awaits, Talk, ClientOK
<1>2. Alike(ftpc', ftpc) /\ ftpc'.state = ftpc.state /\ (Awaits(ftpc) = "last")'
  BY <1>1, FieldNames DEF Alike, Held, Awaits
<1>3. Kept(ftpc, Code)
  BY <1>1 DEF Cached, Held
<1>4. Kept(ftpc', Code)
  BY <1>2, <1>3, KeptAlike
<1>5. Code' = Code
  BY DEF Code
<1>6. Kept(ftpc, Code)'
  BY <1>4, <1>5, KeptStays DEF SamePlace
<1>7. \A c : <<>> # <<c>>
  BY OneMessage
<1> QED BY <1>1, <1>2, <1>6, <1>7 DEF Cached, LastWordDue

LEMMA PerformCached ==
    ASSUME FtpAssumption, Talk, Cached, ReadData \/ ReadEnd \/ WriteData \/ WriteEnd
    PROVE  Cached'
<1>1. ftpc.phase = "perform"
  BY DEF ReadData, ReadEnd, WriteData, WriteEnd
<1>2. /\ Held(ftpc) /\ Private(ftpc) /\ ftpc.out = <<>> /\ PerformKept(ftpc) /\ LastWordDue
      /\ DOMAIN srv = ServerFields
  BY <1>1, Busy, FourWays DEF Awaits, Talk, ClientOK
<1>3. Settled(ftpc)
  BY <1>1, <1>2, RestsSettled DEF PerformKept
<1>4. ASSUME NEW f, Held(f), Private(f), f.out = <<>>, PerformKept(f), Settled(f),
             NEW status, NEW early \in BOOLEAN, early => status # "OK",
             Commit(ftp_done(f, status, early), replies)
      PROVE  Cached'
  <2>1. AfterLast(ftp_done(f, status, early))
    BY <1>4, DoneLast DEF PerformKept
  <2>2. Leaving(f)
    BY <1>4, SettledLeaves
  <2>3. Good(ftp_done(f, status, early))
    BY <1>4, <2>2, DoneGood DEF PerformKept
  <2> QED BY <1>2, <1>4, <2>1, <2>3, CommitGood DEF LastWordDue
<1>5. CASE ReadData
  <2> DEFINE f == [ftpc EXCEPT !.n = @ + 1]
  <2>1. \/ Commit(ftp_done(f, "OK", FALSE), replies)
        \/ ftpc' = f /\ UNCHANGED <<srv, todo, replies>>
    BY <1>5 DEF ReadData
  <2>2. Held(f) /\ Private(f) /\ f.out = <<>> /\ PerformKept(f)
    BY <1>2, FieldNames DEF Held, Private, PerformKept
  <2>3. /\ f.req = ftpc.req /\ f.entrypath = ftpc.entrypath /\ f.prevpath = ftpc.prevpath
        /\ f.transfertype = ftpc.transfertype
    BY <1>2, FieldNames DEF Held
  <2>4. ASSUME ftpc' = f, UNCHANGED <<srv, todo, replies>> PROVE Cached'
    BY <1>1, <2>4, ByteMovedCached
  <2> HIDE DEF f
  <2>5. Settled(f)
    BY <1>3, <2>3, SettledAlike
  <2> QED BY <1>4, <2>1, <2>2, <2>4, <2>5
<1>6. CASE ReadEnd
  <2>1. Commit(ftp_done(ftpc, "OK", FALSE), replies) \/ Commit(ftp_done(ftpc, "PARTIAL_FILE", TRUE), replies)
    BY <1>6 DEF ReadEnd
  <2> QED BY <1>2, <1>3, <1>4, <2>1
<1>7. CASE WriteData
  BY <1>1, <1>7, ByteMovedCached DEF WriteData
<1>8. CASE WriteEnd
  <2>1. Commit(ftp_done(ftpc, "OK", FALSE), replies)
    BY <1>8 DEF WriteEnd
  <2> QED BY <1>2, <1>3, <1>4, <2>1
<1> QED BY <1>5, <1>6, <1>7, <1>8

LEMMA ReadLastCached ==
    ASSUME FtpAssumption, Talk, Cached, ReadLast
    PROVE  Cached'
<1> DEFINE f == [ftpc EXCEPT !.pending = FALSE]
           code == Head(replies).code
           g == IF f.phase = "final" THEN FinalResp(f, code) ELSE PostquoteResp(f, code)
<1>1. /\ ftpc.phase \in {"final", "postquote"} /\ replies # <<>> /\ Commit(g, Tail(replies))
      /\ DOMAIN srv = ServerFields
  BY DEF ReadLast, Talk
<1>2. /\ Held(f) /\ Private(f) /\ f.out = <<>> /\ ~f.pending /\ f.second = "none"
      /\ f.phase = ftpc.phase /\ f.state = ftpc.state /\ (Aborts(f) <=> Aborts(ftpc))
  BY <1>1, Reads DEF Talk, ClientOK, Aborts
<1>3. ASSUME f.state = "STOP", Awaits(ftpc) # "end" PROVE Retained(f)
  <2>1. ftpc.open /\ DOMAIN ftpc = Fields
    BY <1>1, Busy DEF Held
  <2>2. Kept(ftpc, 0)
    BY <1>2, <1>3, <2>1, KeptAtRest DEF Cached
  <2>3. Retained(ftpc)
    BY <1>1, <1>2, <1>3, <2>2 DEF Kept, PathKept, TypeKept, RestKept, Retained, TypeState
  <2>4. /\ f.entrypath = ftpc.entrypath /\ f.prevpath = ftpc.prevpath
        /\ f.transfertype = ftpc.transfertype
    BY <2>1, FieldNames
  <2> HIDE DEF f
  <2> QED BY <2>3, <2>4 DEF Retained, Recalls, TypeKnown
<1> HIDE DEF f, code
<1>4. CASE f.phase = "final" /\ Aborts(f)
  <2> DEFINE c == [f EXCEPT !.close = TRUE]
  <2>1. DOMAIN c = Fields /\ c.use_ssl \in SslLevels /\ c.close
    BY <1>2, FieldNames DEF Held
  <2>2. g = Return(c, f.status, FALSE)
    BY <1>4 DEF FinalResp, Aborts
  <2> HIDE DEF c
  <2>3. Closed(g)
    BY <2>1, <2>2, ReturnClosed
  <2> HIDE DEF g
  <2> QED BY <1>1, <2>3, CommitLost
<1>5. CASE f.phase = "final" /\ ~Aborts(f)
  <2>1. f.state = "STOP" /\ LastWordDue /\ Awaits(ftpc) # "end"
    BY <1>1, <1>2, <1>5, FourWays DEF Awaits, Talk, ClientOK
  <2>2. todo = <<>> /\ Tail(replies) = <<>>
    BY <1>1, <2>1, OneMessage DEF LastWordDue
  <2> DEFINE result == IF f.dont_check \/ code \in {226, 250} THEN "OK"
                       ELSE IF code = 552 THEN "REMOTE_DISK_FULL" ELSE "PARTIAL_FILE"
  <2>3. g = Finish(f, f.status, result, FALSE)
    BY <1>5 DEF FinalResp, Aborts
  <2> HIDE DEF g, result
  <2>4. AfterQuiet(g) /\ Good(g)
    BY <1>2, <1>3, <2>1, <2>3, FinishQuiet, FinishGood
  <2> QED BY <1>1, <2>2, <2>4, CommitGood
<1>6. CASE f.phase = "postquote"
  <2>1. f.state = "STOP" /\ Served(ftpc) /\ Awaits(ftpc) # "end"
    BY <1>1, <1>2, <1>6, FourWays DEF Awaits, Talk, ClientOK, Unserved
  <2>2. todo = <<>> /\ Tail(replies) = <<>>
    BY <1>2, <2>1, OneMessage, ZenonT(60) DEF Served, Heard, TransferState
  <2>3. \/ \E result : g = Return(f, result, FALSE)
        \/ \E item : g = SendPostquote(f, item)
    BY <1>6 DEF PostquoteResp
  <2> HIDE DEF g
  <2>4. AfterQuiet(g) /\ Good(g)
    BY <1>2, <1>3, <2>1, <2>3, ReturnHeld, SendPostquoteQuiet, ReturnGood, SendPostquoteGood
  <2> QED BY <1>1, <2>2, <2>4, CommitGood
<1> QED BY <1>1, <1>2, <1>4, <1>5, <1>6

\* A connection whose last word has been given up is not followed further.
LEMMA GivenUpCached ==
    ASSUME Talk, LastGivenUp
    PROVE  Cached'
<1> DEFINE f == [ftpc EXCEPT !.pending = FALSE]
           g == Return(f, "ABORTED", FALSE)
<1>1. ftpc.phase \in {"final", "postquote"} /\ Commit(g, replies)
  BY DEF LastGivenUp
<1>2. Held(f) /\ f.out = <<>>
  BY <1>1, Reads
<1> HIDE DEF f
<1>3. CASE f.close
  <2>1. Closed(g)
    BY <1>2, <1>3, ReturnClosed DEF Held
  <2> QED BY <1>1, <2>1, CommitLost
<1>4. CASE ~f.close
  <2> DEFINE k == Fresh(f)
  <2>1. g = [k EXCEPT !.result = "ABORTED"]
    BY <1>4 DEF Return
  <2>2. DOMAIN k = Fields /\ k.phase = "idle"
    BY <1>2, FieldNames DEF Fresh, Held
  <2> HIDE DEF k
  <2>3. DOMAIN g = Fields /\ g.phase = "idle" /\ g.result = "ABORTED"
    <3> HIDE DEF g
    <3> QED BY <2>1, <2>2, FieldNames
  <2> HIDE DEF g
  <2>4. ftpc'.phase = "idle" /\ ftpc'.result = "ABORTED"
    BY <1>1, <2>3, FieldNames DEF Commit
  <2>5. (Awaits(ftpc) = "end")'
    BY <2>4 DEF Awaits, Forsaken
  <2> QED BY <2>5 DEF Cached
<1> QED BY <1>3, <1>4

LEMMA WedgeCached ==
    ASSUME Talk, Wedge
    PROVE  Cached'
<1> DEFINE c == [ftpc EXCEPT !.close = TRUE]
           g == IF ftpc.phase = "final" THEN Return(c, "OPERATION_TIMEDOUT", FALSE)
                ELSE ftp_done(ftpc, "OPERATION_TIMEDOUT", TRUE)
<1>1. ftpc.phase # "idle" /\ Commit(g, replies)
  BY DEF Wedge
<1>2. Held(ftpc) /\ ftpc.out = <<>>
  BY <1>1, Busy
<1>3. DOMAIN c = Fields /\ c.use_ssl \in SslLevels /\ c.close
  BY <1>2, FieldNames DEF Held
<1>4. Closed(Return(c, "OPERATION_TIMEDOUT", FALSE))
  <2> HIDE DEF c
  <2> QED BY <1>3, ReturnClosed
<1>5. Closed(ftp_done(ftpc, "OPERATION_TIMEDOUT", TRUE))
  BY <1>2, DoneClosed
<1>6. Closed(g)
  BY <1>4, <1>5
<1> HIDE DEF g
<1> QED BY <1>1, <1>6, CommitLost

-----------------------------------------------------------------------------
LEMMA CachedInit == Init => Cached
<1> SUFFICES ASSUME Init PROVE Cached
  OBVIOUS
<1>1. PICK l \in UseSsl : ftpc = NewConn(l)
  BY DEF Init
<1>2. ~ftpc.open
  BY <1>1, NewConnFields
<1> QED BY <1>2 DEF Cached

LEMMA CachedNext ==
    ASSUME FtpAssumption, "TLS" \notin Faults, RangesFit, Followed, Talk, Cached, Next
    PROVE  Cached'
<1>1. CASE \E r \in Requests : Start(r)
  BY <1>1, StartCached
<1>2. CASE Client
  <2>1. CASE Respond
    BY <2>1, RespondCached
  <2>2. CASE Connected
    BY <2>2, ConnectedCached
  <2>3. CASE ConnectFails
    BY <2>3, ConnectFailsCached
  <2>4. CASE DoMore
    BY <2>4, DoMoreCached
  <2>5. CASE Accepted \/ NotAccepted \/ AcceptTimeout
    BY <2>5, AcceptCached
  <2>6. CASE ReadData \/ ReadEnd \/ WriteData \/ WriteEnd
    BY <2>6, PerformCached
  <2>7. CASE ReadLast
    BY <2>7, ReadLastCached
  <2>8. CASE LastGivenUp
    BY <2>8, GivenUpCached
  <2>9. CASE Wedge
    BY <2>9, WedgeCached
  <2> QED BY <1>2, <2>1, <2>2, <2>3, <2>4, <2>5, <2>6, <2>7, <2>8, <2>9 DEF Client
<1>3. CASE Server \/ OtherMkdir
  BY <1>3, ServerCached
<1> QED BY <1>1, <1>2, <1>3 DEF Next

LEMMA CachedUnchanged ==
    ASSUME Cached, UNCHANGED vars
    PROVE  Cached'
BY CachedFrame DEF vars, SamePlace

LEMMA CachedAgrees == Talk /\ Cached => CacheAgrees
<1> SUFFICES ASSUME Talk, Cached, todo # <<>>
             PROVE  LET verb == Head(todo).verb
                    IN  /\ verb \in {"SIZE", "MDTM", "RETR", "STOR", "APPE", "LIST"} =>
                              FullPath(ftpc.req) \/ srv.cwd = Wanted(ftpc.req)
                        /\ verb \in {"RETR", "STOR", "APPE"} => srv.type = TypeOf(ftpc.req.ascii)
                        /\ verb = "LIST" => srv.type = "A"
                        /\ verb = "RETR" => srv.rest = ftpc.resume
  BY DEF CacheAgrees
<1>1. CASE Awaits(ftpc) = "answer"
  <2>1. PICK c : todo = <<c>> /\ Ordinary(c, ftpc) /\ replies = <<>>
    BY <1>1, FourWays DEF Unserved, Served
  <2>2. Head(todo) = c
    BY <2>1, OneMessage
  <2>3. /\ ftpc.open /\ ftpc.phase \in {"connect", "doing", "more", "postquote"}
        /\ ftpc.phase = "more" => ftpc.state # "STOP"
    BY <1>1 DEF Awaits, Talk, ClientOK
  <2>4. Kept(ftpc, 0) /\ Command(c, ftpc)
    BY <1>1, <2>1, <2>3 DEF Cached, Code
  <2>5. PathKept(ftpc, 0) /\ TypeKept(ftpc, 0) /\ RestKept(ftpc, 0)
    BY <2>4 DEF Kept
  <2>6. /\ ftpc.phase = "connect" => ftpc.state \in EarlyState \cup LateState
        /\ ftpc.phase = "doing" => ftpc.state \in AskState \cup DataState
        /\ ftpc.phase = "postquote" => ftpc.state = "STOP"
    BY DEF Talk, ClientOK, ConnectKept, DoingKept
  <2>7. ASSUME c.verb \in {"SIZE", "MDTM"} PROVE InPlace(ftpc)
    <3>1. ftpc.state \notin WayState \cup EarlyState \cup LateState \cup {"STOP"}
      BY <2>4, <2>7 DEF Command, Fitting
    <3>2. ftpc.phase \in {"doing", "more"}
      BY <2>3, <2>6, <3>1
    <3> QED BY <2>5, <3>1, <3>2 DEF PathKept
  <2>8. ASSUME c.verb \in TransferVerb
        PROVE  /\ InPlace(ftpc)
               /\ c.verb = "LIST" => srv.type = "A"
               /\ c.verb # "LIST" => srv.type = TypeOf(ftpc.req.ascii)
               /\ c.verb = "RETR" => srv.rest = ftpc.resume
    <3>1. /\ ftpc.state \in TransferState /\ (c.verb = "LIST" <=> ftpc.state = "LIST")
          /\ c.verb = "RETR" <=> ftpc.state = "RETR"
      BY <2>1, <2>4, <2>8 DEF Ordinary, Command, Fitting
    <3>2. ftpc.phase = "more"
      BY <2>3, <2>6, <3>1 DEF TransferState, EarlyState, LateState, NameState, AskState, DataState
    <3>3. ftpc.state \notin WayState /\ ftpc.state \notin TypeState
      BY <3>1 DEF TransferState, WayState, TypeState
    <3>4. InPlace(ftpc)
      BY <2>5, <3>2, <3>3 DEF PathKept
    <3>5. /\ TypeKnown(ftpc) /\ (ftpc.state = "LIST" => ftpc.transfertype = "A")
          /\ ftpc.state # "LIST" => ftpc.transfertype = TypeOf(ftpc.req.ascii)
      BY <2>5, <3>1, <3>2, <3>3 DEF TypeKept, ListState, StorState, RetrState, TransferState
    <3>6. \A ascii : TypeOf(ascii) # None /\ "A" # None
      BY DEF TypeOf, None
    <3>7. ftpc.state = "RETR" => srv.rest = ftpc.resume
      BY <2>5 DEF RestKept
    <3> QED BY <3>1, <3>4, <3>5, <3>6, <3>7 DEF TypeKnown
  <2> QED BY <2>2, <2>7, <2>8 DEF InPlace, TransferVerb
<1>2. CASE Awaits(ftpc) # "answer"
  <2>1. AtEnd
    BY <1>2, FourWays DEF Quiet, LastWordDue
  <2>2. Head(todo).verb \in {"ABOR", "QUOTE"}
    BY <2>1, OneMessage DEF AtEnd, Abor
  <2> QED BY <2>2
<1> QED BY <1>1, <1>2

\* A command that names a file alone meets the server in the directory the URL means,
\* and RETR, STOR and LIST in the type and at the offset that the request wants,
\* whatever CWD, TYPE and REST the client leaves out: ftp_done remembers the path only
\* of a transfer that has entered it, over any number of transfers on one connection.
THEOREM CachesAreRight ==
    ASSUME "TLS" \notin Faults, RangesFit, Followed
    PROVE  Spec => []CacheAgrees
<1>1. Init => Talk /\ Cached
  BY TalkInit, CachedInit
<1>2. Talk /\ Cached /\ [Next]_vars => Talk' /\ Cached'
  BY FtpAssumption, TalkNext, TalkUnchanged, CachedNext, CachedUnchanged
<1>3. Talk /\ Cached => CacheAgrees
  BY CachedAgrees
<1> QED BY <1>1, <1>2, <1>3, PTL DEF Spec
=============================================================================
