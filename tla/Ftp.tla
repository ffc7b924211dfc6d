-------------------------------- MODULE Ftp --------------------------------
(***************************************************************************)
(* The FTP client of src/original/lib/ftp.c over pingpong.c, as the multi  *)
(* state machine drives it: one control connection that is logged in once  *)
(* and then carries any number of transfers, one after the other.          *)
(*                                                                         *)
(* ftpc is what the client keeps (struct ftp_conn, struct FTP and the bits *)
(* of the connection it uses).  An operator named after a function of the  *)
(* code maps ftpc to ftpc, and puts the command it sends into ftpc.out.    *)
(* The server is any honest server: it answers every command once, keeps   *)
(* its own directory, type and offset, and may refuse what it likes.       *)
(***************************************************************************)
EXTENDS Integers, Sequences

CONSTANTS
    Requests,       \* the transfers the application may ask for
    Dirs,           \* the directories that may exist on the server
    UseSsl,         \* values of CURLOPT_USE_SSL: subset of SslLevels
    Ccc,            \* CURLOPT_FTP_SSL_CCC: whether TLS is given up after login
    Account,        \* whether CURLOPT_FTP_ACCOUNT is set
    Alternative,    \* whether CURLOPT_FTP_ALTERNATIVE_TO_USER is set
    Faults          \* what goes wrong beyond the usual: subset of FaultNames

SslLevels == {"none", "try", "control", "all"}

\* TYPE, PWD: the server refuses that command.  TLS: the TLS handshake of a data
\* connection fails.
FaultNames == {"TYPE", "PWD", "TLS"}

Root == <<>>
Entry == <<"home">>                 \* the server's directory after login

\* What the application asks of one transfer.
Request ==
    [kind : {"get", "put", "head"}, method : {"nocwd", "single", "multi"},
     abs : BOOLEAN, dirs : Seq(STRING), file : BOOLEAN,
     port : BOOLEAN, pret : BOOLEAN, ascii : BOOLEAN, mdtm : BOOLEAN, timecond : BOOLEAN,
     resume : Int, max : Nat \cup {-1}, create : 0..2, len : Nat,
     quote : Seq(BOOLEAN), prequote : Seq(BOOLEAN), postquote : Seq(BOOLEAN)]

ASSUME FtpAssumption ==
    /\ Requests \subseteq Request
    /\ {Root, Entry} \subseteq Dirs
    /\ UseSsl \subseteq SslLevels
    /\ {Ccc, Account, Alternative} \subseteq BOOLEAN
    /\ Faults \subseteq FaultNames

None == "none"
Level(l) == CASE l = "none" -> 0 [] l = "try" -> 1 [] l = "control" -> 2 [] l = "all" -> 3

VARIABLES
    ftpc,       \* the client
    srv,        \* the server: its directories, and this session's directory, type, offset, job
    todo,       \* commands on their way to the server
    replies,    \* replies on their way to the client
    data        \* the data connection: established, bytes in flight, end of data

vars == <<ftpc, srv, todo, replies, data>>

------------------------------------------------------------------------------
(* Directories.  A path is a sequence of names from the root; a request has  *)
(* `dirs`, the names in its URL, and `abs`, whether the first is "/".        *)

DirItems(r) ==
    CASE r.method = "nocwd"  -> <<>>
      [] r.method = "single" -> IF r.abs \/ r.dirs # <<>> THEN <<[abs |-> r.abs, dirs |-> r.dirs]>> ELSE <<>>
      [] r.method = "multi"  -> (IF r.abs THEN <<[abs |-> TRUE, dirs |-> <<>>]>> ELSE <<>>)
                                \o [i \in 1..Len(r.dirs) |-> [abs |-> FALSE, dirs |-> <<r.dirs[i]>>]]

Resolve(cwd, item) == (IF item.abs THEN Root ELSE cwd) \o item.dirs

\* Where a command that names the file alone has to be given.
Wanted(r) ==
    IF r.method = "nocwd" THEN Entry
    ELSE Resolve(Entry, [abs |-> r.abs, dirs |-> r.dirs])

\* The part of the path that ftp_done remembers and ftp_parse_url_path compares.
PathKey(r) == IF r.method = "nocwd" THEN [abs |-> FALSE, dirs |-> <<>>]
              ELSE [abs |-> r.abs, dirs |-> r.dirs]
NoKey == [abs |-> TRUE, dirs |-> <<"no path">>]
HomeKey == [abs |-> FALSE, dirs |-> <<>>]

FullPath(r) == r.method = "nocwd" /\ r.abs

\* What the client reads off a reply: its code, a word or a number of its text.
Reply(code, word, size) == [code |-> code, word |-> word, size |-> size]

------------------------------------------------------------------------------
(* Sending.  Curl_pp_sendf marks that a response is expected.                *)

Send(f, verb, arg, state) ==
    [f EXCEPT !.out = Append(@, [verb |-> verb, arg |-> arg]),
              !.state = state, !.pending = TRUE]

Fail(f, result) == [f EXCEPT !.result = result]
Stop(f) == [f EXCEPT !.state = "STOP"]

\* Curl_setup_transfer: which way the data goes, and how much of it is expected.
SetupTransfer(f, way, size) == [f EXCEPT !.way = way, !.size = size]

------------------------------------------------------------------------------
(* The commands before a transfer, in the order in which they call on each   *)
(* other; each either sends one command or goes on to the next.              *)

ItemsOf(r, state) ==
    CASE state = "QUOTE" -> r.quote
      [] state \in {"RETR_PREQUOTE", "STOR_PREQUOTE"} -> r.prequote

\* ftp_state_quote up to its switch: count1 is the item, count2 whether it may fail.
NextItem(f, init) == IF init THEN 0 ELSE f.count1 + 1
MoreItems(f, init, state) == NextItem(f, init) < Len(ItemsOf(f.req, state))
SendItem(f, init, state) ==
    LET item == NextItem(f, init)
        mayFail == ItemsOf(f.req, state)[item + 1]
    IN  Send([f EXCEPT !.count1 = item, !.count2 = IF mayFail THEN 1 ELSE 0],
             "QUOTE", None, state)

ftp_state_retr(f, filesize) ==
    LET beyond == filesize < (IF f.resume < 0 THEN -f.resume ELSE f.resume)
        size == CASE f.resume = 0 \/ filesize = -1 -> filesize
                  [] f.resume < 0 -> -f.resume
                  [] OTHER -> filesize - f.resume
        from == IF f.resume < 0 /\ filesize # -1 THEN filesize + f.resume ELSE f.resume
        g == [f EXCEPT !.downloadsize = size, !.resume = from]
    IN  IF f.resume = 0
        THEN Send([f EXCEPT !.downloadsize = filesize], "RETR", None, "RETR")
        ELSE IF filesize # -1 /\ beyond THEN Fail(f, "BAD_DOWNLOAD_RESUME")
        ELSE IF size = 0 THEN Stop([SetupTransfer(g, None, -1) EXCEPT !.transfer = "NONE"])
        ELSE Send(g, "REST", from, "RETR_REST")

RetrPrequote(f, init) ==
    IF MoreItems(f, init, "RETR_PREQUOTE") THEN SendItem(f, init, "RETR_PREQUOTE")
    ELSE LET g == [f EXCEPT !.count1 = NextItem(f, init)]
         IN  IF f.transfer # "BODY" THEN Stop(g)
             ELSE IF f.req.ascii THEN Send(g, "RETR", None, "RETR")
             ELSE Send(g, "SIZE", None, "RETR_SIZE")

ftp_state_ul_setup(f, sizechecked) ==
    LET resuming == (f.resume # 0 /\ ~sizechecked) \/ (f.resume > 0 /\ sizechecked)
        left == IF f.infilesize > 0 THEN f.infilesize - f.resume ELSE f.infilesize
    IN  IF ~resuming THEN Send(f, "STOR", None, "STOR")
        ELSE IF f.resume < 0 THEN Send(f, "SIZE", None, "STOR_SIZE")
        ELSE IF f.infilesize > 0 /\ left <= 0
        THEN Stop([SetupTransfer(f, None, -1) EXCEPT !.transfer = "NONE"])
        ELSE Send([f EXCEPT !.infilesize = left], "APPE", None, "STOR")

StorPrequote(f, init) ==
    IF MoreItems(f, init, "STOR_PREQUOTE") THEN SendItem(f, init, "STOR_PREQUOTE")
    ELSE ftp_state_ul_setup([f EXCEPT !.count1 = NextItem(f, init)], FALSE)

ftp_state_use_pasv(f) ==
    IF f.epsv THEN Send([f EXCEPT !.count1 = 0], "EPSV", None, "PASV")
    ELSE Send([f EXCEPT !.count1 = 1], "PASV", None, "PASV")

\* fcmd: 0 for EPRT, 1 for PORT.
ftp_state_use_port(f, fcmd) ==
    LET sent == IF f.eprt THEN fcmd ELSE 1
    IN  Send([f EXCEPT !.count1 = sent, !.second = "listen"],
             IF sent = 0 THEN "EPRT" ELSE "PORT", None, "PORT")

ftp_state_prepare_transfer(f) ==
    IF f.transfer # "BODY" THEN RetrPrequote([f EXCEPT !.state = "RETR_PREQUOTE"], TRUE)
    ELSE IF f.req.port THEN ftp_state_use_port(f, 0)
    ELSE IF f.req.pret THEN Send(f, "PRET", None, "PRET")
    ELSE ftp_state_use_pasv(f)

ftp_state_rest(f) ==
    IF f.transfer # "BODY" /\ f.req.file THEN Send(f, "REST", 0, "REST")
    ELSE ftp_state_prepare_transfer(f)

ftp_state_size(f) ==
    IF f.transfer = "INFO" /\ f.req.file THEN Send(f, "SIZE", None, "SIZE")
    ELSE ftp_state_rest(f)

ftp_state_list(f) == Send(f, "LIST", None, "LIST")

ftp_state_type_resp(f, code, instate) ==
    IF code \div 100 # 2 THEN Fail(f, "FTP_COULDNT_SET_TYPE")
    ELSE CASE instate = "TYPE"      -> ftp_state_size(f)
           [] instate = "LIST_TYPE" -> ftp_state_list(f)
           [] instate = "RETR_TYPE" -> RetrPrequote(f, TRUE)
           [] instate = "STOR_TYPE" -> StorPrequote(f, TRUE)

TypeOf(ascii) == IF ascii THEN "A" ELSE "I"

ftp_nb_type(f, ascii, newstate) ==
    IF f.transfertype = TypeOf(ascii)
    THEN ftp_state_type_resp([f EXCEPT !.state = newstate], 200, newstate)
    ELSE Send([f EXCEPT !.transfertype = TypeOf(ascii)], "TYPE", TypeOf(ascii), newstate)

ftp_state_type(f) ==
    IF f.req.kind = "head" /\ f.req.file /\ f.transfertype # TypeOf(f.req.ascii)
    THEN ftp_nb_type([f EXCEPT !.transfer = "INFO"], f.req.ascii, "TYPE")
    ELSE ftp_state_size(f)

ftp_state_mdtm(f) ==
    IF f.req.mdtm /\ f.req.file THEN Send(f, "MDTM", None, "MDTM")
    ELSE ftp_state_type(f)

\* The argument of a CWD or MKD: the entry path, absolute, or a part of the URL's path.
HomeItem == [abs |-> TRUE, dirs |-> Entry]

ftp_state_cwd(f) ==
    LET g == [f EXCEPT !.count2 = 0]
        dirs == DirItems(f.req)
    IN  IF f.cwddone THEN ftp_state_mdtm(f)
        ELSE IF f.reuse /\ f.entrypath /\ ~(dirs # <<>> /\ dirs[1].abs)
        THEN Send([g EXCEPT !.cwdcount = 0], "CWD", HomeItem, "CWD")
        ELSE IF dirs # <<>>
        THEN Send([g EXCEPT !.cwdcount = 1], "CWD", dirs[1], "CWD")
        ELSE ftp_state_mdtm(g)

Quote(f, init) ==
    IF MoreItems(f, init, "QUOTE") THEN SendItem(f, init, "QUOTE")
    ELSE ftp_state_cwd([f EXCEPT !.count1 = NextItem(f, init)])

ftp_state_quote(f) ==
    CASE f.state = "QUOTE"         -> Quote(f, FALSE)
      [] f.state = "RETR_PREQUOTE" -> RetrPrequote(f, FALSE)
      [] f.state = "STOR_PREQUOTE" -> StorPrequote(f, FALSE)

------------------------------------------------------------------------------
(* Logging in.                                                               *)

ftp_state_user(f) == Send([f EXCEPT !.alternative = FALSE], "USER", None, "USER")

ftp_state_pwd(f) == Send(f, "PWD", None, "PWD")

ftp_state_loggedin(f) ==
    IF f.tls THEN Send(f, "PBSZ", None, "PBSZ") ELSE ftp_state_pwd(f)

ftp_state_user_resp(f, code) ==
    IF code = 331 /\ f.state = "USER" THEN Send(f, "PASS", None, "PASS")
    ELSE IF code \div 100 = 2 THEN ftp_state_loggedin(f)
    ELSE IF code = 332 /\ Account THEN Send(f, "ACCT", None, "ACCT")
    ELSE IF code # 332 /\ Alternative /\ ~f.alternative
    THEN Send([f EXCEPT !.alternative = TRUE], "USER", None, "USER")
    ELSE Fail(f, "LOGIN_DENIED")

Wait220(f, code) ==
    IF code = 230 /\ (Level(f.use_ssl) <= 1 \/ f.tls) THEN ftp_state_user_resp(f, code)
    ELSE IF code \notin {220, 230} THEN Fail(f, "WEIRD_SERVER_REPLY")
    ELSE IF f.use_ssl # "none" /\ ~f.tls
    THEN Send([f EXCEPT !.count3 = 0], "AUTH", None, "AUTH")
    ELSE ftp_state_user(f)

AuthResp(f, code) ==
    IF code \in {234, 334} THEN ftp_state_user([f EXCEPT !.tls = TRUE, !.datassl = FALSE])
    ELSE IF f.count3 < 1 THEN Send([f EXCEPT !.count3 = @ + 1], "AUTH", None, "AUTH")
    ELSE IF Level(f.use_ssl) > 1 THEN Fail(f, "USE_SSL_FAILED")
    ELSE ftp_state_user(f)

\* Mutant: a refused PROT is taken for granted.
ProtRespAnyway(f, code) ==
    LET g == [f EXCEPT !.datassl = IF code \div 100 = 2 THEN f.use_ssl # "control" ELSE @]
    IN  IF Ccc THEN Send(g, "CCC", None, "CCC") ELSE ftp_state_pwd(g)

ProtResp(f, code) ==
    LET ok == code \div 100 = 2
        g == [f EXCEPT !.datassl = IF ok THEN f.use_ssl # "control" ELSE @]
    IN  IF ~ok /\ f.use_ssl = "all" THEN Fail(f, "USE_SSL_FAILED")
        ELSE IF Ccc THEN Send(g, "CCC", None, "CCC")
        ELSE ftp_state_pwd(g)

\* What only the login reads is dropped when it ends.
LoginEnds(f) == [Stop(f) EXCEPT !.server_os = FALSE, !.alternative = FALSE]

\* A 257 names the entry path; one that is not absolute has the system looked up.
PwdResp(f, r) ==
    LET g == [f EXCEPT !.entrypath = @ \/ r.code = 257]
    IN  IF r.code = 257 /\ r.word = "odd" /\ ~f.server_os
        THEN Send(g, "SYST", None, "SYST")
        ELSE LoginEnds(g)

SystResp(f, r) ==
    LET g == [f EXCEPT !.server_os = @ \/ r.code = 215]
    IN  IF r.code = 215 /\ r.word = "OS/400" THEN Send(g, "NAMEFMT", None, "NAMEFMT")
        ELSE LoginEnds(g)

------------------------------------------------------------------------------
(* Answers to the commands of a transfer.                                    *)

\* An item of a quote list that may not fail has failed.
QuoteResp(f, code) ==
    IF code >= 400 /\ f.count2 = 0 THEN Fail(f, "QUOTE_ERROR") ELSE ftp_state_quote(f)

CwdItem(f) == DirItems(f.req)[f.cwdcount]

\* Mutant: a directory is made again however often CWD fails.
CwdRespMakesAgain(f, code) ==
    LET next == [f EXCEPT !.count2 = 0, !.cwdcount = @ + 1]
    IN  IF code \div 100 = 2
        THEN IF next.cwdcount <= Len(DirItems(f.req))
             THEN Send(next, "CWD", CwdItem(next), "CWD")
             ELSE ftp_state_mdtm(next)
        ELSE IF f.req.create # 0 /\ f.cwdcount # 0
        THEN Send([f EXCEPT !.count3 = IF f.req.create = 2 THEN 1 ELSE 0], "MKD", CwdItem(f), "MKD")
        ELSE Fail([f EXCEPT !.cwdfail = TRUE], "REMOTE_ACCESS_DENIED")

CwdResp(f, code) ==
    LET next == [f EXCEPT !.count2 = 0, !.cwdcount = @ + 1]
    IN  IF code \div 100 = 2
        THEN IF next.cwdcount <= Len(DirItems(f.req))
             THEN Send(next, "CWD", CwdItem(next), "CWD")
             ELSE ftp_state_mdtm(next)
        ELSE IF f.req.create # 0 /\ f.cwdcount # 0 /\ f.count2 = 0
        THEN Send([f EXCEPT !.count2 = 1, !.count3 = IF f.req.create = 2 THEN 1 ELSE 0],
                  "MKD", CwdItem(f), "MKD")
        ELSE Fail([f EXCEPT !.cwdfail = TRUE], "REMOTE_ACCESS_DENIED")

MkdResp(f, code) ==
    LET ok == code \div 100 = 2
    IN  IF ~ok /\ f.count3 = 0 THEN Fail(f, "REMOTE_ACCESS_DENIED")
        ELSE Send([f EXCEPT !.count3 = IF ok THEN @ ELSE @ - 1], "CWD", CwdItem(f), "CWD")

\* The time condition is "new": the file must be newer than the application's copy.
ftp_state_mdtm_resp(f, r) ==
    IF r.code = 213 /\ r.word = "old" THEN Stop([f EXCEPT !.transfer = "NONE"])
    ELSE ftp_state_type(f)

ftp_state_size_resp(f, r) ==
    LET filesize == IF r.code = 213 THEN r.size ELSE -1
    IN  IF r.code = 550 /\ f.state # "STOR_SIZE" THEN Fail(f, "REMOTE_FILE_NOT_FOUND")
        ELSE CASE f.state = "SIZE"      -> ftp_state_rest(f)
               [] f.state = "RETR_SIZE" -> ftp_state_retr(f, filesize)
               [] f.state = "STOR_SIZE" -> ftp_state_ul_setup([f EXCEPT !.resume = filesize], TRUE)

ftp_state_rest_resp(f, code) ==
    IF f.state = "REST" THEN ftp_state_prepare_transfer(f)
    ELSE IF code # 350 THEN Fail(f, "FTP_COULDNT_USE_REST")
    ELSE Send(f, "RETR", None, "RETR")

ftp_epsv_disable(f) ==
    Send([f EXCEPT !.epsv = FALSE, !.second = "none", !.count1 = @ + 1], "PASV", None, "PASV")

ftp_state_pasv_resp(f, code) ==
    IF code = (IF f.count1 = 0 THEN 229 ELSE 227)
    THEN Stop([f EXCEPT !.second = "connecting", !.do_more = TRUE])
    ELSE IF f.count1 = 0 THEN ftp_epsv_disable(f)
    ELSE Fail(f, "FTP_WEIRD_PASV_REPLY")

ftp_state_port_resp(f, code) ==
    LET g == [f EXCEPT !.eprt = @ /\ f.count1 # 0]
    IN  IF code \div 100 = 2 THEN Stop(f)
        ELSE IF f.count1 = 1 THEN Fail(g, "FTP_PORT_FAILED")
        ELSE ftp_state_use_port(g, 1)

\* InitiateTransfer, or for PORT the wait for the server: AllowServerConnect.
InitiateTransfer(f) ==
    LET up == f.req.kind = "put"
    IN  [Stop(SetupTransfer(f, IF up THEN "up" ELSE "down", IF up THEN -1 ELSE f.retr_size))
            EXCEPT !.pending = TRUE]
AllowServerConnect(f) ==
    IF f.req.port THEN [Stop(f) EXCEPT !.wait = TRUE] ELSE InitiateTransfer(f)

ftp_state_stor_resp(f, code) ==
    IF code >= 400 THEN Fail(Stop(f), "UPLOAD_FAILED") ELSE AllowServerConnect(f)

ftp_state_get_resp(f, r) ==
    LET list == f.state = "LIST"
        told == IF ~list /\ ~f.req.ascii /\ f.downloadsize < 1 THEN r.size ELSE f.downloadsize
        size == IF told > f.maxdownload /\ f.maxdownload > 0 THEN f.maxdownload
                ELSE IF ~list /\ f.req.ascii THEN -1 ELSE told
    IN  IF r.code \in {125, 150} THEN AllowServerConnect([f EXCEPT !.retr_size = size])
        ELSE IF list /\ r.code = 450 THEN Stop([f EXCEPT !.transfer = "NONE"])
        ELSE Fail(f, IF ~list /\ r.code = 550 THEN "REMOTE_FILE_NOT_FOUND"
                     ELSE "FTP_COULDNT_RETR_FILE")

ftp_statemachine(f, r) ==
    CASE f.state = "WAIT220" -> Wait220(f, r.code)
      [] f.state = "AUTH"    -> AuthResp(f, r.code)
      [] f.state \in {"USER", "PASS"} -> ftp_state_user_resp(f, r.code)
      [] f.state = "ACCT"    -> IF r.code = 230 THEN ftp_state_loggedin(f)
                                ELSE Fail(f, "FTP_WEIRD_PASS_REPLY")
      [] f.state = "PBSZ"    -> Send(f, "PROT", IF f.use_ssl = "control" THEN "C" ELSE "P", "PROT")
      [] f.state = "PROT"    -> ProtResp(f, r.code)
      [] f.state = "CCC"     -> ftp_state_pwd(f)
      [] f.state = "PWD"     -> PwdResp(f, r)
      [] f.state = "SYST"    -> SystResp(f, r)
      [] f.state = "NAMEFMT" -> IF r.code = 250 THEN ftp_state_pwd(f) ELSE LoginEnds(f)
      [] f.state \in {"QUOTE", "RETR_PREQUOTE", "STOR_PREQUOTE"} -> QuoteResp(f, r.code)
      [] f.state = "CWD"     -> CwdResp(f, r.code)
      [] f.state = "MKD"     -> MkdResp(f, r.code)
      [] f.state = "MDTM"    -> ftp_state_mdtm_resp(f, r)
      [] f.state \in {"TYPE", "LIST_TYPE", "RETR_TYPE", "STOR_TYPE"} ->
            ftp_state_type_resp(f, r.code, f.state)
      [] f.state \in {"SIZE", "RETR_SIZE", "STOR_SIZE"} -> ftp_state_size_resp(f, r)
      [] f.state \in {"REST", "RETR_REST"} -> ftp_state_rest_resp(f, r.code)
      [] f.state = "PRET"    -> IF r.code = 200 THEN ftp_state_use_pasv(f)
                                ELSE Fail(f, "FTP_PRET_FAILED")
      [] f.state = "PASV"    -> ftp_state_pasv_resp(f, r.code)
      [] f.state = "PORT"    -> ftp_state_port_resp(f, r.code)
      [] f.state \in {"LIST", "RETR"} -> ftp_state_get_resp(f, r)
      [] f.state = "STOR"    -> ftp_state_stor_resp(f, r.code)

------------------------------------------------------------------------------
(* A transfer from the connection's point of view.                           *)

NoRequest == [file |-> FALSE, dirs |-> <<>>, abs |-> FALSE]

\* A connection as allocate_conn and ftp_setup_connection leave it.
NewConn(use_ssl) ==
    [phase |-> "idle", open |-> FALSE, reuse |-> FALSE, close |-> FALSE, ctl_valid |-> FALSE,
     use_ssl |-> use_ssl, tls |-> FALSE, datassl |-> FALSE, alternative |-> FALSE,
     server_os |-> FALSE, entrypath |-> FALSE, prevpath |-> NoKey, cwdfail |-> FALSE,
     cwddone |-> FALSE, cwdcount |-> 0, count1 |-> 0, count2 |-> 0, count3 |-> 0,
     epsv |-> TRUE, eprt |-> TRUE, transfertype |-> None,
     state |-> "STOP", out |-> <<>>, pending |-> FALSE, second |-> "none", do_more |-> FALSE,
     wait |-> FALSE, dont_check |-> FALSE, maxdownload |-> -1, resume |-> 0,
     downloadsize |-> -1, retr_size |-> -1, infilesize |-> -1, size |-> -1, way |-> None, n |-> 0,
     transfer |-> "BODY", req |-> NoRequest, status |-> "OK", result |-> "OK"]

\* What belongs to one transfer: Curl_init_do and the struct FTP of a request.
Fresh(f) ==
    [f EXCEPT !.phase = "idle", !.state = "STOP", !.way = None, !.transfer = "BODY",
              !.count1 = 0, !.count2 = 0, !.count3 = 0, !.cwdcount = 0, !.cwddone = FALSE,
              !.cwdfail = FALSE, !.req = NoRequest, !.n = 0,
              !.do_more = FALSE, !.maxdownload = -1, !.resume = 0, !.downloadsize = -1,
              !.retr_size = -1, !.infilesize = -1, !.size = -1, !.status = "OK"]

\* multi_done: the connection goes back to the pool or is closed.
Return(f, result, premature) ==
    IF f.close \/ premature
    THEN [NewConn(f.use_ssl) EXCEPT !.result = result]
    ELSE [Fresh(f) EXCEPT !.result = result]

SendPostquote(f, item) == [Send(f, "QUOTE", None, f.state) EXCEPT !.phase = "postquote", !.count1 = item]

\* ftp_done once the server's last word is in (or was not waited for).  CURLOPT_CRLF, with
\* which an upload of any length will do, is left out.
Finish(f, status, result, premature) ==
    LET checked ==
            IF result # "OK" \/ premature THEN result
            ELSE IF f.req.kind = "put"
            THEN IF f.infilesize \notin {-1, f.n} /\ f.transfer = "BODY" THEN "PARTIAL_FILE" ELSE "OK"
            ELSE IF f.size \notin {-1, f.n} /\ f.maxdownload # f.n THEN "PARTIAL_FILE"
            ELSE "OK"
        g == [f EXCEPT !.transfer = "BODY", !.dont_check = FALSE]
    IN  IF status = "OK" /\ checked = "OK" /\ ~premature /\ f.req.postquote # <<>>
        THEN SendPostquote(g, 1)
        ELSE Return(g, IF status = "OK" THEN checked ELSE status, premature)

\* After these the control connection stays alive fine.
Harmless == {"OK", "BAD_DOWNLOAD_RESUME", "FTP_WEIRD_PASV_REPLY", "FTP_PORT_FAILED",
             "FTP_ACCEPT_FAILED", "FTP_ACCEPT_TIMEOUT", "FTP_COULDNT_SET_TYPE",
             "FTP_COULDNT_RETR_FILE", "PARTIAL_FILE", "UPLOAD_FAILED", "REMOTE_ACCESS_DENIED",
             "FILESIZE_EXCEEDED", "REMOTE_FILE_NOT_FOUND", "WRITE_ERROR"}

MarkBad(f) == [f EXCEPT !.ctl_valid = FALSE, !.cwdfail = TRUE, !.close = TRUE]

\* Mutant: the path is remembered although a CWD on the way failed.
RememberPathAnyway(f, result) ==
    [f EXCEPT !.prevpath = IF FullPath(f.req) THEN @ ELSE PathKey(f.req)]

RememberPath(f, result) ==
    [f EXCEPT !.prevpath = IF result # "OK" THEN NoKey
                           ELSE IF FullPath(f.req) THEN @
                           ELSE IF f.cwdfail THEN NoKey
                           ELSE PathKey(f.req)]

ftp_done(f, status, early) ==
    LET premature == early \/ status \in {"ABORTED_BY_CALLBACK", "READ_ERROR", "WRITE_ERROR"}
        harmless == status \in Harmless /\ ~premature
        result == IF harmless THEN "OK" ELSE status
        g == RememberPath(IF harmless THEN f ELSE MarkBad(f), result)
        abor == f.second # "none" /\ result = "OK" /\ f.dont_check /\ f.maxdownload > 0
        h == [(IF abor THEN Send(g, "ABOR", None, g.state) ELSE g) EXCEPT !.second = "none"]
    IN  IF result = "OK" /\ h.transfer = "BODY" /\ h.ctl_valid /\ h.pending /\ ~premature
        THEN [h EXCEPT !.phase = "final", !.status = status]
        ELSE Finish(h, status, result, premature)

\* Mutant: the connection stays open after ABOR.
FinalRespKept(f, code) ==
    Finish(f, f.status, IF f.dont_check \/ code \in {226, 250} THEN "OK"
                        ELSE IF code = 552 THEN "REMOTE_DISK_FULL" ELSE "PARTIAL_FILE", FALSE)

\* Mutant: any last word will do.
FinalRespAnyCode(f, code) ==
    IF f.dont_check /\ f.maxdownload > 0 THEN Return([f EXCEPT !.close = TRUE], f.status, FALSE)
    ELSE Finish(f, f.status, "OK", FALSE)

\* The server's answer to the transfer, or to ABOR.
FinalResp(f, code) ==
    IF f.dont_check /\ f.maxdownload > 0
    THEN Return([f EXCEPT !.close = TRUE], f.status, FALSE)
    ELSE Finish(f, f.status,
                IF f.dont_check \/ code \in {226, 250} THEN "OK"
                ELSE IF code = 552 THEN "REMOTE_DISK_FULL" ELSE "PARTIAL_FILE",
                FALSE)

PostquoteResp(f, code) ==
    IF code >= 400 /\ ~f.req.postquote[f.count1] THEN Return(f, "QUOTE_ERROR", FALSE)
    ELSE IF f.count1 < Len(f.req.postquote) THEN SendPostquote(f, f.count1 + 1)
    ELSE Return(f, "OK", FALSE)

\* ftp_parse_url_path.
ftp_parse_url_path(f) ==
    LET oldPath == IF f.reuse THEN f.prevpath ELSE HomeKey
    IN  [f EXCEPT !.ctl_valid = FALSE, !.cwdfail = FALSE,
                  !.cwddone = FullPath(f.req) \/ oldPath = PathKey(f.req)]

\* ftp_do, ftp_regular_transfer and ftp_perform, up to the first command.
ftp_do(f) ==
    Quote([ftp_parse_url_path(f) EXCEPT
              !.wait = FALSE, !.ctl_valid = TRUE, !.size = -1, !.phase = "doing",
              !.transfer = IF f.req.kind = "head" THEN "INFO" ELSE @], TRUE)

\* MSTATE_DID: without data to move the transfer is done.
Did(f) == IF f.way = None THEN ftp_done(f, "OK", FALSE) ELSE [f EXCEPT !.phase = "perform"]

\* ftp_dophase_done, and where MSTATE_DOING goes after it.
ftp_dophase_done(f) ==
    LET more == f.do_more \/ f.transfer = "BODY"
        g == [f EXCEPT !.ctl_valid = TRUE, !.do_more = more]
    IN  IF more THEN [g EXCEPT !.phase = "more"] ELSE Did(SetupTransfer(g, None, -1))

\* What the multi state machine does once a handler has run: an error ends the
\* transfer, FTP_STOP ends the phase.
AfterDo(f) ==
    IF f.result # "OK" THEN ftp_done(f, f.result, FALSE)
    ELSE IF f.state # "STOP" \/ f.wait THEN f
    ELSE IF f.phase = "doing" THEN ftp_dophase_done(f) ELSE Did(f)

After(f) ==
    IF f.phase = "connect" /\ f.state = "STOP" /\ f.result = "OK" THEN AfterDo(ftp_do(f))
    ELSE AfterDo(f)

\* Curl_range: the part of the file that is asked for.
Curl_range(f) ==
    [f EXCEPT !.resume = f.req.resume, !.maxdownload = f.req.max, !.dont_check = f.req.max >= 0]

\* The part of ftp_do_more that starts the transfer's commands.
Kickstart(f) ==
    IF f.req.kind = "put"
    THEN ftp_nb_type([f EXCEPT !.resume = f.req.resume, !.infilesize = f.req.len],
                     f.req.ascii, "STOR_TYPE")
    ELSE LET g == Curl_range([f EXCEPT !.downloadsize = -1])
         IN  IF f.req.file THEN ftp_nb_type(g, f.req.ascii, "RETR_TYPE")
             ELSE ftp_nb_type(g, TRUE, "LIST_TYPE")

------------------------------------------------------------------------------
(* The client's steps.  Commit puts what a handler has done into effect: its *)
(* commands are sent, its data connection is closed, its connection is lost. *)

NoData == [up |-> FALSE, bytes |-> 0, eof |-> FALSE]
NewSession(s) == [s EXCEPT !.cwd = Entry, !.type = "A", !.rest = 0, !.job = "none", !.left = 0,
                           !.tls = FALSE, !.private = FALSE, !.port = FALSE]

Commit(f, rest) ==
    /\ ftpc' = [f EXCEPT !.out = <<>>]
    /\ IF f.open
       THEN /\ todo' = todo \o f.out
            /\ replies' = rest
            /\ data' = IF f.second = "none" /\ ftpc.second # "none"
                       THEN IF ftpc.way = "up" /\ data.up THEN [data EXCEPT !.eof = TRUE] ELSE NoData
                       ELSE data
            /\ UNCHANGED srv
       ELSE /\ todo' = <<>> /\ replies' = <<>> /\ data' = NoData
            /\ srv' = NewSession(srv)

\* The client has stopped waiting for the server to connect, or for an answer after
\* the transfer, and has kept the connection.
GivenUp == ftpc.result \in {"FTP_ACCEPT_TIMEOUT", "ABORTED"}

\* The application asks for a transfer: extract_if_dead refuses a connection
\* with input waiting on it.  Bound: one that is given up is not followed further.
Reusable == ftpc.open /\ replies = <<>> /\ ~GivenUp

Start(r) ==
    /\ ftpc.phase = "idle"
    /\ IF Reusable
       THEN Commit(AfterDo(ftp_do([Fresh(ftpc) EXCEPT !.req = r, !.reuse = TRUE,
                                                      !.result = "OK", !.n = 0])), <<>>)
       ELSE \E l \in UseSsl, code \in {220, 230, 500} :
            /\ ftpc' = [NewConn(l) EXCEPT !.phase = "connect", !.open = TRUE, !.req = r,
                                          !.state = "WAIT220"]
            /\ replies' = <<Reply(code, None, -1)>>
            /\ todo' = <<>> /\ data' = NoData
            /\ srv' = NewSession(srv)

\* ftp_statemachine on a reply, in MSTATE_PROTOCONNECTING, DOING and DOING_MORE.
Respond ==
    /\ ftpc.phase \in {"connect", "doing", "more"}
    /\ ftpc.state # "STOP" /\ replies # <<>>
    /\ Commit(After(ftp_statemachine([ftpc EXCEPT !.pending = FALSE], Head(replies))),
              Tail(replies))

\* ftp_do_more: the data connection comes up or fails.
Connected ==
    /\ ftpc.phase = "more" /\ ftpc.second = "connecting"
    /\ ftpc' = [ftpc EXCEPT !.second = "open"]
    /\ data' = [NoData EXCEPT !.up = TRUE]
    /\ UNCHANGED <<srv, todo, replies>>

ConnectFails ==
    /\ ftpc.phase = "more"
    /\ \/ ftpc.second = "connecting"
       \/ "TLS" \in Faults /\ ftpc.second = "open" /\ ftpc.datassl /\ ftpc.state # "STOP"
    /\ Commit(IF ftpc.count1 = 0 THEN [ftp_epsv_disable(ftpc) EXCEPT !.phase = "doing"]
              ELSE ftp_done(ftpc, "COULDNT_CONNECT", FALSE), replies)

\* Mutant: the next command does not wait for the answer to the last.
DoMoreAtOnce ==
    /\ ftpc.phase = "more" /\ ~ftpc.wait
    /\ ftpc.second \in {"open", "listen"}
    /\ Commit(AfterDo(Kickstart(ftpc)), replies)

DoMore ==
    /\ ftpc.phase = "more" /\ ftpc.state = "STOP" /\ ~ftpc.wait
    /\ ftpc.second \in {"open", "listen"}
    /\ Commit(AfterDo(Kickstart(ftpc)), replies)

\* ReceivedServerConnect: the server has connected, or has said no, or neither in time.
Accepted ==
    /\ ftpc.phase = "more" /\ ftpc.wait /\ data.up
    /\ Commit(Did(InitiateTransfer([ftpc EXCEPT !.wait = FALSE, !.do_more = FALSE,
                                                !.second = "open"])), replies)

NotAccepted ==
    /\ ftpc.phase = "more" /\ ftpc.wait /\ replies # <<>>
    /\ LET code == Head(replies).code
           status == IF code >= 400 THEN "FTP_ACCEPT_FAILED" ELSE "WEIRD_SERVER_REPLY"
       IN  /\ code >= 400 \/ ~data.up
           /\ Commit(ftp_done([ftpc EXCEPT !.pending = FALSE], status, FALSE), Tail(replies))

AcceptTimeout ==
    /\ ftpc.phase = "more" /\ ftpc.wait /\ ~data.up /\ replies = <<>>
    /\ Commit(ftp_done(ftpc, "FTP_ACCEPT_TIMEOUT", FALSE), replies)

\* Curl_readwrite on the data connection.  It stops at the size or the range.
Full(f) == f.n \in {f.size, f.maxdownload}

ReadData ==
    /\ ftpc.phase = "perform" /\ ftpc.way = "down" /\ data.bytes > 0
    /\ LET f == [ftpc EXCEPT !.n = @ + 1]
       IN  IF Full(f) THEN Commit(ftp_done(f, "OK", FALSE), replies)
           ELSE /\ ftpc' = f
                /\ data' = [data EXCEPT !.bytes = @ - 1]
                /\ UNCHANGED <<srv, todo, replies>>

\* The end of the data, before the size that is known or at it.
ReadEnd ==
    /\ ftpc.phase = "perform" /\ ftpc.way = "down" /\ data.bytes = 0 /\ (data.eof \/ ftpc.size = 0)
    /\ Commit(IF ftpc.size \in {-1, ftpc.n} THEN ftp_done(ftpc, "OK", FALSE)
              ELSE ftp_done(ftpc, "PARTIAL_FILE", TRUE), replies)

\* What is written after the server has closed is lost before an error tells.
WriteData ==
    /\ ftpc.phase = "perform" /\ ftpc.way = "up" /\ ftpc.n < ftpc.infilesize
    /\ ftpc' = [ftpc EXCEPT !.n = @ + 1]
    /\ data' = IF data.up THEN [data EXCEPT !.bytes = @ + 1] ELSE data
    /\ UNCHANGED <<srv, todo, replies>>

\* The read callback has no more, which may be less than it announced.
WriteEnd ==
    /\ ftpc.phase = "perform" /\ ftpc.way = "up"
    /\ Commit(ftp_done(ftpc, "OK", FALSE), replies)

\* The blocking reads of ftp_done and ftp_sendquote.
ReadLast ==
    /\ ftpc.phase \in {"final", "postquote"} /\ replies # <<>>
    /\ LET f == [ftpc EXCEPT !.pending = FALSE]
           code == Head(replies).code
       IN  Commit(IF f.phase = "final" THEN FinalResp(f, code) ELSE PostquoteResp(f, code),
                  Tail(replies))

\* The progress callback aborts them, or the answer to a postquote command does not
\* come in time.
LastGivenUp ==
    /\ ftpc.phase \in {"final", "postquote"} /\ replies = <<>>
    /\ Commit(Return([ftpc EXCEPT !.pending = FALSE], "ABORTED", FALSE), replies)

\* A callback aborts, the control connection fails or nothing comes in time.
Wedge ==
    /\ ftpc.phase \notin {"idle", "postquote"}
    /\ Commit(IF ftpc.phase = "final"
              THEN Return([ftpc EXCEPT !.close = TRUE], "OPERATION_TIMEDOUT", FALSE)
              ELSE ftp_done(ftpc, "OPERATION_TIMEDOUT", TRUE), replies)

------------------------------------------------------------------------------
(* The server.  It takes one command at a time, and none while it moves data *)
(* except ABOR; every command gets one answer, a transfer a last one.        *)

Says(codes, s) == {[says |-> <<Reply(code, None, -1)>>, srv |-> s] : code \in codes}
SaysWord(code, words, s) == {[says |-> <<Reply(code, word, -1)>>, srv |-> s] : word \in words}
SaysSize(code, sizes, s) == {[says |-> <<Reply(code, None, size)>>, srv |-> s] : size \in sizes}
No(codes) == Says(codes, srv)

Unless(fault, answers) == IF fault \in Faults THEN answers ELSE {}

\* A transfer begins: `told` are the sizes its answer may tell.
Begins(kind, left, told) ==
    SaysSize(150, told, [srv EXCEPT !.job = kind, !.left = left, !.rest = 0])

Answers(c) ==
    LET dir == Resolve(srv.cwd, c.arg)
        left == ftpc.req.len - srv.rest
    IN  CASE c.verb = "AUTH" -> Says({234}, [srv EXCEPT !.tls = TRUE]) \cup No({500})
          [] c.verb = "USER" -> No({331, 230, 332, 530})
          [] c.verb = "PASS" -> No({230, 332, 530})
          [] c.verb = "ACCT" -> No({230, 530})
          [] c.verb \in {"PBSZ", "PRET"} -> No({200, 500})
          [] c.verb = "PROT" -> Says({200}, [srv EXCEPT !.private = (c.arg = "P")]) \cup No({500})
          [] c.verb = "CCC"  -> Says({200}, [srv EXCEPT !.tls = FALSE]) \cup No({500})
          [] c.verb = "PWD"  -> SaysWord(257, {"plain", "odd"}, srv) \cup Unless("PWD", No({500}))
          [] c.verb = "SYST" -> SaysWord(215, {"OS/400", "other"}, srv) \cup No({500})
          [] c.verb = "NAMEFMT" -> No({250, 500})
          [] c.verb = "QUOTE" -> No({200, 500})
          [] c.verb = "CWD"  -> IF dir \in srv.dirs THEN Says({250}, [srv EXCEPT !.cwd = dir])
                                ELSE No({550})
          [] c.verb = "MKD"  -> No({550}) \cup
                                IF dir \in Dirs \ srv.dirs
                                THEN Says({257}, [srv EXCEPT !.dirs = @ \cup {dir}]) ELSE {}
          [] c.verb = "TYPE" -> Says({200}, [srv EXCEPT !.type = c.arg]) \cup Unless("TYPE", No({500}))
          [] c.verb = "MDTM" -> SaysWord(213, {"new"} \cup (IF ftpc.req.timecond THEN {"old"} ELSE {}), srv)
                                \cup No({500, 550})
          [] c.verb = "SIZE" -> No({500, 550}) \cup
                                IF ftpc.req.kind # "put" THEN SaysSize(213, {ftpc.req.len}, srv)
                                ELSE UNION {SaysSize(213, {n}, [srv EXCEPT !.kept = n]) : n \in 0..ftpc.req.len}
          [] c.verb = "REST" -> Says({350}, [srv EXCEPT !.rest = c.arg]) \cup No({500})
          [] c.verb \in {"EPSV", "PASV"} ->
                Says({IF c.verb = "EPSV" THEN 229 ELSE 227}, [srv EXCEPT !.port = FALSE]) \cup No({500})
          [] c.verb \in {"EPRT", "PORT"} -> Says({200}, [srv EXCEPT !.port = TRUE]) \cup No({500})
          [] c.verb = "LIST" -> Begins("send", 1, {-1}) \cup Begins("send", 0, {-1}) \cup No({450, 550})
          \* REST is for the command after it: RETR uses it up, refused or not.
          [] c.verb = "RETR" -> Begins("send", left, {left, -1})
                                \cup Says({425, 550}, [srv EXCEPT !.rest = 0])
          [] c.verb = "STOR" -> {[a EXCEPT !.srv.kept = 0] : a \in Begins("receive", 0, {-1})} \cup No({550})
          [] c.verb = "APPE" -> Begins("receive", 0, {-1}) \cup No({550})
          [] c.verb = "ABOR" -> Says({226}, srv)

\* ABOR during a transfer ends it with a 426 before its own answer.
Serve ==
    /\ todo # <<>> /\ (srv.job = "none" \/ Head(todo).verb = "ABOR")
    /\ \E a \in Answers(Head(todo)) :
          /\ replies' = replies \o (IF srv.job = "none" THEN <<>> ELSE <<Reply(426, None, -1)>>) \o a.says
          /\ srv' = IF Head(todo).verb = "ABOR" THEN [a.srv EXCEPT !.job = "none"] ELSE a.srv
    /\ todo' = Tail(todo)
    /\ UNCHANGED <<ftpc, data>>

\* The server connects to the client's port.
ServerConnects ==
    /\ srv.job # "none" /\ srv.port /\ ~data.up /\ ftpc.second = "listen"
    /\ data' = [NoData EXCEPT !.up = TRUE]
    /\ UNCHANGED <<ftpc, srv, todo, replies>>

SendByte ==
    /\ srv.job = "send" /\ data.up /\ srv.left > 0
    /\ data' = [data EXCEPT !.bytes = @ + 1]
    /\ srv' = [srv EXCEPT !.left = @ - 1]
    /\ UNCHANGED <<ftpc, todo, replies>>

KeepByte ==
    /\ srv.job = "receive" /\ data.up /\ data.bytes > 0
    /\ data' = [data EXCEPT !.bytes = @ - 1]
    /\ srv' = [srv EXCEPT !.kept = @ + 1]
    /\ UNCHANGED <<ftpc, todo, replies>>

\* The last word: done, or given up (the data cut, no connection, no room).
LastWord(code) ==
    /\ replies' = Append(replies, Reply(code, None, -1))
    /\ srv' = [srv EXCEPT !.job = "none", !.left = 0]
    /\ data' = IF srv.job = "send" /\ data.up THEN [data EXCEPT !.eof = TRUE] ELSE NoData
    /\ UNCHANGED <<ftpc, todo>>

TransferEnds ==
    /\ data.up
    /\ \/ srv.job = "send" /\ srv.left = 0
       \/ srv.job = "receive" /\ data.bytes = 0 /\ data.eof
    /\ \E code \in {226, 250} : LastWord(code)

TransferFails ==
    \/ srv.job # "none" /\ data.up /\ LastWord(426)
    \/ srv.job = "receive" /\ data.up /\ LastWord(552)
    \/ srv.job # "none" /\ ~data.up /\ LastWord(425)

\* Another client of the server makes a directory.
OtherMkdir ==
    /\ \E dir \in Dirs \ srv.dirs : srv' = [srv EXCEPT !.dirs = @ \cup {dir}]
    /\ UNCHANGED <<ftpc, todo, replies, data>>

------------------------------------------------------------------------------
Init ==
    /\ \E l \in UseSsl : ftpc = NewConn(l)
    /\ srv = [cwd |-> Entry, type |-> "A", rest |-> 0, job |-> "none", left |-> 0, kept |-> 0,
              tls |-> FALSE, private |-> FALSE, port |-> FALSE, dirs |-> {Root, Entry}]
    /\ todo = <<>> /\ replies = <<>> /\ data = NoData

Client ==
    \/ Respond \/ Connected \/ ConnectFails \/ DoMore
    \/ Accepted \/ NotAccepted \/ AcceptTimeout
    \/ ReadData \/ ReadEnd \/ WriteData \/ WriteEnd \/ ReadLast \/ LastGivenUp \/ Wedge

Server ==
    \/ Serve \/ ServerConnects \/ SendByte \/ KeepByte \/ TransferEnds \/ TransferFails

Next == (\E r \in Requests : Start(r)) \/ Client \/ Server \/ OtherMkdir

Spec == Init /\ [][Next]_vars

\* Something happens as long as something can: the application drives the transfer
\* and the server answers.  Neither an abort nor a timeout is needed.
Progress ==
    \/ Respond \/ Connected \/ ConnectFails \/ DoMore \/ Accepted \/ NotAccepted
    \/ ReadData \/ ReadEnd \/ WriteData \/ WriteEnd \/ ReadLast
    \/ Server

FairSpec == Spec /\ WF_vars(Progress)

------------------------------------------------------------------------------
(* Properties.                                                               *)

\* A command that names a file alone meets the server in the directory the URL
\* means, in the type the request wants and at the offset it wants, whatever
\* CWD, TYPE and REST the client left out because an earlier transfer sent them.
CacheAgrees ==
    todo # <<>> =>
        LET verb == Head(todo).verb
        IN  /\ verb \in {"SIZE", "MDTM", "RETR", "STOR", "APPE", "LIST"} =>
                  FullPath(ftpc.req) \/ srv.cwd = Wanted(ftpc.req)
            /\ verb \in {"RETR", "STOR", "APPE"} => srv.type = TypeOf(ftpc.req.ascii)
            /\ verb = "LIST" => srv.type = "A"
            /\ verb = "RETR" => srv.rest = ftpc.resume

\* A command is only sent once every earlier one has been answered, the last
\* word of a transfer included: the client cannot tell whose answer it reads.
InStep ==
    todo # <<>> /\ Head(todo).verb # "ABOR" =>
        Len(todo) = 1 /\ replies = <<>> /\ srv.job = "none"

\* A connection that waits for its next transfer has no answer under way, however
\* the last one ended, unless the client gave up waiting for the server.
KeptIsQuiet ==
    ftpc.phase = "idle" /\ ftpc.open /\ ~GivenUp => todo = <<>> /\ replies = <<>> /\ srv.job = "none"

\* Where TLS is required no name, password or account goes in clear, and no
\* transfer begins unless both ends have agreed on how its data is protected.
TlsKept ==
    todo # <<>> =>
        LET verb == Head(todo).verb
        IN  /\ verb \in {"USER", "PASS", "ACCT"} /\ Level(ftpc.use_ssl) >= 2 => srv.tls
            /\ verb \in {"RETR", "STOR", "APPE", "LIST"} =>
                  /\ ftpc.use_ssl = "all" => ftpc.datassl
                  /\ ftpc.datassl = srv.private

\* The bytes that a download asks for.
Asked(r) ==
    LET from == IF r.resume < 0 THEN r.len + r.resume ELSE r.resume
        rest == r.len - from
    IN  IF r.max >= 0 /\ r.max < rest THEN r.max ELSE rest

\* CURLE_OK is the whole of it: a download has every byte it asked for (a range
\* of a file of unknown size ends where the data does), an upload is all kept.
OkIsWhole ==
    [][ ftpc.phase # "idle" /\ ftpc'.phase = "idle" /\ ftpc'.result = "OK" =>
          /\ ftpc.way = "down" /\ ftpc.req.file =>
                ftpc.n = Asked(ftpc.req) \/ (ftpc.req.max >= 0 /\ ftpc.size = -1)
          /\ ftpc.way = "up" => srv.kept = ftpc.req.len ]_vars

\* Every transfer ends, however often CWD and MKD, the ways to name a port or
\* the ways to ask for TLS are refused.
Ends == ftpc.phase # "idle" ~> ftpc.phase = "idle"
=============================================================================
