------------------------------- MODULE MCFtp -------------------------------
EXTENDS Ftp

Plain == [kind |-> "get", method |-> "multi", abs |-> FALSE, dirs |-> <<>>, file |-> TRUE,
          port |-> FALSE, pret |-> FALSE, ascii |-> FALSE, resume |-> 0, max |-> -1,
          mdtm |-> FALSE, timecond |-> FALSE, create |-> 0, len |-> 1,
          quote |-> <<>>, prequote |-> <<>>, postquote |-> <<>>]

\* Downloads, uploads, listings and questions that share directories and types.
MCRequests ==
    { [Plain EXCEPT !.dirs = <<"a">>, !.mdtm = TRUE, !.timecond = TRUE],
      [Plain EXCEPT !.kind = "put", !.dirs = <<"a", "b">>, !.create = 2, !.resume = -1, !.len = 2],
      [Plain EXCEPT !.file = FALSE, !.port = TRUE],
      [Plain EXCEPT !.kind = "head", !.method = "nocwd", !.abs = TRUE],
      [Plain EXCEPT !.method = "single", !.abs = TRUE, !.dirs = <<"home", "a">>, !.ascii = TRUE,
                    !.prequote = <<TRUE>>, !.postquote = <<FALSE>>],
      [Plain EXCEPT !.method = "nocwd", !.resume = -1, !.max = 1, !.pret = TRUE, !.len = 2],
      [Plain EXCEPT !.kind = "put", !.port = TRUE, !.quote = <<FALSE>>, !.postquote = <<TRUE>>] }

MCDirs == {Root, Entry, <<"home", "a">>, <<"home", "a", "b">>}
=============================================================================
