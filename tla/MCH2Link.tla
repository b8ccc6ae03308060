------------------------------- MODULE MCH2Link -------------------------------
(* Small instances of H2Link for TLC. *)
EXTENDS H2Link

\* reqSize/respSize in flow-control units
R(req, reqSize, serve, resp, respSize, sink) ==
  [req |-> req, reqSize |-> reqSize, serve |-> serve, resp |-> resp,
   respSize |-> respSize, sink |-> sink]

\* download and exchange are operations of the blocking client
MCPlan ==
  [page     |-> R("none", 0, "now", "file", 1, "memory"),
   large    |-> R("none", 0, "now", "flat", 2, "memory"),
   upload   |-> R("flat", 2, "reject", "none", 0, "memory"),
   later    |-> R("none", 0, "defer", "flat", 1, "memory"),
   broken   |-> R("flat", 1, "now", "flat", 1, "broken"),
   fails    |-> R("flat", 1, "error", "none", 0, "memory"),
   download |-> R("none", 0, "now", "flat", 2, "file"),
   exchange |-> R("file", 1, "now", "file", 1, "memory")]

MCWindow == [client |-> 2, server |-> 2]
S(tags, cancel, timed, stop, read) ==
  [blocking |-> FALSE, tags |-> tags, cancel |-> cancel, timed |-> timed, stop |-> stop,
   read |-> read, refuses |-> {}]
Blocking(s) == [s EXCEPT !.blocking = TRUE]
Refuses(s, ops) == [s EXCEPT !.refuses = ops]

MCScenarios ==
  {S(<<"large", "page">>, {"large"}, {}, {}, "all"),
   S(<<"large", "large">>, {"large"}, {}, {}, "one"),
   S(<<"later", "upload">>, {}, {"later", "upload"}, {"server"}, "all"),
   S(<<"later", "large">>, {"later"}, {"later"}, {}, "one"),
   Refuses(S(<<"fails", "later">>, {}, {}, {"client"}, "one"), {"send", "close"}),
   S(<<"broken", "large">>, {"broken"}, {}, {}, "one"),
   S(<<"upload", "large", "later">>, {}, {"later"}, {}, "all"),
   S(<<"page", "fails">>, {}, {}, {}, "all"),
   S(<<"fails", "upload">>, {}, {}, {"server"}, "all"),
   Refuses(Blocking(S(<<"download", "exchange">>, {"download", "exchange"}, {}, {}, "all")),
           {"send", "close", "receive"}),
   Blocking(S(<<"exchange", "download">>, {"exchange"}, {}, {"server"}, "one"))}

\* two requests in memory, the first of which may be cancelled
MCCancel == {S(<<"large", "page">>, {"large"}, {}, {}, "all")}
=============================================================================
