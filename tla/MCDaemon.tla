------------------------------ MODULE MCDaemon ------------------------------
(* Small instances of Daemon for TLC.                                      *)
EXTENDS Daemon, TLC

CONSTANTS p1, p2

Registry(order, http_, runtime, launches_) ==
  [order |-> order, launches |-> launches_,
   deps |-> "Runtime" :> runtime @@ "HTTPServer" :> http_ @@ "Other" :> <<>>]

\* The runtime in processes that follow each other or meet; what daemon.go
\* registers, and the same with a further component that may fail to start and
\* that the server depends on, in one process; a dependency that is missing, and
\* a circle.
SmallRegistries ==
  {Registry(<<"Runtime">>, <<>>, <<>>, 3),
   Registry(<<"Runtime", "HTTPServer">>, <<"Runtime">>, <<>>, 1),
   Registry(<<"Runtime", "HTTPServer", "Other">>, <<"Runtime", "Other">>, <<>>, 1),
   Registry(<<"HTTPServer">>, <<"Runtime">>, <<>>, 1),
   Registry(<<"Runtime", "HTTPServer">>, <<"Runtime">>, <<"HTTPServer">>, 1)}

=============================================================================
