--------------------------- MODULE MCPolicyEngine ---------------------------
(* Small instances of PolicyEngine for TLC.                                *)
EXTENDS PolicyEngine, TLC

CONSTANTS c1, c2, c3, c4, c5, c6, c7, c8,
          fetch, exec, url, cmd, root, odd, bad, site

\* Two calls that fetch a url of one host, one that runs a command on the
\* approval list, two that pass an approval id for a command, one that
\* asks for an escalated sandbox, one with a sandbox permission nobody knows,
\* and one the input schema refuses.
MCRequestOf == c1 :> url @@ c2 :> url @@ c3 :> cmd @@ c4 :> cmd @@ c5 :> root
               @@ c6 :> odd @@ c7 :> bad @@ c8 :> root

\* The same command twice, as an agent that retries sends it.
RetryRequestOf == c1 :> cmd @@ c2 :> cmd

MCToolOf == url :> fetch @@ cmd :> exec @@ root :> exec @@ odd :> exec @@ bad :> exec
MCHostOf == url :> site @@ cmd :> None @@ root :> None @@ odd :> None @@ bad :> None
MCPermOf == url :> "unset" @@ cmd :> "use_default" @@ root :> "require_escalated"
            @@ odd :> "other" @@ bad :> "unset"

=============================================================================
