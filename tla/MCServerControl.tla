-------------------------- MODULE MCServerControl --------------------------
(***************************************************************************)
(* Instances of ServerControl for TLC, and statements of the repository    *)
(* its runs refute.                                                        *)
(***************************************************************************)
EXTENDS ServerControl, TLC

Symmetry == Permutations(Projects)

\* apache_config.js:139 logs "Server was stopped" and 'closed' is sent when
\* the killserver of a 'close' returns: no httpd.exe is alive then.
StopStops ==
  [][\A j \in Jobs :
       KillReturns(j) /\ job[j].then = "none" => Alive' = {}]_vars

=============================================================================
