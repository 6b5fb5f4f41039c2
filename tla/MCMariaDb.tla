----------------------------- MODULE MCMariaDb -----------------------------
(***************************************************************************)
(* Instances of MariaDb for TLC, and a statement of the repository its     *)
(* runs refute.                                                            *)
(***************************************************************************)
EXTENDS MariaDb

MCValues == Status

\* kill_maria_server has a branch for no process, "mysqld.exe is not running."
\* (db_init.js:105), after which, as after a kill, the status is Closed: the
\* toggle turned off leaves the status Closed whether or not a mysqld.exe runs.
OffCloses ==
  [][(toMain # <<>> /\ Head(toMain) = "off" /\ toMain' = Tail(toMain))
       => status' = "Closed"]_vars

=============================================================================
