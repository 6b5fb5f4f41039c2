------------------------------- MODULE MCPhp -------------------------------
(* Instances of Php for TLC. *)
EXTENDS Php, TLC

CONSTANTS mysqli, curl, v1, v2

MCNames    == {mysqli, curl}
MCVersions == {v1, v2}
MCValues   == MCVersions \cup {None}

\* The lines of php.ini-development that matter: an example in a comment,
\* extension_dir, and two extensions, one of them with the example.
MCTemplate ==
  << [kind |-> "note", name |-> mysqli, on |-> FALSE],
     [kind |-> "dir",  name |-> None,   on |-> FALSE],
     Ext(mysqli, FALSE), Ext(curl, FALSE) >>

=============================================================================
