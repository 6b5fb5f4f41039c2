------------------------------- MODULE MCZamp -------------------------------
(* Instances of Zamp for TLC. *)
EXTENDS Zamp

\* httpd.conf as ZAMP's sessions leave it: the default file, adapted to a
\* project and a version or not yet.
Body(srv, p, v, index) ==
  [body |-> TRUE, srv |-> srv, doc |-> p, dir |-> p, php |-> v, ini |-> v,
   index |-> index, junk |-> FALSE]

Edited ==
  {Body("default", None, None, "html")}
    \cup {Body("app", p, v, "php") : p \in Projects \cup {None},
                                     v \in Versions \cup {None}}

=============================================================================
