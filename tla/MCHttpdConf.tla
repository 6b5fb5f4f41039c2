---------------------------- MODULE MCHttpdConf ----------------------------
(***************************************************************************)
(* Instances of HttpdConf for TLC, and statements of the repository its    *)
(* runs refute.                                                            *)
(***************************************************************************)
EXTENDS HttpdConf, TLC

CONSTANTS a, b   \* two projects

Apart  == {}
Nested == {<<a, b>>}   \* b is a folder inside a

\* Any text with the lines of the default file, edited before or not.
AnyBody == {t \in Text : /\ t.body /\ ~t.junk /\ t.dir # Mangled
                         /\ t.php = None <=> t.ini = None}

\* A truncated file, the default one, and one that lost all but the PHP lines.
Damaged == {Empty, Default} \cup {EditPhp(Empty, v) : v \in Versions}

Symmetry == Permutations(Versions)

\* The comment of recreate_conf (apache_config.js:333-336): "If the conf file is
\* incorrect for some reason, ZAMP will try to recreate one, using the
\* "default_conf.conf" file".  When the calls are done there is a file with the
\* lines of the default one.
ConfRecreated == Quiet => exists /\ conf.body

\* The log of change_www_path (apache_config.js:199): "Changed document root to"
\* the new path.  When the calls are done the current project is the root.
DocumentRootFollows ==
  Quiet /\ currentProject # None => conf.doc = currentProject

=============================================================================
