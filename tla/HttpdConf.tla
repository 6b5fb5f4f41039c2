----------------------------- MODULE HttpdConf -----------------------------
(***************************************************************************)
(* httpd.conf and the functions of apache_config.js that edit it in place: *)
(* server_instantiate (updateApacheServerRoot, add_php_variable,           *)
(* setDefaultIndex), change_www_path and recreate_conf, called at startup, *)
(* by load_project and by 'change-PHP-version' of main.js.                 *)
(*                                                                         *)
(* An edit is fs.readFile, a replacement in memory and fs.writeFile, which *)
(* first opens the file, and so truncates it, and then writes.  Each of    *)
(* the three is an action; edits of calls in flight interleave.            *)
(*                                                                         *)
(* ServerControl is the part of main.js that decides when they are called: *)
(* a call in flight here is a job at pc "www" or "inst" there.             *)
(***************************************************************************)
EXTENDS Naturals

CONSTANTS
  Projects,   \* project folders (their paths)
  Versions,   \* installed PHP versions
  None,       \* no project; no PHP lines; the htdocs of the default file
  Under,      \* pairs of folders: the first one's path is part of the second's
  IniMayFail, \* TRUE: setExtensionDir may find no php.ini it can edit
  Jobs,       \* slots for calls in flight (bound)
  MaxCalls,   \* user actions and launches in a behaviour (bound)
  Patient,    \* TRUE: the user acts only when nothing is in flight
  MayCrash,   \* TRUE: the app may end at any moment
  AtLaunch,   \* the texts httpd.conf may have at the first launch
  MayMiss     \* TRUE: it may be missing, as it is in a fresh checkout

ASSUME HttpdConfAssumption ==
  /\ None \notin Projects \cup Versions
  /\ Under \subseteq Projects \X Projects
  /\ Jobs \subseteq Nat
  /\ MaxCalls \in Nat
  /\ {IniMayFail, Patient, MayCrash, MayMiss} \subseteq BOOLEAN

VARIABLES
  exists,          \* httpd.conf is there
  conf,            \* what it says
  job,             \* the calls in flight
  currentProject,  \* main.js: currentProject, kept in config.json
  selected,        \* main.js: php_versions.selected, kept in versions.json
  applied,         \* the version server_instantiate was last called with
  calls            \* user actions and launches so far

vars == <<exists, conf, job, currentProject, selected, applied, calls>>

-----------------------------------------------------------------------------
(* The text of httpd.conf, reduced to the lines that are edited.  body:    *)
(* the file has the lines of default_conf.conf; srv: the SRVROOT line;     *)
(* doc and dir: DocumentRoot and the first <Directory "...">; php and ini: *)
(* the LoadModule and PHPIniDir lines (None: absent); index: DirectoryIndex*)
(* and ServerName; junk: the rest of another text follows or precedes.     *)

Mangled == "mangled"   \* a DocumentRoot that is no folder's path
Folder  == Projects \cup {None, Mangled}

Text == [body : BOOLEAN, srv : {"default", "app"}, doc : Folder, dir : Folder,
         php : Versions \cup {None}, ini : Versions \cup {None},
         index : {"html", "php"}, junk : BOOLEAN]

Empty == [body |-> FALSE, srv |-> "default", doc |-> None, dir |-> None,
          php |-> None, ini |-> None, index |-> "html", junk |-> FALSE]

ASSUME AtLaunchAssumption == AtLaunch \subseteq Text

\* default_conf.conf
Default == [Empty EXCEPT !.body = TRUE]

\* updateApacheServerRoot
EditRoot(t) == [t EXCEPT !.srv = "app"]

\* The first write of add_php_variable: LoadModule replaced, or all the PHP
\* lines appended, also to a text that has no other line.
EditPhp(t, v) ==
  IF t.php # None THEN [t EXCEPT !.php = v] ELSE [t EXCEPT !.php = v, !.ini = v]

\* setDefaultIndex: a text without the lines to replace is written back as is.
EditIndex(t) == IF t.body THEN [t EXCEPT !.index = "php"] ELSE t

\* change_www_path replaces the first occurrence of the old DocumentRoot and
\* then that of the old <Directory>.  Where the new path contains the latter,
\* the first occurrence is in the DocumentRoot line just written.
EditWww(t, p) ==
  IF <<t.dir, p>> \in Under THEN [t EXCEPT !.doc = Mangled]
                            ELSE [t EXCEPT !.doc = p, !.dir = p]

\* What a write of t leaves in a file that says c.  After a truncation nobody
\* else wrote into, t.  Otherwise t lies over c: a longer c shows behind it (a
\* LoadModule at its end may survive), and PHP lines alone hide only comments.
Overlays(t, c) ==
  IF c \in {Empty, t} THEN {t}
  ELSE IF ~t.body /\ c.body
       THEN {[c EXCEPT !.php = t.php, !.ini = t.ini, !.junk = TRUE]}
  ELSE {t} \cup {[t EXCEPT !.junk = TRUE, !.php = v, !.ini = v] :
                   v \in IF t.php = None THEN {None, c.php} ELSE {t.php}}

-----------------------------------------------------------------------------
(* Calls in flight.  arg is the project or the PHP version, again the      *)
(* argument regenerate of server_instantiate, load that load_project       *)
(* follows when it returns (at startup).                                   *)

Stage ==
  {"idle", "root", "php", "phpend", "inidir", "index", "www", "recreate"}
Job == [stage : Stage, io : {"read", "open", "write"}, text : Text,
        arg : Projects \cup Versions \cup {None}, again : BOOLEAN,
        load : BOOLEAN]

Call(stage, io, text, arg) ==
  [stage |-> stage, io |-> io, text |-> text, arg |-> arg,
   again |-> FALSE, load |-> FALSE]

Idle == Call("idle", "read", Empty, None)

Instantiate(version, again, load) ==
  [Call("root", "read", Empty, version) EXCEPT !.again = again, !.load = load]

ChangeWww(project) == Call("www", "read", Empty, project)

Recreate == Call("recreate", "open", Default, None)

Quiet == \A j \in Jobs : job[j].stage = "idle"

\* The first idle slot among S.
FreeSlot(S, j) ==
  /\ j \in S /\ job[j].stage = "idle"
  /\ \A i \in S : job[i].stage = "idle" => j <= i

\* Seeded defect: load_project lacks its early return for null.
ReturnedAlways(c) == IF c.load THEN ChangeWww(currentProject) ELSE Idle

\* The caller of a finished call goes on: at startup with load_project.
Returned(c) ==
  IF c.load /\ currentProject # None THEN ChangeWww(currentProject) ELSE Idle

\* Seeded defect: the second server_instantiate may regenerate again.
CatchAgain(j) ==
  \E i, k \in Jobs \ {j} :
    /\ FreeSlot(Jobs \ {j}, i) /\ FreeSlot(Jobs \ {j, i}, k)
    /\ job' = [job EXCEPT ![j] = Returned(job[j]),
                          ![i] = Recreate,
                          ![k] = Instantiate(job[j].arg, FALSE, FALSE)]

\* The catch of server_instantiate.  The first time the default file is
\* written, but neither that write nor the second server_instantiate, which
\* starts at once, is awaited.
Catch(j) ==
  \/ /\ job[j].again
     /\ job' = [job EXCEPT ![j] = Idle]
  \/ /\ ~job[j].again
     /\ \E i, k \in Jobs \ {j} :
          /\ FreeSlot(Jobs \ {j}, i) /\ FreeSlot(Jobs \ {j, i}, k)
          /\ job' = [job EXCEPT ![j] = Returned(job[j]),
                                ![i] = Recreate,
                                ![k] = Instantiate(job[j].arg, TRUE, FALSE)]

-----------------------------------------------------------------------------
(* The steps of a call.                                                    *)

Step(j, stages, io) ==
  /\ job[j].stage \in stages
  /\ job[j].io = io
  /\ UNCHANGED <<currentProject, selected, applied, calls>>

\* readFile and the replacement.  A file that is not there, or lacks the line
\* updateApacheServerRoot looks for, is an error.
Edited(j) ==
  CASE job[j].stage = "root"  -> EditRoot(conf)
    [] job[j].stage = "php"   -> EditPhp(conf, job[j].arg)
    [] job[j].stage = "index" -> EditIndex(conf)
    [] OTHER                  -> EditWww(conf, job[j].arg)

Readable(stage) == exists /\ (stage \in {"root", "www"} => conf.body)

Read(j) ==
  /\ Step(j, {"root", "php", "index", "www"}, "read")
  /\ Readable(job[j].stage)
  /\ job' = [job EXCEPT ![j].text = Edited(j), ![j].io = "open",
                        ![j].stage = IF @ = "php" /\ None \in {conf.php, conf.ini}
                                     THEN "phpend" ELSE @]
  /\ UNCHANGED <<exists, conf>>

ReadFails(j) ==
  /\ Step(j, {"root", "php", "index"}, "read")
  /\ ~Readable(job[j].stage)
  /\ Catch(j)
  /\ UNCHANGED <<exists, conf>>

\* change_www_path ends on an error as if nothing had happened.
WwwFails(j) ==
  /\ Step(j, {"www"}, "read")
  /\ ~Readable("www")
  /\ job' = [job EXCEPT ![j] = Idle]
  /\ UNCHANGED <<exists, conf>>

\* writeFile opens the file.
Open(j) ==
  /\ Step(j, Stage \ {"idle"}, "open")
  /\ exists' = TRUE /\ conf' = Empty
  /\ job' = [job EXCEPT ![j].io = "write"]

Write(j, stages) ==
  /\ Step(j, stages, "write")
  /\ conf' \in Overlays(job[j].text, conf)
  /\ UNCHANGED exists

\* The next function of server_instantiate starts to read.
Continue(j, stage) == [job EXCEPT ![j].stage = stage, ![j].io = "read"]

WriteRoot(j) == Write(j, {"root"}) /\ job' = Continue(j, "php")

\* PHPIniDir is replaced by a second write, of the text in memory, when both
\* lines were there; otherwise the first write is the last ("phpend").
WritePhp(j) ==
  /\ Write(j, {"php"})
  /\ job' = [job EXCEPT ![j].stage = "inidir", ![j].io = "open",
                        ![j].text.ini = job[j].arg]

WritePhpLast(j) == Write(j, {"phpend", "inidir"}) /\ job' = Continue(j, "index")

\* After setDefaultIndex setExtensionDir edits php.ini, or throws.
WriteIndex(j) ==
  /\ Write(j, {"index"})
  /\ \/ job' = [job EXCEPT ![j] = Returned(job[j])]
     \/ IniMayFail /\ Catch(j)

WriteLast(j) ==
  /\ Write(j, {"www", "recreate"})
  /\ job' = [job EXCEPT ![j] = Idle]

JobStep(j) ==
  \/ Read(j) \/ ReadFails(j) \/ WwwFails(j) \/ Open(j)
  \/ WriteRoot(j) \/ WritePhp(j) \/ WritePhpLast(j) \/ WriteIndex(j)
  \/ WriteLast(j)

-----------------------------------------------------------------------------
(* The callers.                                                            *)

Counted ==
  /\ calls < MaxCalls
  /\ calls' = calls + 1

UserActs == Counted /\ (Patient => Quiet)

\* load_project, for one or two 'select_project' messages of a card.
SelectProject ==
  /\ UserActs
  /\ \E p \in Projects, i \in Jobs :
       /\ FreeSlot(Jobs, i)
       /\ currentProject' = p
       /\ \/ job' = [job EXCEPT ![i] = ChangeWww(p)]
          \/ \E k \in Jobs \ {i} :
               /\ FreeSlot(Jobs \ {i}, k)
               /\ job' = [job EXCEPT ![i] = ChangeWww(p), ![k] = ChangeWww(p)]
  /\ UNCHANGED <<exists, conf, selected, applied>>

\* remove_project of the last one: load_project does nothing for null.
Deselect ==
  /\ UserActs
  /\ currentProject' = None
  /\ UNCHANGED <<exists, conf, job, selected, applied>>

\* 'change-PHP-version': httpd.conf is edited only if the server was running.
ChangePhp ==
  /\ UserActs
  /\ \E v \in Versions, wasRunning \in BOOLEAN :
       /\ selected' = v
       /\ IF wasRunning
          THEN /\ applied' = v
               /\ \E i \in Jobs :
                    /\ FreeSlot(Jobs, i)
                    /\ job' = [job EXCEPT ![i] = Instantiate(v, FALSE, FALSE)]
          ELSE UNCHANGED <<applied, job>>
  /\ UNCHANGED <<exists, conf, currentProject>>

\* startApp: the jobs of a session that has just started.
Startup ==
  {[i \in Jobs |-> IF i = a THEN Instantiate(selected, FALSE, TRUE) ELSE Idle] :
     a \in {i \in Jobs : \A k \in Jobs : i <= k}}

\* app.exit, or a crash, and a new launch; neither waits for calls in flight.
Relaunch ==
  /\ IF MayCrash THEN Counted ELSE UserActs
  /\ job' \in Startup
  /\ applied' = selected
  /\ UNCHANGED <<exists, conf, currentProject, selected>>

Init ==
  /\ currentProject \in Projects \cup {None}
  /\ selected \in Versions /\ applied = selected
  /\ \/ exists = TRUE /\ conf \in AtLaunch
     \/ MayMiss /\ exists = FALSE /\ conf = Empty
  /\ job \in Startup
  /\ calls = 0

Next ==
  \/ SelectProject \/ Deselect \/ ChangePhp \/ Relaunch
  \/ \E j \in Jobs : JobStep(j)

Spec == Init /\ [][Next]_vars

\* Every file operation completes.
FairSpec == Spec /\ \A j \in Jobs : WF_vars(JobStep(j))

-----------------------------------------------------------------------------
(* Properties.                                                             *)

\* Every variable has its type; in particular change_www_path is called with
\* a project and server_instantiate with a version.
TypeOK ==
  /\ exists \in BOOLEAN
  /\ conf \in Text
  /\ job \in [Jobs -> Job]
  /\ \A j \in Jobs :
       /\ job[j].stage = "www" => job[j].arg \in Projects
       /\ job[j].stage \in {"root", "php", "phpend", "inidir", "index"} =>
            job[j].arg \in Versions
  /\ currentProject \in Projects \cup {None}
  /\ {selected, applied} \subseteq Versions
  /\ calls \in 0..MaxCalls

\* httpd.conf serves the current project with the PHP version it was last
\* instantiated for, and has its other lines adapted.
Serves ==
  /\ exists /\ conf.body /\ ~conf.junk
  /\ conf.srv = "app" /\ conf.index = "php"
  /\ conf.php = applied /\ conf.ini = applied
  /\ currentProject # None => conf.doc = currentProject /\ conf.dir = currentProject

\* For a user who waits: whatever text of the default file was there at launch,
\* the file serves the selection when the calls are done, through double
\* select_project messages, changes of version and relaunches.
SelectionServed == Quiet => Serves

\* The regeneration of a file that is not valid does not go on for ever: all
\* calls end, also when the app ends in the middle of them and is launched again.
EditsEnd == ~Quiet ~> Quiet

=============================================================================
