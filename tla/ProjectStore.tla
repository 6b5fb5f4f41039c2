---------------------------- MODULE ProjectStore ----------------------------
(***************************************************************************)
(* The project list of main.js and its copy in config.json: load_config    *)
(* and load_project at startup, add_project, remove_project and            *)
(* load_project by the user, each with its calls of writeAsJson, and       *)
(* app.exit or a crash at any moment.                                      *)
(*                                                                         *)
(* ServerControl models what load_project does to the server.  Here it     *)
(* either goes on at once or waits for killserver first; both can happen   *)
(* at any moment, since the user may start and stop the server in between. *)
(***************************************************************************)
EXTENDS JsonFile

CONSTANTS
  Projects,     \* names a project folder can have
  None,         \* the null of currentProject and config.selected
  Calls,        \* slots for calls of load_project in flight (bound)
  MaxClicks,    \* user actions, exits and crashes in a behaviour (bound)
  CalmRemoval   \* TRUE: no project is deleted while a switch to it waits

ASSUME ProjectStoreAssumption ==
  /\ None \notin Projects
  /\ Calls \subseteq Nat
  /\ MaxClicks \in Nat
  /\ CalmRemoval \in BOOLEAN

VARIABLES
  app,             \* "up", "down", or "failed": main.js threw while it loaded
  projects,        \* main.js: the keys of config.projects
  selected,        \* main.js: config.selected
  currentProject,  \* main.js: currentProject
  waiting,         \* calls of load_project that await killserver: the name
  starting,        \* startApp awaits server_instantiate
  clicks,          \* user actions, exits and crashes so far
  saving           \* lists saved since the file last settled (history)

vars == <<disk, writes, app, projects, selected, currentProject, waiting,
          starting, clicks, saving>>

-----------------------------------------------------------------------------
Config == [projects : SUBSET Projects, selected : Projects \cup {None}]

Blank == [projects |-> {}, selected |-> None]

ASSUME ConfigAssumption == Values = Config

\* The argument of writeAsJson: the list as the handler leaves it.
Memory == [projects |-> projects, selected |-> selected]

\* n calls of writeAsJson(config, configPath) at the end of a handler.
SaveConfig(n) ==
  /\ Saves(n, Memory')
  /\ saving' = saving \cup {Memory'}
  /\ UNCHANGED disk

\* load_config
Loaded == IF Readable THEN disk ELSE Blank

NoCalls == [k \in Calls |-> None]

-----------------------------------------------------------------------------
(* load_project after killserver, and when it does not wait.  A name that  *)
(* is no longer listed throws after currentProject was assigned.  extra is *)
(* the number of saves its caller makes in the same step.                  *)
LoadNow(name, extra) ==
  /\ currentProject' = name
  /\ UNCHANGED <<projects, app>>
  /\ IF name \in projects
     THEN /\ selected' = name
          /\ SaveConfig(1 + extra)
     ELSE UNCHANGED <<selected, writes, saving, disk>>

-----------------------------------------------------------------------------
(* The user.                                                               *)

UserActs ==
  /\ app = "up"
  /\ clicks < MaxClicks
  /\ clicks' = clicks + 1

\* A project card, whose click sends one or two messages.  The second of two
\* waits like the first one, or saves the same list again.
SelectProject ==
  /\ UserActs
  /\ \E p \in projects, twice \in {0, 1} :
       \/ /\ LoadNow(p, twice)
          /\ UNCHANGED waiting
       \/ /\ p # currentProject
          /\ \E S \in SUBSET {k \in Calls : waiting[k] = None} :
               /\ Cardinality(S) = 1 + twice
               /\ waiting' = [k \in Calls |-> IF k \in S THEN p ELSE waiting[k]]
          /\ UNCHANGED <<disk, writes, saving, projects, selected,
                         currentProject, app>>
  /\ UNCHANGED starting

\* Seeded defect: add_project saves before it adds the project.
AddProjectLate ==
  /\ UserActs
  /\ \E p \in Projects :
       /\ projects' = projects \cup {p}
       /\ Saves(1, Memory)
       /\ IF currentProject = None
          THEN currentProject' = p /\ selected' = p
          ELSE UNCHANGED <<currentProject, selected>>
  /\ saving' = saving \cup {Memory}
  /\ UNCHANGED <<disk, app, waiting, starting>>

\* add_project: the first project is selected by load_project, which saves the
\* list before add_project does.
AddProject ==
  /\ UserActs
  /\ \E p \in Projects :
       /\ projects' = projects \cup {p}
       /\ \/ /\ currentProject = None
             /\ currentProject' = p /\ selected' = p
             /\ SaveConfig(2)
          \/ /\ currentProject # None
             /\ UNCHANGED <<currentProject, selected>>
             /\ SaveConfig(1)
  /\ UNCHANGED <<app, waiting, starting>>

\* Seeded defect: the current project is not reselected when it is removed.
RemoveProjectOnly ==
  /\ UserActs
  /\ \E p \in projects : projects' = projects \ {p}
  /\ UNCHANGED <<currentProject, selected>>
  /\ SaveConfig(1)
  /\ UNCHANGED <<app, waiting, starting>>

\* Seeded defect: the first of no projects, Object.keys({})[0], is selected.
RemoveProjectUnchecked ==
  /\ UserActs
  /\ \E p \in projects :
       /\ projects' = projects \ {p}
       /\ currentProject' = IF p # currentProject THEN currentProject
                            ELSE IF projects' = {} THEN "undefined"
                            ELSE CHOOSE q \in projects' : TRUE
  /\ UNCHANGED selected
  /\ SaveConfig(1)
  /\ UNCHANGED <<app, waiting, starting>>

\* remove_project: where the current project goes, load_project selects the
\* first one that is left and saves too.
RemoveProject ==
  /\ UserActs
  /\ \E p \in projects :
       /\ CalmRemoval => \A k \in Calls : waiting[k] # p
       /\ projects' = projects \ {p}
       /\ \/ /\ projects' # {} /\ p = currentProject
             /\ \E q \in projects' : currentProject' = q /\ selected' = q
             /\ SaveConfig(2)
          \/ /\ projects' # {} /\ p # currentProject
             /\ UNCHANGED <<currentProject, selected>>
             /\ SaveConfig(1)
          \/ /\ projects' = {}
             /\ currentProject' = None /\ selected' = None
             /\ SaveConfig(1)
  /\ UNCHANGED <<app, waiting, starting>>

\* app.exit, which waits for no write, or a crash.
Exit ==
  /\ UserActs
  /\ app' = "down"
  /\ Lose
  /\ saving' = {}
  /\ waiting' = NoCalls /\ starting' = FALSE
  /\ UNCHANGED <<projects, selected, currentProject>>

-----------------------------------------------------------------------------
(* The main process.                                                       *)

\* The code of main.js outside functions: load_config, which saves the empty
\* list when the file is missing or unreadable, and getProjectPath, which
\* throws when the selected project is not listed.
Launch ==
  /\ app = "down"
  /\ projects' = Loaded.projects
  /\ selected' = Loaded.selected /\ currentProject' = Loaded.selected
  /\ IF Readable THEN UNCHANGED <<disk, writes, saving>> ELSE SaveConfig(1)
  /\ IF selected' \in projects' \cup {None}
     THEN app' = "up" /\ starting' = TRUE
     ELSE app' = "failed" /\ starting' = FALSE
  /\ UNCHANGED <<waiting, clicks>>

\* server_instantiate returns to startApp, and load_project(currentProject) runs.
StartupLoads ==
  /\ app = "up" /\ starting
  /\ starting' = FALSE
  /\ \/ /\ currentProject # None
        /\ LoadNow(currentProject, 0)
     \/ /\ currentProject = None
        /\ UNCHANGED <<disk, writes, saving, projects, selected,
                       currentProject, app>>
  /\ UNCHANGED <<waiting, clicks>>

\* killserver returns to load_project.
KillserverReturns ==
  /\ app = "up"
  /\ \E k \in Calls :
       /\ waiting[k] # None
       /\ waiting' = [waiting EXCEPT ![k] = None]
       /\ LoadNow(waiting[k], 0)
  /\ UNCHANGED <<starting, clicks>>

\* A write in flight goes on.
FileStep ==
  /\ app \in {"up", "failed"}
  /\ WriteStep
  /\ saving' = IF InFlight' = {} THEN {} ELSE saving
  /\ UNCHANGED <<app, projects, selected, currentProject, waiting, starting,
                 clicks>>

-----------------------------------------------------------------------------
\* The list on disk, if any, is one that ZAMP saved.
Sound(c) ==
  IF c.projects = {} THEN c.selected = None ELSE c.selected \in c.projects

Init ==
  /\ FileInit
  /\ Readable => Sound(disk)
  /\ app = "down"
  /\ projects = {} /\ selected = None /\ currentProject = None
  /\ waiting = NoCalls /\ starting = FALSE
  /\ clicks = 0 /\ saving = {}

Next ==
  \/ SelectProject \/ AddProject \/ RemoveProject \/ Exit
  \/ Launch \/ StartupLoads \/ KillserverReturns \/ FileStep

Spec == Init /\ [][Next]_vars

-----------------------------------------------------------------------------
(* Properties.                                                             *)

\* Every variable has its type.
TypeOK ==
  /\ FileTypeOK
  /\ app \in {"up", "down", "failed"}
  /\ projects \subseteq Projects
  /\ {selected, currentProject} \subseteq Projects \cup {None}
  /\ waiting \in [Calls -> Projects \cup {None}]
  /\ starting \in BOOLEAN
  /\ clicks \in 0..MaxClicks
  /\ saving \subseteq Config

\* main.js:68 does not throw: no sequence of additions, removals, switches
\* that wait, overlapping writes and exits in the middle of them leaves a
\* readable config.json that selects a project it does not list.
LaunchSucceeds == app # "failed"

\* The lists an exit may leave: the one on disk, those being written, and none
\* as long as a write may truncate the file.
Durable ==
  {Loaded} \cup {writes[i].text : i \in InFlight}
           \cup (IF Settled THEN {} ELSE {Blank})

Promise == INSTANCE ProjectList WITH
  list <- IF app = "up" THEN Memory ELSE Loaded, durable <- Durable

\* The user's list only changes by the user's actions, and what was saved
\* without an overlap is there at the next launch.
ListKept == Promise!Spec

=============================================================================
