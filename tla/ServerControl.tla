--------------------------- MODULE ServerControl ---------------------------
(***************************************************************************)
(* The Electron main process as it drives Apache: the IPC handlers of      *)
(* main.js ('open', 'close', 'close-app', 'select_project',                *)
(* 'change-PHP-version', adding and removing a project, closing the        *)
(* window), the asynchronous functions of apache_config.js they start      *)
(* (killserver, create_server), the httpd.exe processes, and the           *)
(* Start/Stop button of renderer.js with the two IPC channels.             *)
(*                                                                         *)
(* The main process is one thread: a handler runs to its first await in    *)
(* one step.  What goes on after an await is a job; every await, and every *)
(* point where the output of a child process was taken but not yet used,   *)
(* is a value of the job's pc.  Jobs, clicks, IPC deliveries and the httpd *)
(* processes interleave.                                                   *)
(*                                                                         *)
(* The contents of httpd.conf and php.ini are not part of this module: a   *)
(* job that awaits an edit of them is at pc "www" (change_www_path) or     *)
(* "inst" (server_instantiate).  HttpdConf models those edits.             *)
(***************************************************************************)
EXTENDS Naturals, Sequences, FiniteSets

CONSTANTS
  Projects,     \* names a project folder can have
  None,         \* the null of currentProject
  Pids,         \* names of the httpd.exe processes, in the order they start
  Orphans,      \* the processes a previous session may have left
  Jobs,         \* slots for asynchronous calls in flight (bound)
  MaxClicks,    \* user actions in a behaviour (bound)
  Patient,      \* TRUE: the user acts only when nothing is in flight
  ListMayFail,  \* TRUE: running tasklist may fail
  KillMayFail,  \* the processes whose TASKKILL may fail, such as a service
  HttpdMayDie   \* TRUE: an httpd.exe may exit by itself

ASSUME ServerControlAssumption ==
  /\ None \notin Projects
  /\ Pids \subseteq Nat /\ Orphans \subseteq Pids /\ KillMayFail \subseteq Pids
  /\ Jobs \subseteq Nat /\ Jobs # {}
  /\ MaxClicks \in Nat
  /\ {Patient, ListMayFail, HttpdMayDie} \subseteq BOOLEAN

VARIABLES
  serverRunning,   \* main.js: serverRunning
  currentProject,  \* main.js: currentProject
  projects,        \* main.js: the keys of config.projects
  job,             \* the asynchronous calls in flight
  httpd,           \* the httpd.exe processes of the machine
  toMain,          \* IPC from the renderer to the main process
  toUI,            \* IPC from the main process to the renderer
  btn,             \* renderer.js: the text of the open-close button
  popup,           \* renderer.js: the close-but-server-running popup is shown
  appUp,           \* the main process has not exited
  clicks           \* user actions so far

vars == <<serverRunning, currentProject, projects, job, httpd, toMain, toUI,
          btn, popup, appUp, clicks>>

ui == <<btn, popup>>

(* The messages of the two IPC channels.                                   *)
Command ==
  [cmd : {"open", "close", "close-app", "select_project", "change-PHP-version"},
   name : Projects \cup {None}]
Message == {"open", "closed", "stopping", "close-but-running"}

-----------------------------------------------------------------------------
(* Jobs.  todo holds the pids killserver has listed and not yet worked     *)
(* off, name the project load_project was called with, and old the httpd   *)
(* processes that were alive when killserver or create_server was called   *)
(* (a history field: no guard reads it).                                   *)

Pc   == {"idle", "list", "kill", "www", "inst", "check", "seen", "unseen"}
Then == {"none", "exit", "switch", "php", "start", "restart", "startup"}
Job  == [pc : Pc, then : Then, todo : SUBSET Pids, old : SUBSET Pids,
         name : Projects \cup {None}]

Alive == {p \in Pids : httpd[p] \in {"starting", "up"}}

\* An await of something other than killserver, and what follows it.
Await(pc, then) ==
  [pc |-> pc, then |-> then, todo |-> {}, old |-> {}, name |-> None]

Idle == Await("idle", "none")

\* A call of killserver: tasklist is running; then is the code after the await.
Killserver(then, name) ==
  [pc |-> "list", then |-> then, todo |-> {}, old |-> Alive, name |-> name]

\* A call of create_server: isRunning has started its tasklist.
CreateServer == [Await("check", "start") EXCEPT !.old = Alive]

\* The slot a new call takes: the first idle one.
FreeSlot(j) ==
  /\ job[j].pc = "idle"
  /\ \A i \in Jobs : job[i].pc = "idle" => j <= i

\* The next process Windows starts.
NextPid(p) ==
  /\ httpd[p] = "unused"
  /\ \A q \in Pids : httpd[q] = "unused" => p <= q

Quiet ==
  /\ toMain = <<>> /\ toUI = <<>>
  /\ \A j \in Jobs : job[j].pc = "idle"
  /\ \A p \in Pids : httpd[p] # "starting"

-----------------------------------------------------------------------------
(* load_project up to its first real await: nothing for null; killserver   *)
(* when another project is selected and the server is marked running;      *)
(* otherwise the selection is made and httpd.conf is edited.  cur and      *)
(* listed are currentProject and the project list at the call.             *)

\* Seeded defect: load_project does not call change_www_path.
SelectProjectUnedited(j, name, listed, then) ==
  /\ currentProject' = name
  /\ job' = [job EXCEPT ![j] = Idle]

\* The part of load_project after killserver.  A name that is no longer
\* listed throws at config.projects[currentProject].path, after currentProject
\* was assigned.
SelectProject(j, name, listed, then) ==
  /\ currentProject' = name
  /\ job' = [job EXCEPT ![j] =
               IF name \in listed THEN Await("www", then) ELSE Idle]

LoadProject(j, name, cur, listed) ==
  \/ /\ name = None
     /\ currentProject' = cur
     /\ UNCHANGED <<job, toUI>>
  \/ /\ name # None /\ name # cur /\ serverRunning
     /\ toUI' = Append(toUI, "stopping")
     /\ job' = [job EXCEPT ![j] = Killserver("switch", name)]
     /\ currentProject' = cur
  \/ /\ name # None /\ ~(name # cur /\ serverRunning)
     /\ SelectProject(j, name, listed, "none")
     /\ UNCHANGED toUI

-----------------------------------------------------------------------------
(* The user.  Every action counts against MaxClicks.                       *)

UserActs ==
  /\ appUp
  /\ clicks < MaxClicks
  /\ Patient => Quiet
  /\ clicks' = clicks + 1

Send(cmds) ==
  /\ UserActs
  /\ toMain' = toMain \o cmds
  /\ UNCHANGED <<serverRunning, currentProject, projects, job, httpd, toUI,
                 btn, appUp>>

Cmd(c, name) == [cmd |-> c, name |-> name]

\* The open-close button; while it reads "Stopping..." a click sends nothing.
ClickOpenClose ==
  /\ \/ btn = "Start" /\ Send(<<Cmd("open", None)>>)
     \/ btn = "Stop"  /\ Send(<<Cmd("close", None)>>)
  /\ UNCHANGED popup

\* A project card.  A card made by add_project has one click listener, a card
\* made by the 'get-projects' handler has two and sends its message twice.
ClickCard ==
  /\ \E p \in projects :
       \/ Send(<<Cmd("select_project", p)>>)
       \/ Send(<<Cmd("select_project", p), Cmd("select_project", p)>>)
  /\ UNCHANGED popup

ClickPhpVersion ==
  /\ Send(<<Cmd("change-PHP-version", None)>>)
  /\ UNCHANGED popup

\* The two buttons of the popup; accepting does not hide it.
AcceptClose ==
  /\ popup
  /\ Send(<<Cmd("close-app", None)>>)
  /\ UNCHANGED popup

CancelClose ==
  /\ popup
  /\ popup' = FALSE
  /\ Send(<<>>)

\* app.exit(): the jobs and the channels are gone, the httpd processes stay.
Exit ==
  /\ appUp' = FALSE
  /\ job' = [j \in Jobs |-> Idle]
  /\ toMain' = <<>> /\ toUI' = <<>>

\* The window's close event.
CloseWindow ==
  /\ UserActs
  /\ \/ /\ serverRunning
        /\ toUI' = Append(toUI, "close-but-running")
        /\ UNCHANGED <<job, toMain, appUp>>
     \/ /\ ~serverRunning
        /\ Exit
  /\ UNCHANGED <<serverRunning, currentProject, projects, httpd, ui>>

\* A folder was chosen in a dialog or dropped (add_project).
AddProject(j) ==
  /\ UserActs
  /\ FreeSlot(j)
  /\ \E p \in Projects :
       /\ projects' = projects \cup {p}
       /\ IF currentProject = None
          THEN LoadProject(j, p, p, projects')
          ELSE UNCHANGED <<currentProject, job, toUI>>
  /\ UNCHANGED <<serverRunning, httpd, toMain, ui, appUp>>

\* Seeded defect: the current project is not reselected when it is removed.
RemoveProjectOnly(j) ==
  /\ UserActs
  /\ FreeSlot(j)
  /\ \E p \in projects : projects' = projects \ {p}
  /\ UNCHANGED <<currentProject, serverRunning, job, httpd, toMain, toUI, ui, appUp>>

\* 'Delete from list' (remove_project).  When the current project goes, the
\* first one left becomes current before load_project is called with it.
RemoveProject(j) ==
  /\ UserActs
  /\ FreeSlot(j)
  /\ \E p \in projects :
       /\ projects' = projects \ {p}
       /\ \/ /\ projects' # {} /\ p = currentProject
             /\ \E q \in projects' : LoadProject(j, q, q, projects')
          \/ /\ projects' # {} /\ p # currentProject
             /\ UNCHANGED <<currentProject, job, toUI>>
          \/ /\ projects' = {}
             /\ LoadProject(j, None, None, projects')
  /\ UNCHANGED <<serverRunning, httpd, toMain, ui, appUp>>

-----------------------------------------------------------------------------
(* The main process takes the next IPC message.                            *)

Receive(c) ==
  /\ appUp
  /\ toMain # <<>> /\ Head(toMain).cmd = c
  /\ toMain' = Tail(toMain)
  /\ UNCHANGED <<projects, httpd, ui, appUp, clicks>>

\* Seeded defect: serverRunning is not set.
OnOpenUnmarked(j) ==
  /\ Receive("open")
  /\ FreeSlot(j)
  /\ job' = IF currentProject = None THEN job
            ELSE [job EXCEPT ![j] = CreateServer]
  /\ UNCHANGED <<serverRunning, currentProject, toUI>>

\* 'open': serverRunning is set even when no project is selected.
OnOpen(j) ==
  /\ Receive("open")
  /\ FreeSlot(j)
  /\ serverRunning' = TRUE
  /\ job' = IF currentProject = None THEN job
            ELSE [job EXCEPT ![j] = CreateServer]
  /\ UNCHANGED <<currentProject, toUI>>

\* 'close': killserver is not awaited, serverRunning is cleared at once.
OnClose(j) ==
  /\ Receive("close")
  /\ FreeSlot(j)
  /\ toUI' = Append(toUI, "stopping")
  /\ job' = [job EXCEPT ![j] = Killserver("none", None)]
  /\ serverRunning' = FALSE
  /\ UNCHANGED currentProject

\* Seeded defect: app.exit is not called after the kill.
OnCloseAppStays(j) ==
  /\ Receive("close-app")
  /\ FreeSlot(j)
  /\ toUI' = Append(toUI, "stopping")
  /\ job' = [job EXCEPT ![j] = Killserver("none", None)]
  /\ UNCHANGED <<serverRunning, currentProject>>

OnCloseApp(j) ==
  /\ Receive("close-app")
  /\ FreeSlot(j)
  /\ toUI' = Append(toUI, "stopping")
  /\ job' = [job EXCEPT ![j] = Killserver("exit", None)]
  /\ UNCHANGED <<serverRunning, currentProject>>

OnSelectProject(j) ==
  /\ Receive("select_project")
  /\ FreeSlot(j)
  /\ LoadProject(j, Head(toMain).name, currentProject, projects)
  /\ UNCHANGED serverRunning

\* 'change-PHP-version': only a server marked running is killed; without one
\* load_php_version is all that happens, and the version is not modelled here.
OnChangePhp(j) ==
  /\ Receive("change-PHP-version")
  /\ FreeSlot(j)
  /\ IF serverRunning
     THEN /\ toUI' = Append(toUI, "stopping")
          /\ job' = [job EXCEPT ![j] = Killserver("php", None)]
     ELSE UNCHANGED <<toUI, job>>
  /\ UNCHANGED <<serverRunning, currentProject>>

-----------------------------------------------------------------------------
(* Asynchronous steps of the jobs.                                         *)

Step(j, pc) ==
  /\ appUp
  /\ job[j].pc = pc
  /\ UNCHANGED <<serverRunning, projects, btn, popup, clicks>>

\* Seeded defect: 'open' is not sent.
StartServerSilent(j, sent) ==
  /\ toUI' = sent
  /\ \E p \in Pids :
       /\ NextPid(p)
       /\ httpd' = [httpd EXCEPT ![p] = "starting"]
  /\ job' = [job EXCEPT ![j] = Idle]

\* start_server: 'open' is sent and httpd.exe is spawned.
StartServer(j, sent) ==
  /\ toUI' = Append(sent, "open")
  /\ \E p \in Pids :
       /\ NextPid(p)
       /\ httpd' = [httpd EXCEPT ![p] = "starting"]
  /\ job' = [job EXCEPT ![j] = Idle]

\* What follows `await killserver(...)` in its five callers.
AfterKill(j, sent) ==
  LET then == job[j].then IN
  \/ /\ then = "none"
     /\ job' = [job EXCEPT ![j] = Idle]
     /\ toUI' = sent
     /\ UNCHANGED <<currentProject, httpd, toMain, appUp>>
  \/ /\ then = "exit"
     /\ Exit
     /\ UNCHANGED <<currentProject, httpd>>
  \/ /\ then = "switch"
     /\ SelectProject(j, job[j].name, projects, "restart")
     /\ toUI' = sent
     /\ UNCHANGED <<httpd, toMain, appUp>>
  \/ /\ then = "php"
     /\ job' = [job EXCEPT ![j] = Await("inst", "none")]
     /\ toUI' = sent
     /\ UNCHANGED <<currentProject, httpd, toMain, appUp>>
  \/ /\ then = "start"
     /\ StartServer(j, sent)
     /\ UNCHANGED <<currentProject, toMain, appUp>>

\* get_task_list: the pids of every httpd.exe that runs at this moment.
TaskList(j) ==
  /\ Step(j, "list")
  /\ job' = [job EXCEPT ![j].pc = "kill", ![j].todo = Alive]
  /\ UNCHANGED <<currentProject, httpd, toMain, toUI, appUp>>

\* tasklist fails: killserver catches the error, does not send 'closed', and
\* its caller goes on as after a kill.
TaskListFails(j) ==
  /\ ListMayFail
  /\ Step(j, "list")
  /\ AfterKill(j, toUI)

\* Seeded defect: a TASKKILL that fails leaves the loop.
TaskKillStops(j) ==
  /\ Step(j, "kill")
  /\ \E p \in job[j].todo :
       \/ /\ httpd' = [httpd EXCEPT ![p] = "dead"]
          /\ job' = [job EXCEPT ![j].todo = IF p \in Alive THEN @ \ {p} ELSE {}]
       \/ /\ p \in KillMayFail
          /\ job' = [job EXCEPT ![j].todo = {}]
          /\ UNCHANGED httpd
  /\ UNCHANGED <<currentProject, toMain, toUI, appUp>>

\* One TASKKILL.  One that fails is caught and ignored, whether the process is
\* already gone or goes on: it is worked off all the same.
TaskKill(j) ==
  /\ Step(j, "kill")
  /\ \E p \in job[j].todo :
       /\ job' = [job EXCEPT ![j].todo = @ \ {p}]
       /\ \/ httpd' = [httpd EXCEPT ![p] = "dead"]
          \/ p \in KillMayFail /\ UNCHANGED httpd
  /\ UNCHANGED <<currentProject, toMain, toUI, appUp>>

\* Seeded defect: 'closed' is not sent.
KillReturnsSilent(j) ==
  /\ Step(j, "kill")
  /\ job[j].todo = {}
  /\ AfterKill(j, toUI)

KillReturns(j) ==
  /\ Step(j, "kill")
  /\ job[j].todo = {}
  /\ AfterKill(j, Append(toUI, "closed"))

\* Seeded defect: load_project forgets that the server was running.
WwwDoneForgets(j) ==
  /\ Step(j, "www")
  /\ job' = [job EXCEPT ![j] = Idle]
  /\ UNCHANGED <<currentProject, httpd, toMain, toUI, appUp>>

\* change_www_path returns to load_project.
WwwDone(j) ==
  /\ Step(j, "www")
  /\ job' = [job EXCEPT ![j] =
               IF job[j].then = "restart" THEN CreateServer ELSE Idle]
  /\ UNCHANGED <<currentProject, httpd, toMain, toUI, appUp>>

\* server_instantiate returns: at startup load_project(currentProject) follows.
InstDone(j) ==
  /\ Step(j, "inst")
  /\ IF job[j].then = "startup" /\ currentProject # None
     THEN LoadProject(j, currentProject, currentProject, projects)
     ELSE /\ job' = [job EXCEPT ![j] = Idle]
          /\ UNCHANGED <<currentProject, toUI>>
  /\ UNCHANGED <<httpd, toMain, appUp>>

\* isRunning: tasklist is read, its callback has yet to run.  A tasklist that
\* fails has printed nothing.
CheckRunning(j) ==
  /\ Step(j, "check")
  /\ \E listed \in {Alive} \cup (IF ListMayFail THEN {{}} ELSE {}) :
       job' = [job EXCEPT ![j].pc = IF listed # {} THEN "seen" ELSE "unseen"]
  /\ UNCHANGED <<currentProject, httpd, toMain, toUI, appUp>>

\* The callback of isRunning: start, or killserver (which does not send
\* 'stopping' here) and then start.
StartUnseen(j) ==
  /\ Step(j, "unseen")
  /\ StartServer(j, toUI)
  /\ UNCHANGED <<currentProject, toMain, appUp>>

\* Seeded defect: killserver is not awaited.
CloseFirstUnawaited(j) ==
  /\ Step(j, "seen")
  /\ job' = [job EXCEPT ![j].pc = "unseen"]
  /\ UNCHANGED <<currentProject, httpd, toMain, toUI, appUp>>

CloseFirst(j) ==
  /\ Step(j, "seen")
  /\ job' = [job EXCEPT ![j] =
               [Killserver("start", None) EXCEPT !.old = @ \cup job[j].old]]
  /\ UNCHANGED <<currentProject, httpd, toMain, toUI, appUp>>

-----------------------------------------------------------------------------
(* httpd.exe (external): only one can have port 80, a second one exits.    *)
(* Nothing tells the main process: the 'close' callback is commented out.  *)

HttpdBinds(p) ==
  /\ httpd[p] = "starting"
  /\ \A q \in Pids : httpd[q] # "up"
  /\ httpd' = [httpd EXCEPT ![p] = "up"]
  /\ UNCHANGED <<serverRunning, currentProject, projects, job, toMain, toUI,
                 ui, appUp, clicks>>

HttpdExits(p) ==
  /\ \/ httpd[p] = "starting" /\ \E q \in Pids : httpd[q] = "up"
     \/ HttpdMayDie /\ p \in Alive
  /\ httpd' = [httpd EXCEPT ![p] = "dead"]
  /\ UNCHANGED <<serverRunning, currentProject, projects, job, toMain, toUI,
                 ui, appUp, clicks>>

-----------------------------------------------------------------------------
(* The renderer takes the next IPC message.                                *)

\* Seeded defect: every message becomes the text of the button.
BtnAfterAny(msg) ==
  CASE msg = "open"   -> "Stop"
    [] msg = "closed" -> "Start"
    [] OTHER          -> msg

\* The 'stopping' handler passes the button's own text to openCloseServer, so
\* a button that reads "Start" becomes "Stop".
BtnAfter(msg) ==
  CASE msg = "open"     -> "Stop"
    [] msg = "closed"   -> "Start"
    [] msg = "stopping" -> IF btn = "Start" THEN "Stop" ELSE "Stopping"
    [] OTHER            -> btn

Deliver ==
  /\ appUp
  /\ toUI # <<>>
  /\ toUI' = Tail(toUI)
  /\ btn' = BtnAfter(Head(toUI))
  /\ popup' = (popup \/ Head(toUI) = "close-but-running")
  /\ UNCHANGED <<serverRunning, currentProject, projects, job, httpd, toMain,
                 appUp, clicks>>

-----------------------------------------------------------------------------
(* The window was just created: server_instantiate runs, a project is      *)
(* selected unless there is none, and one server of a previous session may *)
(* still be up.                                                            *)

Init ==
  /\ serverRunning = FALSE
  /\ projects \in SUBSET Projects
  /\ currentProject \in IF projects = {} THEN {None} ELSE projects
  /\ \E j \in Jobs :
       /\ \A i \in Jobs : j <= i
       /\ job = [i \in Jobs |-> IF i = j THEN Await("inst", "startup") ELSE Idle]
  /\ \E o \in {{}} \cup {{p} : p \in Orphans} :
       httpd = [p \in Pids |-> IF p \in o THEN "up" ELSE
                               IF p \in Orphans THEN "dead" ELSE "unused"]
  /\ toMain = <<>> /\ toUI = <<>>
  /\ btn = "Start" /\ popup = FALSE
  /\ appUp = TRUE /\ clicks = 0

User ==
  \/ ClickOpenClose \/ ClickCard \/ ClickPhpVersion
  \/ AcceptClose \/ CancelClose \/ CloseWindow
  \/ \E j \in Jobs : AddProject(j) \/ RemoveProject(j)

OnMessage(j) ==
  OnOpen(j) \/ OnClose(j) \/ OnCloseApp(j) \/ OnSelectProject(j) \/ OnChangePhp(j)

JobStep(j) ==
  \/ TaskList(j) \/ TaskListFails(j) \/ TaskKill(j) \/ KillReturns(j)
  \/ WwwDone(j) \/ InstDone(j)
  \/ CheckRunning(j) \/ StartUnseen(j) \/ CloseFirst(j)

Next ==
  \/ User
  \/ \E j \in Jobs : OnMessage(j) \/ JobStep(j)
  \/ Deliver
  \/ \E p \in Pids : HttpdBinds(p) \/ HttpdExits(p)

Spec == Init /\ [][Next]_vars

\* The event loop takes every message and every completed call, the child
\* processes finish, and a started httpd either gets the port or exits.  The
\* user owes nothing.
Fairness ==
  /\ WF_vars(Deliver)
  /\ WF_vars(\E j \in Jobs : OnMessage(j))
  /\ \A j \in Jobs : WF_vars(JobStep(j))
  /\ \A p \in Pids :
       WF_vars(httpd[p] = "starting" /\ (HttpdBinds(p) \/ HttpdExits(p)))

FairSpec == Spec /\ Fairness

-----------------------------------------------------------------------------
(* Properties.                                                             *)

\* Every variable has its type.
TypeOK ==
  /\ serverRunning \in BOOLEAN
  /\ currentProject \in Projects \cup {None}
  /\ projects \subseteq Projects
  /\ job \in [Jobs -> Job]
  /\ httpd \in [Pids -> {"unused", "starting", "up", "dead"}]
  /\ toMain \in Seq(Command)
  /\ toUI \in Seq(Message)
  /\ btn \in {"Start", "Stop", "Stopping"}
  /\ popup \in BOOLEAN
  /\ appUp \in BOOLEAN
  /\ clicks \in 0..MaxClicks

(* The httpd processes this session started. *)
Ours == Alive \ Orphans

\* The contract its five callers rely on: when killserver has worked off its
\* list, no httpd.exe that was alive when it was called is alive, whatever
\* other jobs killed or started meanwhile, except those whose TASKKILL may
\* fail.  A failure costs no other process: the loop goes on.
KillContract ==
  [][\A j \in Jobs :
       KillReturns(j) => job[j].old \cap Alive' \subseteq KillMayFail]_vars

(* j is the create_server call that spawns an httpd in this step. *)
Spawns(j) ==
  /\ job'[j] # job[j]
  /\ \E p \in Pids : httpd[p] = "unused" /\ httpd'[p] = "starting"

\* create_server replaces: no httpd.exe that was alive when it was called (and
\* may serve an older httpd.conf) survives to the moment it starts the new one,
\* although isRunning and the kill work on lists that are out of date when used;
\* again except those whose TASKKILL may fail.
StartReplaces ==
  [][\A j \in Jobs :
       Spawns(j) => job[j].old \cap Alive' \subseteq KillMayFail]_vars

\* A killserver call that got its list always reports 'closed', so the button
\* does not stay at "Stopping...", whatever else is clicked meanwhile.
StoppingResolves == (btn = "Stopping" /\ appUp) ~> (btn # "Stopping" \/ ~appUp)

\* For a user who waits: once nothing is in flight the button offers Stop
\* exactly when a server of this session runs, through restarts, double
\* select_project messages and changes of PHP version.  While a process that
\* TASKKILL may not end has the port the button says nothing: 'open' is sent
\* before the httpd.exe that will not get the port is spawned.
ButtonTellsTruth ==
  appUp /\ Quiet /\ Alive \cap KillMayFail = {} => (btn = "Stop" <=> Ours # {})

\* For a user who waits: quitting, by an unguarded window close or by the
\* popup, leaves no server of this session running.
CleanExit == ~appUp => Ours = {}

\* For a user who waits: the current project is a listed one, and there is none
\* only when the list is empty, through add, remove and a switch that is
\* waiting for killserver.
SelectionSound ==
  /\ currentProject \in projects \cup {None}
  /\ currentProject = None <=> projects = {}

\* Accepting to quit in the popup ends the app, also when tasklist fails.
QuitCompletes ==
  (\E i \in DOMAIN toMain : toMain[i].cmd = "close-app") ~> ~appUp

\* For a user who waits: a switch of project that stopped a server ends with a
\* server up again.
SwitchRestarts ==
  (\E j \in Jobs : job[j].then \in {"switch", "restart"})
    ~> (\E p \in Pids : httpd[p] = "up") \/ ~appUp

=============================================================================
