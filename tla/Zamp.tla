-------------------------------- MODULE Zamp --------------------------------
(***************************************************************************)
(* The program as a whole for a user who waits: ServerControl, the handlers*)
(* and the httpd.exe processes, composed with HttpdConf, the edits of the  *)
(* file these processes read when they start, over several sessions.       *)
(*                                                                         *)
(* A call at pc "www" or "inst" in ServerControl awaits an edit of         *)
(* HttpdConf: it begins in the step that brings the call there, and the    *)
(* step that ends it lets the call go on.  currentProject is shared; the   *)
(* PHP version, which ServerControl leaves out, is HttpdConf's.            *)
(***************************************************************************)
EXTENDS Naturals, Sequences, FiniteSets

CONSTANTS
  Projects, Versions, None,
  Pids,       \* names of the httpd.exe processes, in the order they start
  Orphans,    \* the processes a previous session may have left
  KillMayFail, \* those of them whose TASKKILL may fail
  Jobs,       \* slots for calls in flight in ServerControl (bound)
  Edits,      \* slots for edits in flight in HttpdConf, from 1 (bound)
  MaxClicks,  \* user actions and launches in a behaviour (bound)
  AtLaunch,   \* the texts httpd.conf may have at the first launch
  Prompt      \* TRUE: what a click sent is taken before anything else goes on

ASSUME ZampAssumption ==
  /\ None \notin Projects \cup Versions
  /\ Pids \subseteq Nat /\ Orphans \subseteq Pids /\ KillMayFail \subseteq Orphans
  /\ Jobs \subseteq Nat /\ Jobs # {}
  /\ Edits \subseteq Nat \ {0} /\ 1 \in Edits
  /\ MaxClicks \in Nat
  /\ Prompt \in BOOLEAN

VARIABLES
  serverRunning, currentProject, projects, job, httpd, toMain, toUI, btn,
  popup, appUp, clicks,
  exists, conf, selected, applied,
  files,    \* HttpdConf's job: the edits in flight
  calls,    \* HttpdConf's calls
  awaits,   \* the edit each call awaits, or 0
  reads,    \* what httpd.conf said when each running process read it
  dropped   \* processes that ran when their project was deleted (history)

serverVars == <<serverRunning, currentProject, projects, job, httpd, toMain,
                toUI, btn, popup, appUp, clicks>>
fileVars == <<exists, conf, files, selected, applied, calls>>
vars == <<serverVars, fileVars, awaits, reads, dropped>>

Server == INSTANCE ServerControl WITH
  Patient <- TRUE, ListMayFail <- FALSE, HttpdMayDie <- FALSE

Conf == INSTANCE HttpdConf WITH
  job <- files, Jobs <- Edits, MaxCalls <- 2 * MaxClicks, Under <- {},
  Patient <- FALSE, MayCrash <- FALSE, MayMiss <- FALSE, IniMayFail <- FALSE

\* The default file, or one that an earlier session adapted: add_php_variable
\* adds the two PHP lines together.
ASSUME AtLaunchAssumption ==
  /\ AtLaunch \subseteq Conf!Text
  /\ \A t \in AtLaunch : t.body /\ ~t.junk /\ (t.php # None => t.ini # None)

-----------------------------------------------------------------------------
(* The main process and its environment.                                   *)

\* httpd.exe reads httpd.conf when it starts.  A deleted current project
\* leaves its place to another one, but the server that runs stays.
Processes ==
  /\ reads' = [p \in Pids |-> IF httpd'[p] # "up" THEN Conf!Empty
                              ELSE IF httpd[p] = "up" THEN reads[p] ELSE conf]
  /\ dropped' = {p \in Server!Alive' :
                   p \in dropped \/ currentProject \notin projects' \cup {None}}

\* A step of ServerControl other than the return of an edit.
Main ==
  /\ Server!Next
  /\ \A j \in Jobs : awaits[j] # 0 => job'[j] = job[j]
  /\ Prompt /\ toMain # <<>> => toMain' = Tail(toMain)
  /\ UNCHANGED <<exists, conf>>
  /\ Processes

Begins(j, pc) == job[j].pc # pc /\ job'[j].pc = pc

\* Call j calls a function of apache_config.js that edits httpd.conf.
Edit(j, call) ==
  /\ calls' = calls + 1
  /\ \E i \in Edits :
       /\ Conf!FreeSlot(Edits, i)
       /\ files' = [files EXCEPT ![i] = call]
       /\ awaits' = [awaits EXCEPT ![j] = i]

\* Seeded defect: the path of the project selected before is written.
SelectProjectStale ==
  /\ Main
  /\ \E j \in Jobs : Begins(j, "www") /\ Edit(j, Conf!ChangeWww(currentProject))
  /\ UNCHANGED <<selected, applied>>

\* load_project, once it need not wait for killserver.
SelectProject ==
  /\ Main
  /\ \E j \in Jobs : Begins(j, "www") /\ Edit(j, Conf!ChangeWww(currentProject'))
  /\ UNCHANGED <<selected, applied>>

\* 'change-PHP-version' after killserver.
InstantiateVersion ==
  /\ Main
  /\ \E v \in Versions, j \in Jobs :
       /\ Begins(j, "inst") /\ Edit(j, Conf!Instantiate(v, FALSE, FALSE))
       /\ selected' = v /\ applied' = v

\* 'change-PHP-version' is taken and need not wait for killserver.
Stores ==
  /\ toMain # <<>> /\ Head(toMain).cmd = "change-PHP-version"
  /\ toMain' = Tail(toMain)
  /\ ~serverRunning

\* 'change-PHP-version' of a server that does not run.
StoreVersion ==
  /\ Main /\ Stores
  /\ selected' \in Versions
  /\ calls' = calls + 1
  /\ UNCHANGED <<files, applied, awaits>>

\* Everything else leaves httpd.conf and the version alone.
OtherStep ==
  /\ Main
  /\ ~\E j \in Jobs : Begins(j, "www") \/ Begins(j, "inst")
  /\ ~Stores
  /\ calls' = IF currentProject' = currentProject THEN calls ELSE calls + 1
  /\ UNCHANGED <<files, selected, applied, awaits>>

MainStep == SelectProject \/ InstantiateVersion \/ StoreVersion \/ OtherStep

-----------------------------------------------------------------------------
(* An edit goes on.                                                        *)

\* The function that was called returns; startup goes on with load_project.
Ends(i) ==
  files'[i].stage \in {"idle", "www"} /\ files'[i].stage # files[i].stage

EditStep(i) ==
  /\ Prompt => toMain = <<>>
  /\ Conf!JobStep(i)
  /\ ~Ends(i)
  /\ UNCHANGED <<serverVars, awaits, reads, dropped>>

EditReturns(i) ==
  /\ Prompt => toMain = <<>>
  /\ Conf!JobStep(i)
  /\ Ends(i)
  /\ \E j \in Jobs :
       /\ awaits[j] = i
       /\ Server!WwwDone(j) \/ Server!InstDone(j)
       /\ awaits' = IF job'[j].pc = "www" THEN awaits ELSE [awaits EXCEPT ![j] = 0]
  /\ UNCHANGED <<reads, dropped>>

-----------------------------------------------------------------------------
(* ZAMP is started again: the list and the selections come from the files, *)
(* and server_instantiate runs.                                            *)

StartApp ==
  /\ \E j \in Jobs :
       /\ \A i \in Jobs : j <= i
       /\ job' = [i \in Jobs |-> IF i = j THEN Server!Await("inst", "startup")
                                          ELSE Server!Idle]
       /\ awaits' = [i \in Jobs |-> IF i = j THEN 1 ELSE 0]
  /\ serverRunning' = FALSE /\ toMain' = <<>> /\ toUI' = <<>>
  /\ btn' = "Start" /\ popup' = FALSE /\ appUp' = TRUE

Relaunch ==
  /\ ~appUp
  /\ clicks < MaxClicks /\ clicks' = clicks + 1
  /\ Conf!Relaunch
  /\ StartApp
  /\ UNCHANGED <<projects, httpd, reads, dropped>>

Init ==
  /\ Server!Init
  /\ Conf!Init
  /\ awaits = [j \in Jobs |-> IF job[j].pc = "inst" THEN 1 ELSE 0]
  /\ reads = [p \in Pids |-> Conf!Empty] /\ dropped = {}

Next ==
  \/ MainStep
  \/ \E i \in Edits : EditStep(i) \/ EditReturns(i)
  \/ Relaunch

Spec == Init /\ [][Next]_vars

\* As long as something is in flight something goes on: the event loop, the
\* child processes and the file operations all make progress, in an order that
\* is not specified.  The user owes nothing.
Fairness == WF_vars(Next /\ clicks' = clicks)

FairSpec == Spec /\ Fairness

-----------------------------------------------------------------------------
(* Properties.                                                             *)

\* Every variable has its type, and the parts agree on what is in flight: a
\* call awaits an edit exactly when it is at "www" or "inst", the edit is one
\* of that function, and every edit in flight is awaited by one call.
TypeOK ==
  /\ Server!TypeOK /\ Conf!TypeOK
  /\ awaits \in [Jobs -> Edits \cup {0}]
  /\ reads \in [Pids -> Conf!Text] /\ dropped \subseteq Pids
  /\ \A j \in Jobs :
       /\ awaits[j] # 0 <=> job[j].pc \in {"www", "inst"}
       /\ awaits[j] # 0 =>
            /\ files[awaits[j]].stage # "idle"
            /\ files[awaits[j]].stage = "www" <=> job[j].pc = "www"
  /\ \A i \in Edits : files[i].stage # "idle" =>
       \E j \in Jobs : /\ awaits[j] = i
                       /\ \A k \in Jobs \ {j} : awaits[k] # i

\* What main.js does to httpd.conf is what HttpdConf assumes of its callers:
\* every selection that changes is followed by its edit, and a launch edits
\* with what was selected.
EditsAsAssumed == Conf!Spec

\* Whenever no edit is in flight httpd.conf serves the selected project, with
\* the version server_instantiate was last called for, through launches,
\* switches that wait for killserver, double messages and deletions.
SelectionServed == Conf!SelectionServed

\* Once nothing is in flight, the server of this session that runs has read a
\* whole httpd.conf with the current project as its root and the PHP version
\* last instantiated, also when an overlapping edit was in progress when an
\* earlier one was started.  One whose project was deleted under it is exempt.
RightServer ==
  appUp /\ Server!Quiet =>
    \A p \in Server!Ours \ dropped :
      /\ reads[p].body /\ ~reads[p].junk
      /\ reads[p].doc = currentProject /\ reads[p].dir = currentProject
      /\ reads[p].php = applied

\* A switch of project that stopped a server ends with a server that has read
\* a file with the new project as its root, unless one that TASKKILL may not end
\* has the port.
SwitchServes ==
  (\E j \in Jobs : job[j].then \in {"switch", "restart"})
    ~> \E p \in Pids :
         httpd[p] = "up" /\ (reads[p].doc = currentProject \/ p \in KillMayFail)

=============================================================================
