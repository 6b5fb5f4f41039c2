------------------------ MODULE ServerControlProofs ------------------------
(***************************************************************************)
(* Proofs about ServerControl, for any projects, processes, slots for      *)
(* calls and number of clicks: type correctness, the contract of           *)
(* killserver, and that create_server replaces the server it finds.        *)
(***************************************************************************)
EXTENDS ServerControl, SequenceTheorems, TLAPS

(* What the record builders return.                                        *)

LEMMA AwaitType ==
  ASSUME NEW pc \in Pc, NEW then \in Then
  PROVE  Await(pc, then) \in Job
BY DEF Await, Job

LEMMA IdleType == Idle \in Job
BY AwaitType DEF Idle, Pc, Then

LEMMA KillserverType ==
  ASSUME NEW then \in Then, NEW name \in Projects \cup {None}
  PROVE  Killserver(then, name) \in Job
BY DEF Killserver, Job, Pc, Alive

LEMMA CreateServerType == CreateServer \in Job
BY DEF CreateServer, Await, Job, Pc, Then, Alive

LEMMA CmdType ==
  ASSUME NEW c \in {"open", "close", "close-app", "select_project",
                    "change-PHP-version"},
         NEW name \in Projects \cup {None}
  PROVE  Cmd(c, name) \in Command
BY DEF Cmd, Command

(* The channels: a send appends, a receipt removes the head.               *)

LEMMA AppendType ==
  ASSUME NEW S, NEW s \in Seq(S), NEW e \in S
  PROVE  Append(s, e) \in Seq(S)
BY AppendProperties

LEMMA TailType ==
  ASSUME NEW S, NEW s \in Seq(S), s # <<>>
  PROVE  Tail(s) \in Seq(S) /\ Head(s) \in S
BY HeadTailProperties

-----------------------------------------------------------------------------
(* Type correctness.                                                       *)

LEMMA SelectProjectType ==
  ASSUME TypeOK, NEW j \in Jobs, NEW name \in Projects \cup {None},
         NEW listed, NEW then \in Then, SelectProject(j, name, listed, then)
  PROVE  job' \in [Jobs -> Job] /\ currentProject' \in Projects \cup {None}
BY IdleType, AwaitType DEF SelectProject, TypeOK, Pc

LEMMA LoadProjectType ==
  ASSUME TypeOK, NEW j \in Jobs, NEW name \in Projects \cup {None},
         NEW cur \in Projects \cup {None}, NEW listed,
         LoadProject(j, name, cur, listed)
  PROVE  /\ job' \in [Jobs -> Job]
         /\ currentProject' \in Projects \cup {None}
         /\ toUI' \in Seq(Message)
<1>1. CASE name = None /\ currentProject' = cur /\ UNCHANGED <<job, toUI>>
  BY <1>1 DEF TypeOK
<1>2. CASE /\ toUI' = Append(toUI, "stopping")
           /\ job' = [job EXCEPT ![j] = Killserver("switch", name)]
           /\ currentProject' = cur
  <2>1. Killserver("switch", name) \in Job
    BY KillserverType DEF Then
  <2>2. toUI' \in Seq(Message)
    BY <1>2, AppendType DEF TypeOK, Message
  <2> QED BY <1>2, <2>1, <2>2 DEF TypeOK
<1>3. CASE SelectProject(j, name, listed, "none") /\ UNCHANGED toUI
  BY <1>3, SelectProjectType DEF TypeOK, Then
<1> QED BY <1>1, <1>2, <1>3 DEF LoadProject

LEMMA SendType ==
  ASSUME TypeOK, NEW cmds \in Seq(Command), Send(cmds), popup' \in BOOLEAN
  PROVE  TypeOK'
<1>1. toMain' \in Seq(Command)
  BY ConcatProperties DEF Send, TypeOK
<1>2. clicks' \in 0..MaxClicks
  BY ServerControlAssumption DEF Send, UserActs, TypeOK
<1> QED BY <1>1, <1>2 DEF Send, TypeOK

LEMMA ExitType ==
  ASSUME Exit
  PROVE  /\ job' \in [Jobs -> Job] /\ appUp' \in BOOLEAN
         /\ toMain' \in Seq(Command) /\ toUI' \in Seq(Message)
BY IdleType, EmptySeq DEF Exit

LEMMA StartServerType ==
  ASSUME TypeOK, NEW j \in Jobs, NEW sent \in Seq(Message),
         StartServer(j, sent)
  PROVE  /\ job' \in [Jobs -> Job] /\ toUI' \in Seq(Message)
         /\ httpd' \in [Pids -> {"unused", "starting", "up", "dead"}]
<1>1. toUI' \in Seq(Message)
  BY AppendType DEF StartServer, Message
<1> QED BY <1>1, IdleType DEF StartServer, TypeOK

LEMMA AfterKillType ==
  ASSUME TypeOK, NEW j \in Jobs, NEW sent \in Seq(Message),
         AfterKill(j, sent)
  PROVE  /\ job' \in [Jobs -> Job] /\ toUI' \in Seq(Message)
         /\ httpd' \in [Pids -> {"unused", "starting", "up", "dead"}]
         /\ currentProject' \in Projects \cup {None}
         /\ toMain' \in Seq(Command) /\ appUp' \in BOOLEAN
<1>1. CASE job[j].then = "none"
  BY <1>1, IdleType DEF AfterKill, TypeOK
<1>2. CASE job[j].then = "exit"
  BY <1>2, ExitType DEF AfterKill, TypeOK
<1>3. CASE job[j].then = "switch"
  <2>1. /\ SelectProject(j, job[j].name, projects, "restart")
        /\ toUI' = sent /\ UNCHANGED <<httpd, toMain, appUp>>
    BY <1>3 DEF AfterKill
  <2>2. job[j].name \in Projects \cup {None}
    BY DEF TypeOK, Job
  <2> QED BY <2>1, <2>2, SelectProjectType DEF TypeOK, Then
<1>4. CASE job[j].then = "php"
  BY <1>4, AwaitType DEF AfterKill, TypeOK, Pc, Then
<1>5. CASE job[j].then = "start"
  BY <1>5, StartServerType DEF AfterKill, TypeOK
<1> QED BY <1>1, <1>2, <1>3, <1>4, <1>5 DEF AfterKill

\* Init establishes TypeOK.
LEMMA InitType == Init => TypeOK
<1> SUFFICES ASSUME Init PROVE TypeOK
  OBVIOUS
<1>1. job \in [Jobs -> Job]
  BY AwaitType, IdleType DEF Init, Pc, Then
<1>2. toMain \in Seq(Command) /\ toUI \in Seq(Message)
  BY EmptySeq DEF Init
<1>3. httpd \in [Pids -> {"unused", "starting", "up", "dead"}]
  BY DEF Init
<1>4. clicks \in 0..MaxClicks
  BY ServerControlAssumption DEF Init
<1> QED BY <1>1, <1>2, <1>3, <1>4 DEF Init, TypeOK

\* The actions of the user.
LEMMA UserType == TypeOK /\ User => TypeOK'
<1> SUFFICES ASSUME TypeOK, User PROVE TypeOK'
  OBVIOUS
<1>0. UserActs
  BY DEF User, ClickOpenClose, ClickCard, ClickPhpVersion, AcceptClose,
         CancelClose, CloseWindow, AddProject, RemoveProject, Send
<1> clicks' \in 0..MaxClicks
  BY <1>0, ServerControlAssumption DEF UserActs, TypeOK
<1> DEFINE C == Projects \cup {None}
<1>1. ASSUME NEW c \in {"open", "close", "close-app", "select_project",
                         "change-PHP-version"}, NEW name \in C
      PROVE  /\ <<Cmd(c, name)>> \in Seq(Command)
             /\ <<Cmd(c, name), Cmd(c, name)>> \in Seq(Command)
  BY CmdType
<1>2. CASE ClickOpenClose
  BY <1>1, <1>2, SendType DEF ClickOpenClose, TypeOK
<1>3. CASE ClickCard
  <2> PICK p \in projects :
        \/ Send(<<Cmd("select_project", p)>>)
        \/ Send(<<Cmd("select_project", p), Cmd("select_project", p)>>)
    BY <1>3 DEF ClickCard
  <2> p \in C /\ popup' \in BOOLEAN
    BY <1>3 DEF TypeOK, ClickCard
  <2> QED BY <1>1, SendType
<1>4. CASE ClickPhpVersion
  BY <1>1, <1>4, SendType DEF ClickPhpVersion, TypeOK
<1>5. CASE AcceptClose
  BY <1>1, <1>5, SendType DEF AcceptClose, TypeOK
<1>6. CASE CancelClose
  BY <1>6, SendType, EmptySeq DEF CancelClose
<1>7. CASE CloseWindow
  <2>1. /\ job' \in [Jobs -> Job] /\ appUp' \in BOOLEAN
        /\ toMain' \in Seq(Command) /\ toUI' \in Seq(Message)
    BY <1>7, ExitType, AppendType DEF CloseWindow, TypeOK, Message
  <2> QED BY <1>7, <2>1 DEF CloseWindow, TypeOK, ui
<1>8. ASSUME NEW j \in Jobs, AddProject(j) PROVE TypeOK'
  <2> PICK p \in Projects :
        /\ projects' = projects \cup {p}
        /\ IF currentProject = None
           THEN LoadProject(j, p, p, projects')
           ELSE UNCHANGED <<currentProject, job, toUI>>
    BY <1>8 DEF AddProject
  <2>1. /\ job' \in [Jobs -> Job] /\ currentProject' \in C
        /\ toUI' \in Seq(Message)
    BY LoadProjectType DEF TypeOK
  <2> QED BY <1>8, <2>1 DEF AddProject, TypeOK, ui
<1>9. ASSUME NEW j \in Jobs, RemoveProject(j) PROVE TypeOK'
  <2>1. PICK p \in projects :
        /\ projects' = projects \ {p}
        /\ \/ \E q \in projects' : LoadProject(j, q, q, projects')
           \/ UNCHANGED <<currentProject, job, toUI>>
           \/ LoadProject(j, None, None, projects')
    BY <1>9 DEF RemoveProject
  <2>2. projects' \subseteq Projects
    BY <2>1 DEF TypeOK
  <2>3. /\ job' \in [Jobs -> Job] /\ currentProject' \in C
        /\ toUI' \in Seq(Message)
    BY <2>1, <2>2, LoadProjectType DEF TypeOK
  <2> QED BY <1>9, <2>2, <2>3 DEF RemoveProject, TypeOK, ui
<1> QED BY <1>2, <1>3, <1>4, <1>5, <1>6, <1>7, <1>8, <1>9 DEF User

\* The IPC handlers of the main process.
LEMMA OnMessageType ==
  ASSUME TypeOK, NEW j \in Jobs, OnMessage(j)
  PROVE  TypeOK'
<1>1. ASSUME NEW c, Receive(c)
      PROVE  toMain' \in Seq(Command) /\ Head(toMain) \in Command
  BY <1>1, TailType DEF Receive, TypeOK
<1>2. CASE OnOpen(j)
  BY <1>1, <1>2, CreateServerType DEF OnOpen, Receive, TypeOK, ui
<1>3. CASE OnClose(j)
  <2>1. toUI' \in Seq(Message)
    BY <1>3, AppendType DEF OnClose, TypeOK, Message
  <2>2. job' \in [Jobs -> Job]
    BY <1>3, KillserverType DEF OnClose, TypeOK, Then
  <2> QED BY <1>1, <1>3, <2>1, <2>2 DEF OnClose, Receive, TypeOK, ui
<1>4. CASE OnCloseApp(j)
  <2>1. toUI' \in Seq(Message)
    BY <1>4, AppendType DEF OnCloseApp, TypeOK, Message
  <2>2. job' \in [Jobs -> Job]
    BY <1>4, KillserverType DEF OnCloseApp, TypeOK, Then
  <2> QED BY <1>1, <1>4, <2>1, <2>2 DEF OnCloseApp, Receive, TypeOK, ui
<1>5. CASE OnSelectProject(j)
  <2>1. /\ Receive("select_project")
        /\ LoadProject(j, Head(toMain).name, currentProject, projects)
        /\ UNCHANGED serverRunning
    BY <1>5 DEF OnSelectProject
  <2>2. Head(toMain).name \in Projects \cup {None}
    BY <1>1, <2>1 DEF Command
  <2>3. /\ job' \in [Jobs -> Job]
        /\ currentProject' \in Projects \cup {None}
        /\ toUI' \in Seq(Message)
    BY <2>1, <2>2, LoadProjectType DEF TypeOK
  <2> QED BY <1>1, <2>1, <2>3 DEF Receive, TypeOK, ui
<1>6. CASE OnChangePhp(j)
  <2>1. toUI' \in Seq(Message)
    BY <1>6, AppendType DEF OnChangePhp, TypeOK, Message
  <2>2. job' \in [Jobs -> Job]
    BY <1>6, KillserverType DEF OnChangePhp, TypeOK, Then
  <2> QED BY <1>1, <1>6, <2>1, <2>2 DEF OnChangePhp, Receive, TypeOK, ui
<1> QED BY <1>2, <1>3, <1>4, <1>5, <1>6 DEF OnMessage

\* The steps of a job after its awaits.
LEMMA JobStepType ==
  ASSUME TypeOK, NEW j \in Jobs, JobStep(j)
  PROVE  TypeOK'
<1>0. job[j] \in Job
  BY DEF TypeOK
<1>1. CASE TaskList(j)
  <2>1. [job[j] EXCEPT !.pc = "kill", !.todo = Alive] \in Job
    BY <1>0 DEF Job, Pc, Alive
  <2>2. job' = [job EXCEPT ![j] = [job[j] EXCEPT !.pc = "kill", !.todo = Alive]]
    BY <1>1 DEF TaskList, TypeOK
  <2>3. job' \in [Jobs -> Job]
    BY <2>1, <2>2 DEF TypeOK
  <2> QED BY <1>1, <2>3 DEF TaskList, Step, TypeOK
<1>2. CASE TaskListFails(j)
  BY <1>2, AfterKillType DEF TaskListFails, Step, TypeOK
<1>3. CASE TaskKill(j)
  <2>1. PICK p \in job[j].todo :
          /\ job' = [job EXCEPT ![j].todo = @ \ {p}]
          /\ \/ httpd' = [httpd EXCEPT ![p] = "dead"]
             \/ p \in KillMayFail /\ UNCHANGED httpd
    BY <1>3 DEF TaskKill
  <2>2. job' \in [Jobs -> Job]
    BY <1>0, <2>1 DEF TypeOK, Job
  <2>3. httpd' \in [Pids -> {"unused", "starting", "up", "dead"}]
    BY <2>1 DEF TypeOK
  <2> QED BY <1>3, <2>2, <2>3 DEF TaskKill, Step, TypeOK
<1>4. CASE KillReturns(j)
  <2>1. Append(toUI, "closed") \in Seq(Message)
    BY AppendType DEF TypeOK, Message
  <2> QED BY <1>4, <2>1, AfterKillType DEF KillReturns, Step, TypeOK
<1>5. CASE WwwDone(j)
  BY <1>5, CreateServerType, IdleType DEF WwwDone, Step, TypeOK
<1>6. CASE InstDone(j)
  BY <1>6, LoadProjectType, IdleType DEF InstDone, Step, TypeOK
<1>7. CASE CheckRunning(j)
  <2>1. PICK pc \in {"seen", "unseen"} : job' = [job EXCEPT ![j].pc = pc]
    BY <1>7 DEF CheckRunning
  <2>2. job' \in [Jobs -> Job]
    BY <1>0, <2>1 DEF TypeOK, Job, Pc
  <2> QED BY <1>7, <2>2 DEF CheckRunning, Step, TypeOK
<1>8. CASE StartUnseen(j)
  BY <1>8, StartServerType DEF StartUnseen, Step, TypeOK
<1>9. CASE CloseFirst(j)
  <2>1. Killserver("start", None) \in Job
    BY KillserverType DEF Then
  <2>2. [Killserver("start", None) EXCEPT !.old = @ \cup job[j].old] \in Job
    BY <1>0, <2>1 DEF Job
  <2> QED BY <1>9, <2>2 DEF CloseFirst, Step, TypeOK
<1> QED BY <1>1, <1>2, <1>3, <1>4, <1>5, <1>6, <1>7, <1>8, <1>9 DEF JobStep

\* The renderer and the httpd processes.
LEMMA DeliverType == TypeOK /\ Deliver => TypeOK'
<1> SUFFICES ASSUME TypeOK, Deliver PROVE TypeOK'
  OBVIOUS
<1>1. toUI' \in Seq(Message) /\ Head(toUI) \in Message
  BY TailType DEF Deliver, TypeOK
<1>2. btn' \in {"Start", "Stop", "Stopping"}
  BY DEF Deliver, BtnAfter, TypeOK
<1>3. popup' \in BOOLEAN
  BY DEF Deliver, TypeOK
<1> QED BY <1>1, <1>2, <1>3 DEF Deliver, TypeOK

LEMMA HttpdType ==
  ASSUME TypeOK, NEW p \in Pids, HttpdBinds(p) \/ HttpdExits(p)
  PROVE  TypeOK'
BY DEF HttpdBinds, HttpdExits, TypeOK, ui

LEMMA NextType == TypeOK /\ [Next]_vars => TypeOK'
<1> SUFFICES ASSUME TypeOK, [Next]_vars PROVE TypeOK'
  OBVIOUS
<1>1. CASE Next
  BY <1>1, UserType, OnMessageType, JobStepType, DeliverType, HttpdType
     DEF Next
<1>2. CASE UNCHANGED vars
  BY <1>2 DEF vars, TypeOK
<1> QED BY <1>1, <1>2

\* Every reachable state is well typed, whatever the constants.
THEOREM TypeCorrect == Spec => []TypeOK
BY InitType, NextType, PTL DEF Spec

-----------------------------------------------------------------------------
(* killserver and create_server.                                           *)
(*                                                                         *)
(* A call is promised something about the processes that were alive when   *)
(* it was made (old), but works with the list tasklist gave it later, and  *)
(* other calls kill and start processes meanwhile.  ListSound is what      *)
(* holds at each pc between the two:                                       *)
(*   - while the list is worked off, what is left of old is on it, or its  *)
(*     TASKKILL may have failed;                                           *)
(*   - a create_server that saw no httpd.exe has nothing of old left,      *)
(*     provided tasklist does not fail;                                    *)
(*   - no process starts later under an id of old.                         *)
(* The last part is what makes the other two survive a start.              *)

ListSound(j) ==
  /\ job[j].pc = "kill" =>
       job[j].old \cap Alive \subseteq job[j].todo \cup KillMayFail
  /\ job[j].pc = "unseen" /\ ~ListMayFail => job[j].old \cap Alive = {}
  /\ \A p \in job[j].old : httpd[p] # "unused"

KillInv == \A j \in Jobs : ListSound(j)

\* What a step can do to the processes: start unused ones and end others.
HttpdStep ==
  /\ \A p \in Pids : p \in Alive' => p \in Alive \/ httpd[p] = "unused"
  /\ \A p \in Pids : httpd'[p] = "unused" => httpd[p] = "unused"
  /\ \A p \in Pids : httpd[p] \in {"up", "dead"} => httpd'[p] \in {"up", "dead"}

\* What a step can do to a call, but for taking a list or working on it:
\* nothing, or let it wait for something else, old being what it was or what
\* is alive now.
Elsewhere(j) ==
  \/ job'[j] = job[j]
  \/ /\ job'[j].pc \notin {"kill", "unseen"}
     /\ job'[j].old \subseteq Alive \cup job[j].old

LEMMA ElsewhereSound ==
  ASSUME TypeOK, NEW j \in Jobs, ListSound(j), HttpdStep, Elsewhere(j)
  PROVE  ListSound(j)'
<1>1. job[j].old \subseteq Pids
  BY DEF TypeOK, Job
<1>2. \A p \in Pids : p \in Alive => httpd[p] # "unused"
  BY DEF Alive
<1>3. CASE job'[j] = job[j]
  <2>1. \A p \in job[j].old : p \in Alive' => p \in Alive
    BY <1>1 DEF HttpdStep, ListSound
  <2>2. \A p \in job[j].old : httpd'[p] # "unused"
    BY <1>1 DEF HttpdStep, ListSound
  <2> QED BY <1>3, <2>1, <2>2 DEF ListSound
<1>4. CASE /\ job'[j].pc \notin {"kill", "unseen"}
           /\ job'[j].old \subseteq Alive \cup job[j].old
  <2>1. \A p \in job'[j].old : p \in Pids /\ httpd[p] # "unused"
    BY <1>1, <1>2, <1>4 DEF ListSound, Alive
  <2>2. \A p \in job'[j].old : httpd'[p] # "unused"
    BY <2>1 DEF HttpdStep
  <2> QED BY <1>4, <2>2 DEF ListSound
<1> QED BY <1>3, <1>4 DEF Elsewhere

LEMMA SameHttpd == UNCHANGED httpd => HttpdStep
BY DEF HttpdStep, Alive

LEMMA IdleElsewhere ==
  ASSUME NEW j \in Jobs, job'[j] = Idle PROVE Elsewhere(j)
BY DEF Elsewhere, Idle, Await

\* A step of job j leaves the others alone.
LEMMA OneJob ==
  ASSUME TypeOK, NEW j \in Jobs, NEW new, job' = [job EXCEPT ![j] = new]
  PROVE  /\ job'[j] = new
         /\ \A i \in Jobs : i # j => job'[i] = job[i]
BY DEF TypeOK

LEMMA AwaitElsewhere ==
  ASSUME TypeOK, NEW j \in Jobs, NEW pc \in Pc \ {"kill", "unseen"}, NEW then,
         job' = [job EXCEPT ![j] = Await(pc, then)]
  PROVE  \A i \in Jobs : Elsewhere(i)
BY OneJob DEF Elsewhere, Await

LEMMA KillserverElsewhere ==
  ASSUME TypeOK, NEW j \in Jobs, NEW then, NEW name,
         job' = [job EXCEPT ![j] = Killserver(then, name)]
  PROVE  \A i \in Jobs : Elsewhere(i)
BY OneJob DEF Elsewhere, Killserver

LEMMA CreateServerElsewhere ==
  ASSUME TypeOK, NEW j \in Jobs, job' = [job EXCEPT ![j] = CreateServer]
  PROVE  \A i \in Jobs : Elsewhere(i)
BY OneJob DEF Elsewhere, CreateServer, Await

LEMMA SelectProjectElsewhere ==
  ASSUME TypeOK, NEW j \in Jobs, NEW name, NEW listed, NEW then,
         SelectProject(j, name, listed, then)
  PROVE  \A i \in Jobs : Elsewhere(i)
BY OneJob DEF SelectProject, Elsewhere, Idle, Await

LEMMA LoadProjectElsewhere ==
  ASSUME TypeOK, NEW j \in Jobs, NEW name, NEW cur, NEW listed,
         LoadProject(j, name, cur, listed)
  PROVE  \A i \in Jobs : Elsewhere(i)
BY SelectProjectElsewhere, KillserverElsewhere DEF LoadProject, Elsewhere

LEMMA StartServerElsewhere ==
  ASSUME TypeOK, NEW j \in Jobs, NEW sent, StartServer(j, sent)
  PROVE  HttpdStep /\ \A i \in Jobs : Elsewhere(i)
<1>1. PICK p \in Pids : NextPid(p) /\ httpd' = [httpd EXCEPT ![p] = "starting"]
  BY DEF StartServer
<1>2. HttpdStep
  BY <1>1 DEF HttpdStep, Alive, TypeOK, NextPid
<1>3. \A i \in Jobs : Elsewhere(i)
  BY OneJob DEF StartServer, Elsewhere, Idle, Await
<1> QED BY <1>2, <1>3

LEMMA AfterKillElsewhere ==
  ASSUME TypeOK, NEW j \in Jobs, NEW sent, AfterKill(j, sent)
  PROVE  HttpdStep /\ \A i \in Jobs : Elsewhere(i)
<1>1. CASE job[j].then = "none"
  BY <1>1, OneJob, SameHttpd DEF AfterKill, Elsewhere, Idle, Await
<1>2. CASE job[j].then = "exit"
  BY <1>2, IdleElsewhere, SameHttpd DEF AfterKill, Exit
<1>3. CASE job[j].then = "switch"
  BY <1>3, SelectProjectElsewhere, SameHttpd DEF AfterKill
<1>4. CASE job[j].then = "php"
  BY <1>4, AwaitElsewhere, SameHttpd DEF AfterKill, Pc
<1>5. CASE job[j].then = "start"
  BY <1>5, StartServerElsewhere DEF AfterKill
<1> QED BY <1>1, <1>2, <1>3, <1>4, <1>5 DEF AfterKill

LEMMA UserElsewhere ==
  ASSUME TypeOK, User
  PROVE  HttpdStep /\ \A i \in Jobs : Elsewhere(i)
<1>1. HttpdStep
  BY SameHttpd
     DEF User, ClickOpenClose, ClickCard, ClickPhpVersion, AcceptClose,
         CancelClose, CloseWindow, AddProject, RemoveProject, Send
<1>2. CASE UNCHANGED job
  BY <1>1, <1>2 DEF Elsewhere
<1>3. CASE Exit
  BY <1>1, <1>3, IdleElsewhere DEF Exit
<1>4. ASSUME NEW j \in Jobs, AddProject(j)
      PROVE  \A i \in Jobs : Elsewhere(i)
  BY <1>4, <1>2, LoadProjectElsewhere DEF AddProject
<1>5. ASSUME NEW j \in Jobs, RemoveProject(j)
      PROVE  \A i \in Jobs : Elsewhere(i)
  BY <1>5, <1>2, LoadProjectElsewhere DEF RemoveProject
<1> QED
  BY <1>1, <1>2, <1>3, <1>4, <1>5
     DEF User, ClickOpenClose, ClickCard, ClickPhpVersion, AcceptClose,
         CancelClose, CloseWindow, Send

LEMMA OnMessageElsewhere ==
  ASSUME TypeOK, NEW j \in Jobs, OnMessage(j)
  PROVE  HttpdStep /\ \A i \in Jobs : Elsewhere(i)
<1>1. HttpdStep
  BY SameHttpd
     DEF OnMessage, OnOpen, OnClose, OnCloseApp, OnSelectProject, OnChangePhp,
         Receive
<1>2. CASE UNCHANGED job
  BY <1>1, <1>2 DEF Elsewhere
<1>3. CASE OnOpen(j)
  BY <1>1, <1>2, <1>3, CreateServerElsewhere DEF OnOpen
<1>4. CASE OnClose(j)
  BY <1>1, <1>4, KillserverElsewhere DEF OnClose
<1>5. CASE OnCloseApp(j)
  BY <1>1, <1>5, KillserverElsewhere DEF OnCloseApp
<1>6. CASE OnSelectProject(j)
  BY <1>1, <1>6, LoadProjectElsewhere DEF OnSelectProject
<1>7. CASE OnChangePhp(j)
  BY <1>1, <1>2, <1>7, KillserverElsewhere DEF OnChangePhp
<1> QED BY <1>1, <1>3, <1>4, <1>5, <1>6, <1>7 DEF OnMessage

LEMMA JobStepSound ==
  ASSUME TypeOK, KillInv, NEW j \in Jobs, JobStep(j)
  PROVE  KillInv'
<1> DEFINE Frame == HttpdStep /\ \A i \in Jobs : Elsewhere(i)
<1>0. ASSUME Frame PROVE KillInv'
  BY <1>0, ElsewhereSound DEF KillInv
<1>a. job[j] \in Job /\ ListSound(j)
  BY DEF TypeOK, KillInv
<1>1. CASE TaskList(j)
  <2>1. /\ job'[j].pc = "kill" /\ job'[j].todo = Alive
        /\ job'[j].old = job[j].old
        /\ \A i \in Jobs : i # j => job'[i] = job[i]
        /\ UNCHANGED httpd
    BY <1>1, <1>a DEF TaskList, TypeOK, Job
  <2>2. ListSound(j)'
    BY <1>a, <2>1 DEF ListSound, Alive
  <2>3. ASSUME NEW i \in Jobs, i # j PROVE ListSound(i)'
    BY <2>1, <2>3, SameHttpd, ElsewhereSound DEF KillInv, Elsewhere
  <2> QED BY <2>2, <2>3 DEF KillInv
<1>2. CASE TaskListFails(j)
  BY <1>0, <1>2, AfterKillElsewhere DEF TaskListFails
<1>3. CASE TaskKill(j)
  <2>1. PICK p \in job[j].todo :
          /\ job' = [job EXCEPT ![j].todo = @ \ {p}]
          /\ \/ httpd' = [httpd EXCEPT ![p] = "dead"]
             \/ p \in KillMayFail /\ UNCHANGED httpd
    BY <1>3 DEF TaskKill
  <2>2. /\ job[j].pc = "kill" /\ job'[j].pc = "kill"
        /\ job'[j].todo = job[j].todo \ {p}
        /\ job'[j].old = job[j].old
        /\ \A i \in Jobs : i # j => job'[i] = job[i]
    BY <1>3, <1>a, <2>1 DEF TaskKill, Step, TypeOK, Job
  <2>3. HttpdStep /\ (p \notin Alive' \/ p \in KillMayFail)
    BY <1>a, <2>1 DEF HttpdStep, Alive, TypeOK, Job
  <2>4. ListSound(j)'
    <3>1. \A q \in job[j].old : q \in Pids /\ httpd[q] # "unused"
      BY <1>a DEF ListSound, Job
    <3>2. \A q \in job[j].old : q \in Alive' =>
            q \in (job[j].todo \ {p}) \cup KillMayFail
      BY <1>a, <2>2, <2>3, <3>1 DEF ListSound, HttpdStep
    <3>3. \A q \in job[j].old : httpd'[q] # "unused"
      BY <2>3, <3>1 DEF HttpdStep
    <3> QED BY <2>2, <3>2, <3>3 DEF ListSound
  <2>5. ASSUME NEW i \in Jobs, i # j PROVE ListSound(i)'
    BY <2>2, <2>3, <2>5, ElsewhereSound DEF KillInv, Elsewhere
  <2> QED BY <2>4, <2>5 DEF KillInv
<1>4. CASE KillReturns(j)
  BY <1>0, <1>4, AfterKillElsewhere DEF KillReturns
<1>5. CASE WwwDone(j)
  BY <1>0, <1>5, SameHttpd, CreateServerElsewhere, AwaitElsewhere
     DEF WwwDone, Idle, Pc
<1>6. CASE InstDone(j)
  BY <1>0, <1>6, SameHttpd, LoadProjectElsewhere, AwaitElsewhere
     DEF InstDone, Idle, Pc
<1>7. CASE CheckRunning(j)
  <2>1. PICK listed \in {Alive} \cup (IF ListMayFail THEN {{}} ELSE {}) :
          job' = [job EXCEPT ![j].pc = IF listed # {} THEN "seen" ELSE "unseen"]
    BY <1>7 DEF CheckRunning
  <2>2. /\ job'[j].pc = IF listed # {} THEN "seen" ELSE "unseen"
        /\ job'[j].old = job[j].old
        /\ \A i \in Jobs : i # j => job'[i] = job[i]
        /\ UNCHANGED httpd
    BY <1>7, <1>a, <2>1 DEF CheckRunning, TypeOK, Job
  <2>3. ListSound(j)'
    BY <1>a, <2>1, <2>2 DEF ListSound, Alive
  <2>4. ASSUME NEW i \in Jobs, i # j PROVE ListSound(i)'
    BY <2>2, <2>4, SameHttpd, ElsewhereSound DEF KillInv, Elsewhere
  <2> QED BY <2>3, <2>4 DEF KillInv
<1>8. CASE StartUnseen(j)
  BY <1>0, <1>8, StartServerElsewhere DEF StartUnseen
<1>9. CASE CloseFirst(j)
  <2>1. job' = [job EXCEPT ![j] =
                 [Killserver("start", None) EXCEPT !.old = @ \cup job[j].old]]
    BY <1>9 DEF CloseFirst
  <2>2. /\ job'[j].pc = "list" /\ job'[j].old = Alive \cup job[j].old
        /\ \A i \in Jobs : i # j => job'[i] = job[i]
        /\ UNCHANGED httpd
    BY <1>9, <2>1 DEF CloseFirst, Killserver, TypeOK
  <2> QED BY <1>0, <2>2, SameHttpd DEF Elsewhere
<1> QED
  BY <1>1, <1>2, <1>3, <1>4, <1>5, <1>6, <1>7, <1>8, <1>9 DEF JobStep

LEMMA KillInvNext == TypeOK /\ KillInv /\ [Next]_vars => KillInv'
<1> SUFFICES ASSUME TypeOK, KillInv, [Next]_vars PROVE KillInv'
  OBVIOUS
<1>0. ASSUME HttpdStep, \A i \in Jobs : Elsewhere(i) PROVE KillInv'
  BY <1>0, ElsewhereSound DEF KillInv
<1>1. CASE User
  BY <1>0, <1>1, UserElsewhere
<1>2. ASSUME NEW j \in Jobs, OnMessage(j) PROVE KillInv'
  BY <1>0, <1>2, OnMessageElsewhere
<1>3. ASSUME NEW j \in Jobs, JobStep(j) PROVE KillInv'
  BY <1>3, JobStepSound
<1>4. CASE Deliver
  BY <1>0, <1>4, SameHttpd DEF Deliver, Elsewhere
<1>5. ASSUME NEW p \in Pids, HttpdBinds(p) \/ HttpdExits(p) PROVE KillInv'
  <2>1. HttpdStep
    BY <1>5 DEF HttpdBinds, HttpdExits, HttpdStep, Alive, TypeOK
  <2> QED BY <1>0, <1>5, <2>1 DEF HttpdBinds, HttpdExits, Elsewhere
<1>6. CASE UNCHANGED vars
  BY <1>0, <1>6, SameHttpd DEF vars, Elsewhere
<1> QED BY <1>1, <1>2, <1>3, <1>4, <1>5, <1>6 DEF Next

LEMMA KillInvInit == Init => KillInv
BY DEF Init, KillInv, ListSound, Idle, Await

\* What killserver and create_server have left to do is on their lists, in
\* every reachable state.
THEOREM ListsSound == Spec => [](TypeOK /\ KillInv)
<1>1. Init => TypeOK /\ KillInv
  BY InitType, KillInvInit
<1>2. (TypeOK /\ KillInv) /\ [Next]_vars => (TypeOK /\ KillInv)'
  BY NextType, KillInvNext
<1> QED BY <1>1, <1>2, PTL DEF Spec

\* An httpd.exe that starts in a step was unused, so it is in no list of old.
LEMMA OldStaysDead ==
  ASSUME TypeOK, NEW j \in Jobs, ListSound(j), HttpdStep,
         NEW S, job[j].old \cap Alive \subseteq S
  PROVE  job[j].old \cap Alive' \subseteq S
<1>1. job[j].old \subseteq Pids
  BY DEF TypeOK, Job
<1> QED BY <1>1 DEF ListSound, HttpdStep

LEMMA KillReturnsClears ==
  ASSUME TypeOK, KillInv, NEW j \in Jobs, KillReturns(j)
  PROVE  job[j].old \cap Alive' \subseteq KillMayFail
<1>1. ListSound(j)
  BY DEF KillInv
<1>2. job[j].old \cap Alive \subseteq KillMayFail
  BY <1>1 DEF KillReturns, Step, ListSound
<1>3. HttpdStep
  BY AfterKillElsewhere DEF KillReturns
<1> QED BY <1>1, <1>2, <1>3, OldStaysDead

\* When killserver has worked off its list, the processes that were alive at the
\* call and still are have a TASKKILL that may fail: nothing was left off the
\* list, and a failure cost no other process.
THEOREM KillserverKeepsContract == Spec => KillContract
<1> DEFINE A(j) == KillReturns(j) => job[j].old \cap Alive' \subseteq KillMayFail
<1>1. TypeOK /\ KillInv => [\A j \in Jobs : A(j)]_vars
  BY KillReturnsClears
<1> QED BY <1>1, ListsSound, PTL DEF Spec, KillContract

\* Only a killserver that was awaited before a start, or the callback of a
\* tasklist without an httpd.exe in it, starts one.
LEMMA SpawnsOnlyAfterKill ==
  ASSUME TypeOK, ~ListMayFail, [Next]_vars, NEW j \in Jobs, Spawns(j)
  PROVE  KillReturns(j) \/ StartUnseen(j)
<1>1. PICK p \in Pids : httpd[p] = "unused" /\ httpd'[p] = "starting"
  BY DEF Spawns
<1>2. httpd' # httpd
  BY <1>1
<1>3. ~(User \/ Deliver \/ UNCHANGED vars)
  BY <1>2 DEF User, ClickOpenClose, ClickCard, ClickPhpVersion, AcceptClose,
         CancelClose, CloseWindow, AddProject, RemoveProject, Send, Deliver,
         vars
<1>4. ASSUME NEW q \in Pids PROVE ~(HttpdBinds(q) \/ HttpdExits(q))
  BY <1>1 DEF HttpdBinds, HttpdExits, TypeOK, Alive
<1>5. ASSUME NEW i \in Jobs PROVE ~OnMessage(i)
  BY <1>2 DEF OnMessage, OnOpen, OnClose, OnCloseApp, OnSelectProject,
         OnChangePhp, Receive
<1>6. PICK i \in Jobs : JobStep(i)
  BY <1>3, <1>4, <1>5 DEF Next
<1>7. KillReturns(i) \/ StartUnseen(i)
  <2>1. ~TaskKill(i)
    BY <1>1 DEF TaskKill, TypeOK
  <2> QED
    BY <1>2, <1>6, <2>1
       DEF JobStep, TaskList, TaskListFails, WwwDone, InstDone, CheckRunning,
           CloseFirst
<1>8. i = j
  <2>1. CASE StartUnseen(i)
    BY <2>1, OneJob DEF StartUnseen, StartServer, Spawns
  <2>2. CASE KillReturns(i)
    <3>1. StartServer(i, Append(toUI, "closed"))
      BY <1>2, <2>2 DEF KillReturns, AfterKill
    <3> QED BY <3>1, OneJob DEF StartServer, Spawns
  <2> QED BY <1>7, <2>1, <2>2
<1> QED BY <1>7, <1>8

LEMMA SpawnsClear ==
  ASSUME TypeOK, KillInv, ~ListMayFail, [Next]_vars, NEW j \in Jobs, Spawns(j)
  PROVE  job[j].old \cap Alive' \subseteq KillMayFail
<1>1. ListSound(j)
  BY DEF KillInv
<1>2. KillReturns(j) \/ StartUnseen(j)
  BY SpawnsOnlyAfterKill
<1>3. job[j].old \cap Alive \subseteq KillMayFail
  BY <1>1, <1>2 DEF KillReturns, StartUnseen, Step, ListSound
<1>4. HttpdStep
  BY <1>2, AfterKillElsewhere, StartServerElsewhere DEF KillReturns, StartUnseen
<1> QED BY <1>1, <1>3, <1>4, OldStaysDead

\* As long as tasklist works, create_server starts the new httpd.exe only when
\* all that were alive at its call are gone, but for those whose TASKKILL may
\* fail.
THEOREM CreateServerReplaces == ~ListMayFail /\ Spec => StartReplaces
<1> DEFINE A(j) == Spawns(j) => job[j].old \cap Alive' \subseteq KillMayFail
<1>1. ASSUME ~ListMayFail PROVE Spec => StartReplaces
  <2>1. TypeOK /\ KillInv /\ [Next]_vars => [\A j \in Jobs : A(j)]_vars
    BY <1>1, SpawnsClear
  <2> QED BY <2>1, ListsSound, PTL DEF Spec, StartReplaces
<1> QED BY <1>1

-----------------------------------------------------------------------------
(* The selection, for a user who waits.                                    *)

\* What a selection on its way will select is a listed project: nothing is
\* removed while one is on its way.
PendingListed ==
  \A i \in 1..Len(toMain) :
    toMain[i].cmd = "select_project" => toMain[i].name \in projects

SwitchListed ==
  \A k \in Jobs :
    job[k].pc # "idle" /\ job[k].then = "switch" => job[k].name \in projects

SelInv == SelectionSound /\ PendingListed /\ SwitchListed

\* SelInv without the messages, for a current project and a list that may be
\* the next ones.
Sound(cur, list) ==
  /\ cur \in list \cup {None}
  /\ cur = None <=> list = {}

Switches(jobs, list) ==
  \A k \in Jobs :
    jobs[k].pc # "idle" /\ jobs[k].then = "switch" => jobs[k].name \in list

\* load_project selects a listed project, or notes one for later.
LEMMA SelectProjectSel ==
  ASSUME TypeOK, NEW j \in Jobs, NEW list \in SUBSET Projects,
         NEW name \in list, NEW then \in Then \ {"switch"},
         Switches(job, list), SelectProject(j, name, list, then)
  PROVE  Sound(currentProject', list) /\ Switches(job', list)
<1>1. job' = [job EXCEPT ![j] = Await("www", then)] /\ currentProject' = name
  BY DEF SelectProject
<1>2. Await("www", then).then # "switch"
  BY DEF Await
<1>3. Switches(job', list)
  BY <1>1, <1>2 DEF Switches, TypeOK
<1> QED BY <1>1, <1>3, ServerControlAssumption DEF Sound

LEMMA LoadProjectSel ==
  ASSUME TypeOK, NEW j \in Jobs, NEW list \in SUBSET Projects,
         NEW name \in list \cup {None}, NEW cur,
         Sound(cur, list), Switches(job, list),
         LoadProject(j, name, cur, list)
  PROVE  Sound(currentProject', list) /\ Switches(job', list)
<1>1. CASE name = None
  BY <1>1 DEF LoadProject
<1>2. CASE /\ name # None
           /\ job' = [job EXCEPT ![j] = Killserver("switch", name)]
           /\ currentProject' = cur
  BY <1>2 DEF Switches, Killserver, TypeOK
<1>3. CASE name # None /\ SelectProject(j, name, list, "none")
  BY <1>3, SelectProjectSel DEF Then
<1> QED BY <1>1, <1>2, <1>3 DEF LoadProject

\* SelInv in the terms of the two lemmas above, before and after a step.
LEMMA SelAsParts ==
  /\ SelInv <=> Sound(currentProject, projects) /\ Switches(job, projects)
                /\ PendingListed
  /\ SelInv' <=> Sound(currentProject', projects') /\ Switches(job', projects')
                 /\ PendingListed'
BY DEF SelInv, SelectionSound, SwitchListed, Sound, Switches

LEMMA NothingPending ==
  ASSUME toMain' = <<>> PROVE PendingListed'
BY DEF PendingListed

LEMMA SendSel ==
  ASSUME TypeOK, SelInv, NEW cmds \in Seq(Command), Send(cmds),
         \A i \in 1..Len(cmds) :
           cmds[i].cmd = "select_project" => cmds[i].name \in projects
  PROVE  SelInv'
<1>1. /\ toMain' = toMain \o cmds /\ toMain \in Seq(Command)
      /\ UNCHANGED <<currentProject, projects, job>>
  BY DEF Send, TypeOK
<1>2. PendingListed'
  <2>1. \A i \in 1..Len(toMain') :
          \/ i \in 1..Len(toMain) /\ toMain'[i] = toMain[i]
          \/ i - Len(toMain) \in 1..Len(cmds)
             /\ toMain'[i] = cmds[i - Len(toMain)]
    BY <1>1
  <2> QED BY <1>1, <2>1 DEF PendingListed, SelInv
<1> QED BY <1>1, <1>2 DEF SelInv, SelectionSound, SwitchListed

LEMMA UserSel ==
  ASSUME Patient, TypeOK, SelInv, User PROVE SelInv'
<1>1. ASSUME NEW c \in {"open", "close", "close-app", "change-PHP-version"},
             Send(<<Cmd(c, None)>>)
      PROVE  SelInv'
  <2>1. <<Cmd(c, None)>> \in Seq(Command)
    BY CmdType DEF Cmd, Command
  <2>2. \A i \in 1..Len(<<Cmd(c, None)>>) :
          <<Cmd(c, None)>>[i].cmd # "select_project"
    BY DEF Cmd
  <2> QED BY <1>1, <2>1, <2>2, SendSel
<1>2. CASE CancelClose
  <2>1. PICK cmds \in Seq(Command) : cmds = <<>> /\ Send(cmds)
    <3>1. <<>> \in Seq(Command)
      OBVIOUS
    <3>2. Send(<<>>)
      BY <1>2 DEF CancelClose
    <3> QED BY <3>1, <3>2, Zenon
  <2>2. \A i \in 1..Len(cmds) : FALSE
    BY <2>1
  <2> QED BY <2>1, <2>2, SendSel
<1>3. ASSUME NEW p \in projects,
             \/ Send(<<Cmd("select_project", p)>>)
             \/ Send(<<Cmd("select_project", p), Cmd("select_project", p)>>)
      PROVE  SelInv'
  <2>1. Cmd("select_project", p) \in Command
    BY CmdType DEF TypeOK, Cmd, Command
  <2>2. /\ <<Cmd("select_project", p)>> \in Seq(Command)
        /\ <<Cmd("select_project", p), Cmd("select_project", p)>> \in Seq(Command)
    BY <2>1
  <2>3. ASSUME NEW cmds,
               \/ cmds = <<Cmd("select_project", p)>>
               \/ cmds = <<Cmd("select_project", p), Cmd("select_project", p)>>
        PROVE  \A i \in 1..Len(cmds) : cmds[i].name \in projects
    BY <2>3 DEF Cmd
  <2>4. ASSUME NEW cmds \in Seq(Command), Send(cmds),
               \/ cmds = <<Cmd("select_project", p)>>
               \/ cmds = <<Cmd("select_project", p), Cmd("select_project", p)>>
        PROVE  SelInv'
    <3>1. \A i \in 1..Len(cmds) : cmds[i].name \in projects
      BY <2>3, <2>4
    <3> QED BY <2>4, <3>1, SendSel
  <2>5. CASE Send(<<Cmd("select_project", p)>>)
    BY <2>2, <2>4, <2>5, Zenon
  <2>6. CASE Send(<<Cmd("select_project", p), Cmd("select_project", p)>>)
    BY <2>2, <2>4, <2>6, Zenon
  <2> QED BY <1>3, <2>5, <2>6
<1>4. CASE CloseWindow
  <2>1. UNCHANGED <<currentProject, projects>> /\ (UNCHANGED <<job, toMain>> \/ Exit)
    BY <1>4 DEF CloseWindow
  <2>2. CASE Exit
    BY <2>1, <2>2, NothingPending
       DEF Exit, SelInv, SelectionSound, SwitchListed, Idle, Await
  <2> QED BY <2>1, <2>2 DEF SelInv, SelectionSound, SwitchListed, PendingListed
<1>5. ASSUME NEW j \in Jobs, AddProject(j) \/ RemoveProject(j) PROVE SelInv'
  <2>1. /\ toMain = <<>> /\ toMain' = toMain
        /\ \A k \in Jobs : job[k].pc = "idle"
    BY <1>5 DEF AddProject, RemoveProject, UserActs, Quiet
  <2>2. PendingListed'
    BY <2>1, NothingPending
  <2>3. CASE AddProject(j)
    <3>1. PICK p \in Projects :
            /\ projects' = projects \cup {p}
            /\ IF currentProject = None THEN LoadProject(j, p, p, projects')
               ELSE UNCHANGED <<currentProject, job, toUI>>
      BY <2>3 DEF AddProject
    <3>2. projects' \in SUBSET Projects /\ p \in projects' /\ p # None
      BY <3>1, ServerControlAssumption DEF TypeOK
    <3>3. Switches(job, projects')
      BY <3>1, SelAsParts DEF Switches
    <3>4. CASE currentProject = None
      BY <2>2, <3>1, <3>2, <3>3, <3>4, LoadProjectSel, SelAsParts DEF Sound
    <3>5. CASE currentProject # None
      BY <2>2, <3>1, <3>2, <3>3, <3>5, SelAsParts DEF Sound, Switches
    <3> QED BY <3>4, <3>5
  <2>4. CASE RemoveProject(j)
    <3>1. PICK p \in projects :
            /\ projects' = projects \ {p}
            /\ \/ /\ projects' # {} /\ p = currentProject
                  /\ \E q \in projects' : LoadProject(j, q, q, projects')
               \/ /\ projects' # {} /\ p # currentProject
                  /\ UNCHANGED <<currentProject, job, toUI>>
               \/ /\ projects' = {}
                  /\ LoadProject(j, None, None, projects')
      BY <2>4 DEF RemoveProject
    <3>2. projects' \in SUBSET Projects /\ None \notin projects'
      BY <3>1, ServerControlAssumption DEF TypeOK
    <3>3. Switches(job, projects')
      BY <2>1 DEF Switches
    <3>4. ASSUME NEW q \in projects', LoadProject(j, q, q, projects')
          PROVE  Sound(currentProject', projects') /\ Switches(job', projects')
      BY <3>2, <3>3, <3>4, LoadProjectSel DEF Sound
    <3>5. CASE p # currentProject /\ projects' # {} /\ UNCHANGED <<currentProject, job>>
      BY <2>2, <3>1, <3>2, <3>3, <3>5, SelAsParts DEF Sound
    <3>6. CASE projects' = {} /\ LoadProject(j, None, None, projects')
      BY <2>2, <3>2, <3>3, <3>6, LoadProjectSel, SelAsParts DEF Sound
    <3> QED BY <2>2, <3>1, <3>4, <3>5, <3>6, SelAsParts
  <2> QED BY <1>5, <2>3, <2>4
<1> QED BY <1>1, <1>2, <1>3, <1>4, <1>5
        DEF User, ClickOpenClose, ClickCard, ClickPhpVersion, AcceptClose

LEMMA OnMessageSel ==
  ASSUME TypeOK, SelInv, NEW j \in Jobs, OnMessage(j) PROVE SelInv'
<1>1. /\ toMain # <<>> /\ toMain' = Tail(toMain) /\ toMain \in Seq(Command)
      /\ projects' = projects
  BY DEF OnMessage, OnOpen, OnClose, OnCloseApp, OnSelectProject, OnChangePhp,
         Receive, TypeOK
<1>2. PendingListed'
  <2>1. \A i \in 1..Len(toMain') : i + 1 \in 1..Len(toMain) /\ toMain'[i] = toMain[i + 1]
    BY <1>1
  <2> QED BY <1>1, <2>1 DEF PendingListed, SelInv
<1>3. CASE OnSelectProject(j)
  <2>1. Head(toMain) = toMain[1] /\ 1 \in 1..Len(toMain)
    BY <1>1
  <2>2. Head(toMain).name \in projects
    BY <1>3, <2>1 DEF OnSelectProject, Receive, SelInv, PendingListed
  <2>3. LoadProject(j, Head(toMain).name, currentProject, projects)
    BY <1>3 DEF OnSelectProject
  <2> QED BY <1>1, <1>2, <2>2, <2>3, LoadProjectSel, SelAsParts DEF TypeOK
<1>4. CASE OnOpen(j) \/ OnClose(j) \/ OnCloseApp(j) \/ OnChangePhp(j)
  <2>1. currentProject' = currentProject
    BY <1>4 DEF OnOpen, OnClose, OnCloseApp, OnChangePhp
  <2>2. \/ job' = job
        \/ \E v : v.then # "switch" /\ job' = [job EXCEPT ![j] = v]
    BY <1>4 DEF OnOpen, OnClose, OnCloseApp, OnChangePhp, CreateServer,
                Killserver, Await
  <2>3. Switches(job', projects')
    BY <1>1, <2>2, SelAsParts DEF Switches, TypeOK
  <2> QED BY <1>1, <1>2, <2>1, <2>3, SelAsParts
<1> QED BY <1>3, <1>4 DEF OnMessage

LEMMA JobStepSel ==
  ASSUME TypeOK, SelInv, NEW j \in Jobs, JobStep(j) PROVE SelInv'
<1>1. projects' = projects /\ toMain' \in {toMain, <<>>}
  BY DEF JobStep, TaskList, TaskListFails, TaskKill, KillReturns, WwwDone,
         InstDone, CheckRunning, StartUnseen, CloseFirst, Step, AfterKill, Exit
<1>2. PendingListed'
  BY <1>1, NothingPending DEF PendingListed, SelInv
<1>3. ASSUME currentProject' = currentProject,
             NEW v, v.then # "switch" \/ v.pc = "idle", job' = [job EXCEPT ![j] = v]
      PROVE  SelInv'
  BY <1>1, <1>2, <1>3, SelAsParts DEF Switches, TypeOK
<1>4. ASSUME NEW sent, job[j].pc # "idle", AfterKill(j, sent) PROVE SelInv'
  <2>1. CASE job[j].then = "switch"
    <3>1. job[j].name \in projects /\ SelectProject(j, job[j].name, projects, "restart")
      BY <1>4, <2>1 DEF AfterKill, SelInv, SwitchListed
    <3> QED BY <1>1, <1>2, <3>1, SelectProjectSel, SelAsParts DEF Then, TypeOK
  <2>2. CASE Exit /\ currentProject' = currentProject
    BY <1>1, <1>2, <2>2, SelAsParts DEF Exit, Switches, Idle, Await
  <2>3. CASE /\ currentProject' = currentProject
             /\ \E v : v.then # "switch" /\ job' = [job EXCEPT ![j] = v]
    BY <1>3, <2>3
  <2> QED BY <1>4, <2>1, <2>2, <2>3 DEF AfterKill, StartServer, Await, Idle
<1>5. CASE TaskListFails(j) \/ KillReturns(j)
  BY <1>4, <1>5 DEF TaskListFails, KillReturns, Step
<1>6. CASE InstDone(j)
  <2>1. CASE currentProject # None /\ LoadProject(j, currentProject, currentProject, projects)
    BY <1>1, <1>2, <2>1, LoadProjectSel, SelAsParts DEF TypeOK, Sound
  <2>2. CASE job' = [job EXCEPT ![j] = Idle] /\ currentProject' = currentProject
    BY <1>3, <2>2 DEF Idle, Await
  <2> QED BY <1>6, <2>1, <2>2 DEF InstDone
<1>7. CASE WwwDone(j) \/ StartUnseen(j) \/ CloseFirst(j)
  <2>1. /\ currentProject' = currentProject
        /\ \E v : v.then # "switch" /\ job' = [job EXCEPT ![j] = v]
    BY <1>7 DEF WwwDone, StartUnseen, CloseFirst, StartServer, CreateServer,
                Killserver, Await, Idle
  <2> QED BY <1>3, <2>1
<1>8. CASE TaskList(j) \/ TaskKill(j) \/ CheckRunning(j)
  <2>1. /\ currentProject' = currentProject
        /\ \A k \in Jobs : /\ job'[k].then = job[k].then
                           /\ job'[k].name = job[k].name
                           /\ job[k].pc = "idle" => job'[k].pc = "idle"
    BY <1>8 DEF TaskList, TaskKill, CheckRunning, Step, TypeOK, Job
  <2> QED BY <1>1, <1>2, <2>1, SelAsParts DEF Switches
<1> QED BY <1>5, <1>6, <1>7, <1>8 DEF JobStep

LEMMA SelInvInit == Init => SelInv
BY ServerControlAssumption
   DEF Init, SelInv, SelectionSound, PendingListed, SwitchListed, Await, Idle

LEMMA SelInvNext == ASSUME Patient, TypeOK, SelInv, [Next]_vars PROVE SelInv'
<1>1. TypeOK /\ SelInv /\ UNCHANGED <<currentProject, projects, job, toMain>> => SelInv'
  BY DEF SelInv, SelectionSound, PendingListed, SwitchListed
<1> QED BY <1>1, UserSel, OnMessageSel, JobStepSel
        DEF Next, vars, Deliver, HttpdBinds, HttpdExits

\* For a user who waits, the current project is a listed one, and there is
\* none only when the list is empty.
THEOREM SelectionListed == ASSUME Patient PROVE Spec => []SelectionSound
<1>1. TypeOK /\ SelInv /\ [Next]_vars => SelInv'
  BY SelInvNext
<1>2. SelInv => SelectionSound
  BY DEF SelInv
<1> QED BY <1>1, <1>2, SelInvInit, TypeCorrect, PTL DEF Spec

=============================================================================
