------------------------ MODULE ServerPatientProofs ------------------------
(***************************************************************************)
(* Proofs about ServerControl for a user who waits until nothing is in     *)
(* flight, as long as tasklist works, no httpd.exe ends by itself, and     *)
(* TASKKILL ends what this session started: what the button says, and that *)
(* nothing survives a quit.  A server that was there before may stay.      *)
(***************************************************************************)
EXTENDS ServerControlProofs

Calm ==
  Patient /\ ~ListMayFail /\ ~HttpdMayDie /\ KillMayFail \subseteq Orphans

(* A user who waits causes one of two things at a time: calls that end with*)
(* a start, of which several may be in flight after a double message, or   *)
(* one call that ends without one.                                         *)

\* A call after which create_server starts a server.
Restarts(c) ==
  \/ c.pc \in {"check", "seen", "unseen"}
  \/ c.pc \in {"list", "kill"} /\ c.then \in {"switch", "start"}
  \/ c.pc = "www" /\ c.then = "restart"

\* A killserver after which none is started.
Ends(c) == c.pc \in {"list", "kill"} /\ c.then \notin {"switch", "start"}

\* The processes of an earlier session give way before one of this session
\* starts, unless their TASKKILL fails: they are on the list, or there is none.
OrphansListed(c) ==
  /\ c.pc = "kill" => Orphans \cap Alive \subseteq c.todo \cup KillMayFail
  /\ c.pc = "unseen" => Orphans \cap Alive = {}

Hosts ==
  /\ \A p \in Orphans : httpd[p] \in {"up", "dead"}
  /\ Ours # {} => Orphans \cap Alive \subseteq KillMayFail
  /\ \A j \in Jobs : OrphansListed(job[j])

\* A killserver that ends a server is alone, and everything that TASKKILL is
\* sure to end is on its list.
Alone ==
  \A j \in Jobs : Ends(job[j]) =>
    /\ toMain = <<>>
    /\ \A i \in Jobs \ {j} : job[i].pc = "idle"
    /\ job[j].pc = "kill" => Alive \subseteq job[j].todo \cup KillMayFail

\* A message other than a selection is alone.
Single ==
  \A i \in 1..Len(toMain) : toMain[i].cmd # "select_project" =>
    Len(toMain) = 1 /\ \A j \in Jobs : job[j].pc = "idle"

\* serverRunning is set while a server runs or will be started, unless it was
\* cleared by the 'close' that is about to end it.
Marked ==
  /\ \A j \in Jobs : Restarts(job[j]) => serverRunning
  /\ appUp /\ Ours # {} => serverRunning \/ \E j \in Jobs : Ends(job[j])

\* The button reads text, or will when the message that is on its way is taken.
Told(msg, text) ==
  \/ \E n \in 1..Len(toUI) :
       toUI[n] = msg /\ \A m \in 1..Len(toUI) : m > n => toUI[m] = "close-but-running"
  \/ btn = text /\ \A m \in 1..Len(toUI) : toUI[m] = "close-but-running"

\* Unless a process that TASKKILL may not end has the port, the button tells,
\* or is about to be told, whether a server of this session runs.
Truth ==
  /\ appUp /\ Alive \cap KillMayFail = {}
  /\ \A j \in Jobs : ~Restarts(job[j]) /\ ~Ends(job[j])
  =>
    /\ Ours # {} => Told("open", "Stop")
    /\ Ours = {} => Told("closed", "Start")

PatientInv == Hosts /\ Alone /\ Single /\ Marked /\ Truth /\ CleanExit

-----------------------------------------------------------------------------
(* What the parts of the invariant need of a step.                         *)

\* A call is not both.
LEMMA Exclusive == ASSUME NEW c, Restarts(c) PROVE ~Ends(c)
BY DEF Restarts, Ends

LEMMA IdleCall ==
  ASSUME NEW c, c.pc = "idle" \/ c.pc = "inst" \/ (c.pc = "www" /\ c.then # "restart")
  PROVE  ~Restarts(c) /\ ~Ends(c)
BY DEF Restarts, Ends

\* No process of an earlier session comes back.
LEMMA OrphansStay ==
  ASSUME TypeOK, Hosts, HttpdStep
  PROVE  /\ \A p \in Orphans : p \in Alive' => p \in Alive
         /\ \A p \in Orphans : httpd'[p] \in {"up", "dead"}
BY ServerControlAssumption DEF Hosts, HttpdStep

LEMMA HostsKept ==
  ASSUME TypeOK, Hosts, HttpdStep, \A i \in Jobs : Elsewhere(i),
         Ours' # {} => Ours # {} \/ Orphans \cap Alive \subseteq KillMayFail
  PROVE  Hosts'
<1>1. Orphans \cap Alive' \subseteq Orphans \cap Alive
  BY OrphansStay
<1>2. \A p \in Orphans : httpd'[p] \in {"up", "dead"}
  BY OrphansStay
<1>3. \A i \in Jobs : OrphansListed(job[i])'
  <2>1. SUFFICES ASSUME NEW i \in Jobs PROVE OrphansListed(job[i])'
    OBVIOUS
  <2>2. CASE job'[i] = job[i]
    BY <1>1, <2>2 DEF Hosts, OrphansListed
  <2>3. CASE job'[i].pc \notin {"kill", "unseen"}
    BY <2>3 DEF OrphansListed
  <2> QED BY <2>2, <2>3 DEF Elsewhere
<1>4. Ours' # {} => Orphans \cap Alive' \subseteq KillMayFail
  BY <1>1 DEF Hosts
<1> QED BY <1>2, <1>3, <1>4 DEF Hosts

LEMMA HostsSame ==
  ASSUME TypeOK, Hosts, UNCHANGED httpd, \A i \in Jobs : Elsewhere(i)
  PROVE  Hosts'
<1>1. Ours' = Ours
  BY DEF Ours, Alive
<1> QED BY <1>1, HostsKept, SameHttpd

\* The message that is taken was the only one, or only selections are left.
LEMMA SingleTail ==
  ASSUME TypeOK, Single, toMain # <<>>, toMain' = Tail(toMain)
  PROVE  Single'
<1>1. toMain \in Seq(Command)
  BY DEF TypeOK
<1>2. ASSUME NEW i \in 1..Len(toMain')
      PROVE  toMain'[i].cmd = "select_project"
  <2>1. /\ i + 1 \in 1..Len(toMain) /\ toMain'[i] = toMain[i + 1]
        /\ Len(toMain) # 1
    BY <1>1, <1>2
  <2> QED BY <2>1 DEF Single
<1> QED BY <1>2 DEF Single

\* While a call is in flight only selections are.
LEMMA SingleStep ==
  ASSUME Single, NEW j \in Jobs, job[j].pc # "idle", toMain' \in {toMain, <<>>}
  PROVE  Single'
BY DEF Single

LEMMA ToldKept ==
  ASSUME TypeOK, btn' = btn,
         toUI' = toUI \/ toUI' = Append(toUI, "close-but-running"),
         NEW msg, NEW text, Told(msg, text)
  PROVE  Told(msg, text)'
<1>1. toUI \in Seq(Message) /\ Len(toUI) \in Nat
  BY DEF TypeOK
<1>2. /\ 1..Len(toUI) \subseteq 1..Len(toUI')
      /\ \A n \in 1..Len(toUI) : toUI'[n] = toUI[n]
      /\ \A n \in 1..Len(toUI') :
           n \in 1..Len(toUI) \/ toUI'[n] = "close-but-running"
  BY <1>1
<1> QED BY <1>2 DEF Told

\* What was sent last is what the button will say.
LEMMA ToldLast ==
  ASSUME NEW sent \in Seq(Message), NEW msg \in Message, toUI' = Append(sent, msg)
  PROVE  \A text : Told(msg, text)'
<1>1. Len(sent) \in Nat
  OBVIOUS
<1>2. /\ Len(toUI') \in 1..Len(toUI') /\ toUI'[Len(toUI')] = msg
      /\ \A m \in 1..Len(toUI') : ~(m > Len(toUI'))
  BY <1>1
<1> QED BY <1>2 DEF Told

-----------------------------------------------------------------------------
(* Four kinds of steps of a call.                                          *)

\* Nothing that starts or ends a server begins or goes on.
LEMMA HarmlessKeeps ==
  ASSUME TypeOK, PatientInv, NEW j \in Jobs, NEW c,
         job' = job \/ job' = [job EXCEPT ![j] = c],
         ~Restarts(job[j]), ~Restarts(c), ~Ends(c),
         \A i \in Jobs : ~Ends(job[i]),
         UNCHANGED <<httpd, appUp, btn, toUI>>, serverRunning => serverRunning'
  PROVE  Alone' /\ Marked' /\ Truth' /\ CleanExit'
<1>1. \A i \in Jobs : job'[i] = job[i] \/ (i = j /\ job'[i] = c)
  BY DEF TypeOK
<1>2. /\ \A i \in Jobs : ~Ends(job'[i])
      /\ \A i \in Jobs : Restarts(job'[i]) <=> Restarts(job[i])
  BY <1>1
<1>3. Alone'
  BY <1>2 DEF Alone
<1>4. Ours' = Ours /\ Alive' = Alive
  BY DEF Ours, Alive
<1>5. Marked'
  BY <1>2, <1>4 DEF PatientInv, Marked
<1>6. Truth'
  BY <1>2, <1>4, ToldKept DEF PatientInv, Truth
<1>7. CleanExit'
  BY <1>4 DEF PatientInv, CleanExit
<1> QED BY <1>3, <1>5, <1>6, <1>7

\* A call that will start a server begins or goes on.
LEMMA RestartKeeps ==
  ASSUME TypeOK, PatientInv, NEW j \in Jobs, NEW c,
         job' = [job EXCEPT ![j] = c], Restarts(c),
         \A i \in Jobs : ~Ends(job[i]), serverRunning', appUp'
  PROVE  Alone' /\ Marked' /\ Truth' /\ CleanExit'
<1>1. job'[j] = c /\ \A i \in Jobs : i # j => job'[i] = job[i]
  BY OneJob
<1>2. \A i \in Jobs : ~Ends(job'[i])
  BY <1>1, Exclusive
<1> QED BY <1>1, <1>2 DEF Alone, Marked, Truth, CleanExit

\* A killserver that ends a server begins or goes on.
LEMMA EndKeeps ==
  ASSUME TypeOK, NEW j \in Jobs, NEW c,
         job' = [job EXCEPT ![j] = c], Ends(c),
         \A i \in Jobs \ {j} : job[i].pc = "idle", toMain' = <<>>,
         c.pc = "kill" => Alive' \subseteq c.todo \cup KillMayFail, appUp'
  PROVE  Alone' /\ Single' /\ Marked' /\ Truth' /\ CleanExit'
<1>1. job'[j] = c /\ \A i \in Jobs : i # j => job'[i] = job[i]
  BY OneJob
<1>2. \A i \in Jobs \ {j} : ~Ends(job'[i]) /\ ~Restarts(job'[i])
  BY <1>1, IdleCall
<1>3. ~Restarts(job'[j])
  BY <1>1, Exclusive
<1>4. Alone'
  BY <1>1, <1>2 DEF Alone
<1>5. Single'
  BY DEF Single
<1>6. Marked'
  BY <1>1, <1>2, <1>3 DEF Marked
<1>7. Truth' /\ CleanExit'
  BY <1>1 DEF Truth, CleanExit
<1> QED BY <1>4, <1>5, <1>6, <1>7

\* Nothing ends while something else is in flight.
LEMMA NoneEnds ==
  ASSUME Alone, NEW j \in Jobs, job[j].pc # "idle", ~Ends(job[j])
  PROVE  \A i \in Jobs : ~Ends(job[i])
BY DEF Alone

\* The server starts.
LEMMA StartKeeps ==
  ASSUME TypeOK, PatientInv, NEW j \in Jobs, NEW sent \in Seq(Message),
         StartServer(j, sent), Restarts(job[j]), job[j].pc # "idle",
         Orphans \cap Alive \subseteq KillMayFail,
         UNCHANGED <<serverRunning, appUp>>, appUp
  PROVE  Hosts' /\ Alone' /\ Marked' /\ Truth' /\ CleanExit'
<1>1. PICK p \in Pids : NextPid(p) /\ httpd' = [httpd EXCEPT ![p] = "starting"]
  BY DEF StartServer
<1>2. Hosts'
  BY StartServerElsewhere, HostsKept DEF PatientInv
<1>3. p \in Ours'
  BY <1>1 DEF NextPid, PatientInv, Hosts, Ours, Alive, TypeOK
<1>4. /\ job'[j] = Idle /\ ~Restarts(Idle) /\ ~Ends(Idle)
      /\ \A i \in Jobs : i # j => job'[i] = job[i]
  BY OneJob, IdleCall DEF StartServer, Idle, Await
<1>5. \A i \in Jobs : ~Ends(job[i])
  BY NoneEnds, Exclusive DEF PatientInv
<1>6. Alone'
  BY <1>4, <1>5 DEF Alone
<1>7. Marked'
  BY <1>4 DEF Marked, PatientInv
<1>8. Truth'
  BY <1>3, ToldLast DEF Truth, StartServer, Message
<1> QED BY <1>2, <1>6, <1>7, <1>8 DEF CleanExit

\* The killserver that ends a server returns.
LEMMA EndedKeeps ==
  ASSUME Calm, TypeOK, PatientInv, NEW j \in Jobs, KillReturns(j), Ends(job[j])
  PROVE  PatientInv'
<1>1. /\ job[j].pc = "kill" /\ job[j].todo = {} /\ appUp
      /\ AfterKill(j, Append(toUI, "closed")) /\ UNCHANGED <<serverRunning, btn>>
  BY DEF KillReturns, Step
<1>2. UNCHANGED httpd /\ Alive \subseteq Orphans
  BY <1>1 DEF AfterKill, Ends, PatientInv, Alone, Calm
<1>3. Ours = {} /\ Ours' = {}
  BY <1>2 DEF Ours, Alive
<1>4. Hosts'
  BY <1>1, <1>2, AfterKillElsewhere, HostsSame DEF PatientInv
<1>5. \A i \in Jobs : job'[i].pc = "idle" \/ job'[i].pc = "inst"
  <2>1. \A i \in Jobs \ {j} : job[i].pc = "idle"
    BY DEF PatientInv, Alone
  <2>2. \/ \A i \in Jobs : job'[i] = Idle
        \/ job' = [job EXCEPT ![j] = Idle]
        \/ job' = [job EXCEPT ![j] = Await("inst", "none")]
    BY <1>1 DEF AfterKill, Exit, Ends
  <2> QED BY <2>1, <2>2, OneJob DEF Idle, Await
<1>6. \A i \in Jobs : ~Restarts(job'[i]) /\ ~Ends(job'[i])
  BY <1>5, IdleCall
<1>7. Single'
  <2>1. toMain' = <<>>
    BY <1>1 DEF AfterKill, Ends, PatientInv, Alone, Exit
  <2> QED BY <2>1 DEF Single
<1>8. Truth'
  <2>1. appUp' => toUI' = Append(toUI, "closed")
    BY <1>1 DEF AfterKill, Exit, Ends
  <2> QED BY <1>3, <2>1, ToldLast DEF Truth, TypeOK, Message
<1>9. Alone' /\ Marked' /\ CleanExit'
  BY <1>3, <1>6 DEF Alone, Marked, CleanExit
<1> QED BY <1>4, <1>7, <1>8, <1>9 DEF PatientInv

-----------------------------------------------------------------------------
(* The steps.                                                              *)

\* What load_project does: an edit at most, or a killserver that will lead to
\* a start.
LEMMA LoadProjectCall ==
  ASSUME NEW j \in Jobs, NEW name, NEW cur, NEW listed, LoadProject(j, name, cur, listed)
  PROVE  \/ /\ UNCHANGED toUI
            /\ job' = job \/ \E c : /\ job' = [job EXCEPT ![j] = c]
                                   /\ ~Restarts(c) /\ ~Ends(c)
         \/ /\ name # cur /\ serverRunning
            /\ \E c : job' = [job EXCEPT ![j] = c] /\ Restarts(c)
<1>1. /\ ~Restarts(Idle) /\ ~Ends(Idle)
      /\ ~Restarts(Await("www", "none")) /\ ~Ends(Await("www", "none"))
      /\ Restarts(Killserver("switch", name))
  BY DEF Restarts, Ends, Idle, Await, Killserver
<1>2. CASE name = None
  BY <1>2 DEF LoadProject
<1>3. CASE name # None /\ name # cur /\ serverRunning
  BY <1>1, <1>3 DEF LoadProject
<1>4. CASE name # None /\ ~(name # cur /\ serverRunning)
  <2>1. UNCHANGED toUI /\ SelectProject(j, name, listed, "none")
    BY <1>4 DEF LoadProject
  <2>2. \/ job' = [job EXCEPT ![j] = Idle]
        \/ job' = [job EXCEPT ![j] = Await("www", "none")]
    BY <2>1 DEF SelectProject
  <2> QED BY <1>1, <2>1, <2>2, Zenon
<1> QED BY <1>2, <1>3, <1>4

\* The user has waited: nothing is in flight when he acts.
LEMMA UserWaited ==
  ASSUME Calm, UserActs
  PROVE  /\ appUp /\ toMain = <<>> /\ toUI = <<>>
         /\ \A j \in Jobs : job[j].pc = "idle" /\ ~Restarts(job[j]) /\ ~Ends(job[j])
BY IdleCall DEF Calm, UserActs, Quiet

LEMMA SendKeeps ==
  ASSUME Calm, TypeOK, PatientInv, NEW cmds \in Seq(Command), Send(cmds),
         \/ Len(cmds) = 1
         \/ \A i \in 1..Len(cmds) : cmds[i].cmd = "select_project"
  PROVE  PatientInv'
<1>1. /\ \A j \in Jobs : job[j].pc = "idle" /\ ~Restarts(job[j]) /\ ~Ends(job[j])
      /\ toMain' = cmds
      /\ UNCHANGED <<serverRunning, job, httpd, toUI, btn, appUp>>
  BY UserWaited DEF Send
<1>2. Single'
  BY <1>1 DEF Single
<1>3. Hosts'
  BY <1>1, HostsSame DEF PatientInv, Elsewhere
<1>4. Ours' = Ours /\ Alive' = Alive
  BY <1>1 DEF Ours, Alive
<1>5. Alone' /\ Marked'
  BY <1>1, <1>4 DEF Alone, Marked, PatientInv
<1>6. Truth' /\ CleanExit'
  BY <1>1, <1>4, ToldKept DEF Truth, CleanExit, PatientInv
<1> QED BY <1>2, <1>3, <1>5, <1>6 DEF PatientInv

LEMMA CloseWindowKeeps ==
  ASSUME Calm, TypeOK, PatientInv, CloseWindow PROVE PatientInv'
<1>1. /\ UserActs /\ appUp /\ toMain = <<>>
      /\ \A j \in Jobs : job[j].pc = "idle" /\ ~Restarts(job[j]) /\ ~Ends(job[j])
      /\ UNCHANGED <<serverRunning, httpd, btn>>
  BY UserWaited DEF CloseWindow, ui
<1>2. Ours' = Ours /\ Alive' = Alive
  BY <1>1 DEF Ours, Alive
<1>3. CASE /\ toUI' = Append(toUI, "close-but-running")
           /\ UNCHANGED <<job, toMain, appUp>>
  <2>1. Hosts'
    BY <1>1, <1>3, HostsSame DEF PatientInv, Elsewhere
  <2>2. Alone' /\ Single' /\ Marked'
    BY <1>1, <1>2, <1>3 DEF Alone, Single, Marked, PatientInv
  <2>3. Truth' /\ CleanExit'
    BY <1>1, <1>2, <1>3, ToldKept DEF Truth, CleanExit, PatientInv
  <2> QED BY <2>1, <2>2, <2>3 DEF PatientInv
<1>4. CASE ~serverRunning /\ Exit
  <2>1. Ours = {}
    BY <1>1, <1>4 DEF PatientInv, Marked
  <2>2. \A j \in Jobs : job'[j] = Idle /\ ~Restarts(Idle) /\ ~Ends(Idle)
    BY <1>4, IdleCall DEF Exit, Idle, Await
  <2>3. Hosts'
    BY <1>1, <1>4, HostsSame, IdleElsewhere, <2>2 DEF PatientInv
  <2>4. Alone' /\ Single' /\ Marked'
    BY <1>4, <2>2 DEF Alone, Single, Marked, Exit
  <2>5. Truth' /\ CleanExit'
    BY <1>2, <1>4, <2>1 DEF Truth, CleanExit, Exit
  <2> QED BY <2>3, <2>4, <2>5 DEF PatientInv
<1> QED BY <1>3, <1>4 DEF CloseWindow

LEMMA AddRemoveKeeps ==
  ASSUME Calm, TypeOK, PatientInv, NEW j \in Jobs, AddProject(j) \/ RemoveProject(j)
  PROVE  PatientInv'
<1>1. /\ UserActs /\ toMain' = toMain /\ toMain = <<>>
      /\ \A i \in Jobs : ~Restarts(job[i]) /\ ~Ends(job[i])
      /\ UNCHANGED <<serverRunning, httpd, appUp, btn>>
  BY UserWaited DEF AddProject, RemoveProject, ui
<1>2. \/ UNCHANGED <<job, toUI>>
      \/ \E p, listed : LoadProject(j, p, p, listed)
  BY DEF AddProject, RemoveProject
<1>3. /\ UNCHANGED toUI
      /\ job' = job \/ \E c : /\ job' = [job EXCEPT ![j] = c]
                             /\ ~Restarts(c) /\ ~Ends(c)
  BY <1>2, LoadProjectCall
<1>4. Hosts'
  BY <1>1, UserElsewhere, HostsSame DEF PatientInv, User
<1>5. Single'
  BY <1>1 DEF Single
<1>6. Alone' /\ Marked' /\ Truth' /\ CleanExit'
  <2>1. CASE job' = job
    BY <1>1, <1>3, <2>1, HarmlessKeeps, IdleCall DEF Idle, Await
  <2>2. ASSUME NEW c, job' = [job EXCEPT ![j] = c], ~Restarts(c), ~Ends(c)
        PROVE  Alone' /\ Marked' /\ Truth' /\ CleanExit'
    BY <1>1, <1>3, <2>2, HarmlessKeeps
  <2> QED BY <1>3, <2>1, <2>2
<1> QED BY <1>4, <1>5, <1>6 DEF PatientInv

\* The messages of a card.
LEMMA OneOrTwo ==
  ASSUME NEW S, NEW c \in S, NEW s, s = <<c>> \/ s = <<c, c>>
  PROVE  s \in Seq(S) /\ Len(s) <= 2 /\ \A i \in 1..Len(s) : s[i] = c
<1>1. CASE s = <<c>>
  BY <1>1
<1>2. CASE s = <<c, c>>
  BY <1>2
<1> QED BY <1>1, <1>2

LEMMA UserKeeps == ASSUME Calm, TypeOK, PatientInv, User PROVE PatientInv'
<1>1. ASSUME NEW c \in {"open", "close", "close-app", "change-PHP-version"},
             Send(<<Cmd(c, None)>>)
      PROVE  PatientInv'
  <2>1. <<Cmd(c, None)>> \in Seq(Command) /\ Len(<<Cmd(c, None)>>) = 1
    BY CmdType DEF Cmd, Command
  <2> QED BY <1>1, <2>1, SendKeeps
<1>2. CASE CancelClose
  <2>1. PICK cmds \in Seq(Command) : cmds = <<>> /\ Send(cmds)
    <3>1. <<>> \in Seq(Command)
      OBVIOUS
    <3>2. Send(<<>>)
      BY <1>2 DEF CancelClose
    <3> QED BY <3>1, <3>2, Zenon
  <2>2. \A i \in 1..Len(cmds) : FALSE
    BY <2>1
  <2> QED BY <2>1, <2>2, SendKeeps
<1>3. ASSUME NEW p \in projects,
             NEW cmds \in {<<Cmd("select_project", p)>>,
                           <<Cmd("select_project", p), Cmd("select_project", p)>>},
             Send(cmds)
      PROVE  PatientInv'
  <2>1. Cmd("select_project", p) \in Command
    BY CmdType DEF TypeOK, Cmd, Command
  <2>2. /\ cmds \in Seq(Command)
        /\ \A i \in 1..Len(cmds) : cmds[i] = Cmd("select_project", p)
    BY <1>3, <2>1, OneOrTwo
  <2>3. \A i \in 1..Len(cmds) : cmds[i].cmd = "select_project"
    BY <2>2 DEF Cmd
  <2> QED BY <1>3, <2>2, <2>3, SendKeeps
<1>4. CASE ClickCard
  <2>1. \E p \in projects :
          \E cmds \in {<<Cmd("select_project", p)>>,
                       <<Cmd("select_project", p), Cmd("select_project", p)>>} :
            Send(cmds)
    BY <1>4, Zenon DEF ClickCard
  <2> QED BY <1>3, <2>1
<1> QED BY <1>1, <1>2, <1>4, CloseWindowKeeps, AddRemoveKeeps
        DEF User, ClickOpenClose, ClickPhpVersion, AcceptClose

LEMMA OnMessageKeeps ==
  ASSUME TypeOK, PatientInv, NEW j \in Jobs, OnMessage(j) PROVE PatientInv'
<1>1. /\ appUp /\ appUp' = appUp /\ toMain # <<>> /\ toMain' = Tail(toMain)
      /\ job[j].pc = "idle" /\ UNCHANGED <<httpd, btn>>
  BY DEF OnMessage, OnOpen, OnClose, OnCloseApp, OnSelectProject, OnChangePhp,
         Receive, FreeSlot, ui
<1>2. /\ \A i \in Jobs : ~Ends(job[i])
      /\ ~Restarts(job[j]) /\ ~Restarts(Idle) /\ ~Ends(Idle)
  BY <1>1, IdleCall DEF PatientInv, Alone, Idle, Await
<1>3. Hosts' /\ Single'
  BY <1>1, OnMessageElsewhere, HostsSame, SingleTail DEF PatientInv
<1> DEFINE Rest == Alone' /\ Marked' /\ Truth' /\ CleanExit'
<1> SUFFICES Rest
  BY <1>3 DEF PatientInv
<1>4. ASSUME UNCHANGED <<job, toUI>>, serverRunning => serverRunning' PROVE Rest
  BY <1>1, <1>2, <1>4, HarmlessKeeps
<1>5. ASSUME Head(toMain).cmd # "select_project", NEW then \in {"none", "exit", "php"},
             job' = [job EXCEPT ![j] = Killserver(then, None)]
      PROVE  Rest
  <2>1. toMain \in Seq(Command) /\ Head(toMain) = toMain[1] /\ 1 \in 1..Len(toMain)
    BY <1>1 DEF TypeOK
  <2>2. Len(toMain) = 1 /\ \A i \in Jobs : job[i].pc = "idle"
    BY <1>5, <2>1 DEF PatientInv, Single
  <2>3. toMain' = <<>>
    BY <1>1, <2>1, <2>2
  <2>4. Ends(Killserver(then, None)) /\ Killserver(then, None).pc = "list"
    BY DEF Ends, Killserver
  <2> QED BY <1>1, <1>5, <2>2, <2>3, <2>4, EndKeeps
<1>6. CASE OnOpen(j)
  <2>1. Restarts(CreateServer)
    BY DEF Restarts, CreateServer, Await
  <2>2. CASE job' = [job EXCEPT ![j] = CreateServer] /\ serverRunning'
    BY <1>1, <1>2, <2>1, <2>2, RestartKeeps
  <2> QED BY <1>4, <1>6, <2>2 DEF OnOpen
<1>7. CASE OnClose(j)
  BY <1>5, <1>7 DEF OnClose, Receive
<1>8. CASE OnCloseApp(j)
  BY <1>5, <1>8 DEF OnCloseApp, Receive
<1>9. CASE OnSelectProject(j)
  <2>1. /\ LoadProject(j, Head(toMain).name, currentProject, projects)
        /\ UNCHANGED serverRunning
    BY <1>9 DEF OnSelectProject
  <2>2. ASSUME UNCHANGED toUI, NEW c, job' = [job EXCEPT ![j] = c], ~Restarts(c), ~Ends(c)
        PROVE  Rest
    BY <1>1, <1>2, <2>1, <2>2, HarmlessKeeps
  <2>3. ASSUME serverRunning, NEW c, job' = [job EXCEPT ![j] = c], Restarts(c)
        PROVE  Rest
    BY <1>1, <1>2, <2>1, <2>3, RestartKeeps
  <2> QED BY <1>4, <2>1, <2>2, <2>3, LoadProjectCall
<1>10. CASE OnChangePhp(j)
  <2>1. CASE serverRunning
    BY <1>5, <1>10, <2>1 DEF OnChangePhp, Receive
  <2> QED BY <1>4, <1>10, <2>1 DEF OnChangePhp
<1> QED BY <1>6, <1>7, <1>8, <1>9, <1>10 DEF OnMessage

\* tasklist of killserver: what is alive now is on the list.
LEMMA TaskListKeeps ==
  ASSUME TypeOK, PatientInv, NEW j \in Jobs, TaskList(j)
  PROVE  Hosts' /\ Alone' /\ Marked' /\ Truth' /\ CleanExit'
<1> DEFINE c == [job[j] EXCEPT !.pc = "kill", !.todo = Alive]
<1>1. /\ job' = [job EXCEPT ![j] = c] /\ job[j] \in Job
      /\ job[j].pc = "list" /\ appUp
      /\ UNCHANGED <<httpd, serverRunning, appUp, toMain>>
  BY DEF TaskList, Step, TypeOK
<1>2. c.pc = "kill" /\ c.todo = Alive /\ c.then = job[j].then
  BY <1>1 DEF Job
<1>3. Hosts'
  <2>1. job'[j] = c /\ \A i \in Jobs : i # j => job'[i] = job[i]
    BY <1>1, OneJob
  <2>2. Ours' = Ours /\ Alive' = Alive
    BY <1>1 DEF Ours, Alive
  <2>3. \A i \in Jobs : OrphansListed(job[i])'
    BY <1>2, <2>1, <2>2 DEF OrphansListed, PatientInv, Hosts
  <2> QED BY <1>1, <2>2, <2>3 DEF PatientInv, Hosts
<1>4. CASE Ends(job[j])
  <2>1. Ends(c) /\ Alive' \subseteq c.todo \cup KillMayFail
    BY <1>1, <1>2, <1>4 DEF Ends, Alive
  <2>2. toMain' = <<>> /\ \A i \in Jobs \ {j} : job[i].pc = "idle"
    BY <1>1, <1>4 DEF PatientInv, Alone
  <2> HIDE DEF c
  <2> QED BY <1>1, <1>3, <2>1, <2>2, EndKeeps
<1>5. CASE ~Ends(job[j])
  <2>1. Restarts(job[j]) /\ Restarts(c)
    BY <1>1, <1>2, <1>5 DEF Ends, Restarts
  <2>2. \A i \in Jobs : ~Ends(job[i])
    BY <1>1, <1>5, NoneEnds DEF PatientInv
  <2>3. serverRunning' /\ appUp'
    BY <1>1, <2>1 DEF PatientInv, Marked
  <2> HIDE DEF c
  <2> QED BY <1>1, <1>3, <2>1, <2>2, <2>3, RestartKeeps
<1> QED BY <1>4, <1>5

\* A TASKKILL takes a process off the list, and off the machine if it can.
LEMMA TaskKillKeeps ==
  ASSUME TypeOK, PatientInv, NEW j \in Jobs, TaskKill(j)
  PROVE  Hosts' /\ Alone' /\ Marked' /\ Truth' /\ CleanExit'
<1>1. PICK p \in job[j].todo :
        /\ job' = [job EXCEPT ![j].todo = @ \ {p}]
        /\ \/ httpd' = [httpd EXCEPT ![p] = "dead"]
           \/ p \in KillMayFail /\ UNCHANGED httpd
  BY DEF TaskKill
<1> DEFINE c == [job[j] EXCEPT !.todo = @ \ {p}]
<1>2. /\ job' = [job EXCEPT ![j] = c] /\ job[j] \in Job
      /\ job[j].pc = "kill" /\ appUp
      /\ UNCHANGED <<serverRunning, appUp, toMain>>
  BY <1>1 DEF TaskKill, Step, TypeOK
<1>3. c.pc = "kill" /\ c.todo = job[j].todo \ {p} /\ c.then = job[j].then
  BY <1>2 DEF Job
<1>4. /\ Alive' \subseteq Alive /\ (p \notin Alive' \/ p \in KillMayFail)
      /\ \A q \in Pids : httpd'[q] \in {httpd[q], "dead"}
  BY <1>1, <1>2 DEF Alive, TypeOK, Job
<1>5. Hosts'
  <2>1. job'[j] = c /\ \A i \in Jobs : i # j => job'[i] = job[i]
    BY <1>2, OneJob
  <2>2. Ours' \subseteq Ours /\ Orphans \subseteq Pids
    BY <1>4, ServerControlAssumption DEF Ours
  <2>3. \A i \in Jobs : OrphansListed(job[i])'
    BY <1>2, <1>3, <1>4, <2>1 DEF OrphansListed, PatientInv, Hosts
  <2> QED BY <1>4, <2>2, <2>3 DEF PatientInv, Hosts
<1>6. CASE Ends(job[j])
  <2>1. Ends(c) /\ Alive' \subseteq c.todo \cup KillMayFail
    BY <1>2, <1>3, <1>4, <1>6 DEF Ends, PatientInv, Alone
  <2>2. toMain' = <<>> /\ \A i \in Jobs \ {j} : job[i].pc = "idle"
    BY <1>2, <1>6 DEF PatientInv, Alone
  <2> HIDE DEF c
  <2> QED BY <1>2, <1>5, <2>1, <2>2, EndKeeps
<1>7. CASE ~Ends(job[j])
  <2>1. Restarts(job[j]) /\ Restarts(c)
    BY <1>2, <1>3, <1>7 DEF Ends, Restarts
  <2>2. \A i \in Jobs : ~Ends(job[i])
    BY <1>2, <1>7, NoneEnds DEF PatientInv
  <2>3. serverRunning' /\ appUp'
    BY <1>2, <2>1 DEF PatientInv, Marked
  <2> HIDE DEF c
  <2> QED BY <1>2, <1>5, <2>1, <2>2, <2>3, RestartKeeps
<1> QED BY <1>6, <1>7

LEMMA KillReturnsKeeps ==
  ASSUME Calm, TypeOK, SelInv, PatientInv, NEW j \in Jobs, KillReturns(j)
  PROVE  PatientInv'
<1>1. /\ job[j].pc = "kill" /\ job[j].todo = {} /\ appUp
      /\ AfterKill(j, Append(toUI, "closed")) /\ UNCHANGED <<serverRunning, btn>>
  BY DEF KillReturns, Step
<1>2. CASE Ends(job[j])
  BY <1>2, EndedKeeps
<1>3. CASE ~Ends(job[j])
  <2>1. Restarts(job[j]) /\ job[j].then \in {"switch", "start"}
    BY <1>1, <1>3 DEF Ends, Restarts
  <2>2. \A i \in Jobs : ~Ends(job[i])
    BY <1>1, <1>3, NoneEnds DEF PatientInv
  <2>3. /\ serverRunning' /\ appUp' = appUp /\ toMain' = toMain
    BY <1>1, <2>1 DEF PatientInv, Marked, AfterKill
  <2>4. Single'
    BY <1>1, <2>3, SingleStep DEF PatientInv
  <2>5. CASE job[j].then = "switch"
    <3>1. job[j].name \in projects
      BY <1>1, <2>5 DEF SelInv, SwitchListed
    <3>2. job' = [job EXCEPT ![j] = Await("www", "restart")] /\ UNCHANGED httpd
      BY <1>1, <2>5, <3>1 DEF AfterKill, SelectProject
    <3>3. Restarts(Await("www", "restart"))
      BY DEF Restarts, Await
    <3>4. Hosts'
      BY <1>1, <3>2, AfterKillElsewhere, HostsSame DEF PatientInv
    <3> QED BY <1>1, <2>2, <2>3, <2>4, <3>2, <3>3, <3>4, RestartKeeps
               DEF PatientInv
  <2>6. CASE job[j].then = "start"
    <3>1. StartServer(j, Append(toUI, "closed"))
      BY <1>1, <2>6 DEF AfterKill
    <3>2. Append(toUI, "closed") \in Seq(Message)
      BY AppendType DEF TypeOK, Message
    <3>3. Orphans \cap Alive \subseteq KillMayFail
      BY <1>1 DEF PatientInv, Hosts, OrphansListed
    <3> QED BY <1>1, <2>1, <2>3, <2>4, <3>1, <3>2, <3>3, StartKeeps
               DEF PatientInv
  <2> QED BY <2>1, <2>5, <2>6
<1> QED BY <1>2, <1>3

LEMMA OtherStepsKeep ==
  ASSUME Calm, TypeOK, PatientInv, NEW j \in Jobs,
         \/ WwwDone(j) \/ InstDone(j)
         \/ CheckRunning(j) \/ StartUnseen(j) \/ CloseFirst(j)
  PROVE  PatientInv'
<1>1. /\ appUp /\ appUp' = appUp /\ toMain' = toMain
      /\ job[j].pc \in {"www", "inst", "check", "seen", "unseen"}
      /\ UNCHANGED <<serverRunning, btn>>
  BY DEF WwwDone, InstDone, CheckRunning, StartUnseen, CloseFirst, Step
<1>2. /\ \A i \in Jobs : ~Ends(job[i])
      /\ ~Restarts(Idle) /\ ~Ends(Idle)
      /\ Restarts(job[j]) => serverRunning
  BY <1>1, IdleCall, NoneEnds DEF PatientInv, Marked, Idle, Await, Ends
<1>3. Single'
  BY <1>1, SingleStep DEF PatientInv
<1> DEFINE Rest == Alone' /\ Marked' /\ Truth' /\ CleanExit'
<1>4. CASE WwwDone(j)
  <2>1. Hosts'
    BY <1>4, HostsSame, CreateServerElsewhere, AwaitElsewhere
       DEF WwwDone, Idle, Pc, PatientInv
  <2>2. CASE job[j].then = "restart"
    <3>1. Restarts(job[j]) /\ Restarts(CreateServer)
      BY <1>4, <2>2 DEF WwwDone, Step, Restarts, CreateServer, Await
    <3>2. job' = [job EXCEPT ![j] = CreateServer]
      BY <1>4, <2>2 DEF WwwDone
    <3> QED BY <1>1, <1>2, <1>3, <2>1, <3>1, <3>2, RestartKeeps DEF PatientInv
  <2>3. CASE job[j].then # "restart"
    <3>1. ~Restarts(job[j])
      BY <1>4, <2>3 DEF WwwDone, Step, Restarts
    <3>2. job' = [job EXCEPT ![j] = Idle] /\ UNCHANGED <<httpd, toUI>>
      BY <1>4, <2>3 DEF WwwDone
    <3> QED BY <1>1, <1>2, <1>3, <2>1, <3>1, <3>2, HarmlessKeeps DEF PatientInv
  <2> QED BY <2>2, <2>3
<1>5. CASE InstDone(j)
  <2>1. Hosts' /\ ~Restarts(job[j]) /\ UNCHANGED httpd
    BY <1>5, HostsSame, LoadProjectElsewhere, AwaitElsewhere
       DEF InstDone, Step, Idle, Pc, PatientInv, Restarts
  <2>2. \/ job' = [job EXCEPT ![j] = Idle] /\ UNCHANGED toUI
        \/ LoadProject(j, currentProject, currentProject, projects)
    BY <1>5 DEF InstDone
  <2>3. /\ UNCHANGED toUI
        /\ job' = job \/ \E c : /\ job' = [job EXCEPT ![j] = c]
                               /\ ~Restarts(c) /\ ~Ends(c)
    BY <1>2, <2>2, LoadProjectCall
  <2>4. CASE job' = job
    BY <1>1, <1>2, <1>3, <2>1, <2>3, <2>4, HarmlessKeeps DEF PatientInv
  <2>5. ASSUME NEW c, job' = [job EXCEPT ![j] = c], ~Restarts(c), ~Ends(c)
        PROVE  PatientInv'
    BY <1>1, <1>2, <1>3, <2>1, <2>3, <2>5, HarmlessKeeps DEF PatientInv
  <2> QED BY <2>3, <2>4, <2>5
<1>6. CASE CheckRunning(j)
  <2> DEFINE c == [job[j] EXCEPT !.pc = IF Alive # {} THEN "seen" ELSE "unseen"]
  <2>1. job' = [job EXCEPT ![j] = c] /\ UNCHANGED httpd /\ job[j] \in Job
    BY <1>6 DEF CheckRunning, Calm, TypeOK
  <2>2. c.pc \in {"seen", "unseen"} /\ (c.pc = "unseen" => Alive = {})
    BY <2>1 DEF Job
  <2>3. Restarts(c) /\ Restarts(job[j])
    BY <1>6, <2>2 DEF Restarts, CheckRunning, Step
  <2>4. Hosts'
    <3>1. job'[j] = c /\ \A i \in Jobs : i # j => job'[i] = job[i]
      BY <2>1, OneJob
    <3>2. Ours' = Ours /\ Alive' = Alive
      BY <2>1 DEF Ours, Alive
    <3>3. \A i \in Jobs : OrphansListed(job[i])'
      BY <2>2, <3>1, <3>2 DEF OrphansListed, PatientInv, Hosts
    <3> QED BY <2>1, <3>2, <3>3 DEF PatientInv, Hosts
  <2> HIDE DEF c
  <2> QED BY <1>1, <1>2, <1>3, <2>1, <2>3, <2>4, RestartKeeps DEF PatientInv
<1>7. CASE StartUnseen(j)
  <2>1. StartServer(j, toUI) /\ job[j].pc = "unseen"
    BY <1>7 DEF StartUnseen, Step
  <2>2. Orphans \cap Alive = {} /\ Restarts(job[j])
    BY <2>1 DEF PatientInv, Hosts, OrphansListed, Restarts
  <2> QED BY <1>1, <1>3, <2>1, <2>2, StartKeeps DEF PatientInv, TypeOK
<1>8. CASE CloseFirst(j)
  <2> DEFINE c == [Killserver("start", None) EXCEPT !.old = @ \cup job[j].old]
  <2>1. job' = [job EXCEPT ![j] = c] /\ UNCHANGED httpd /\ job[j].pc = "seen"
    BY <1>8 DEF CloseFirst, Step
  <2>2. c.pc = "list" /\ c.then = "start" /\ c.old = Alive \cup job[j].old
    BY DEF Killserver
  <2>3. Restarts(c) /\ Restarts(job[j])
    BY <2>1, <2>2 DEF Restarts
  <2> HIDE DEF c
  <2>4. Hosts'
    BY <2>1, <2>2, OneJob, HostsSame DEF PatientInv, Elsewhere
  <2> QED BY <1>1, <1>2, <1>3, <2>1, <2>3, <2>4, RestartKeeps DEF PatientInv
<1> QED BY <1>4, <1>5, <1>6, <1>7, <1>8

LEMMA JobStepKeeps ==
  ASSUME Calm, TypeOK, SelInv, PatientInv, NEW j \in Jobs, JobStep(j)
  PROVE  PatientInv'
<1>1. ~TaskListFails(j)
  BY DEF TaskListFails, Calm
<1>2. CASE TaskList(j) \/ TaskKill(j)
  <2>1. Single'
    BY <1>2, SingleStep DEF TaskList, TaskKill, Step, PatientInv
  <2> QED BY <1>2, <2>1, TaskListKeeps, TaskKillKeeps DEF PatientInv
<1> QED BY <1>1, <1>2, KillReturnsKeeps, OtherStepsKeep DEF JobStep

\* Taking a message does not change what the button will say.
LEMMA DeliverKeeps == ASSUME TypeOK, PatientInv, Deliver PROVE PatientInv'
<1>1. /\ toUI # <<>> /\ toUI' = Tail(toUI) /\ toUI \in Seq(Message)
      /\ btn' = BtnAfter(Head(toUI))
      /\ UNCHANGED <<serverRunning, job, httpd, toMain, appUp>>
  BY DEF Deliver, TypeOK
<1>2. /\ Len(toUI) \in Nat /\ Len(toUI') = Len(toUI) - 1 /\ Len(toUI) >= 1
      /\ \A n \in 1..Len(toUI') : n + 1 \in 1..Len(toUI) /\ toUI'[n] = toUI[n + 1]
      /\ Head(toUI) = toUI[1]
  BY <1>1
<1>3. ASSUME NEW msg, NEW text, <<msg, text>> \in {<<"open", "Stop">>, <<"closed", "Start">>},
             Told(msg, text)
      PROVE  Told(msg, text)'
  <2>1. CASE btn = text /\ \A m \in 1..Len(toUI) : toUI[m] = "close-but-running"
    <3>1. btn' = text
      BY <1>1, <1>2, <2>1 DEF BtnAfter
    <3>2. \A m \in 1..Len(toUI') : toUI'[m] = "close-but-running"
      BY <1>2, <2>1
    <3> QED BY <3>1, <3>2 DEF Told
  <2>2. ASSUME NEW n \in 1..Len(toUI), toUI[n] = msg,
               \A m \in 1..Len(toUI) : m > n => toUI[m] = "close-but-running"
        PROVE  Told(msg, text)'
    <3>1. CASE n = 1
      <4>1. btn' = text
        BY <1>1, <1>2, <1>3, <2>2, <3>1 DEF BtnAfter
      <4>2. \A m \in 1..Len(toUI') : toUI'[m] = "close-but-running"
        BY <1>2, <2>2, <3>1
      <4> QED BY <4>1, <4>2 DEF Told
    <3>2. CASE n # 1
      <4>1. n - 1 \in 1..Len(toUI') /\ toUI'[n - 1] = msg
        BY <1>2, <2>2, <3>2
      <4>2. \A m \in 1..Len(toUI') : m > n - 1 => toUI'[m] = "close-but-running"
        BY <1>2, <2>2
      <4> QED BY <4>1, <4>2 DEF Told
    <3> QED BY <3>1, <3>2
  <2> QED BY <1>3, <2>1, <2>2 DEF Told
<1>4. Ours' = Ours /\ Alive' = Alive
  BY <1>1 DEF Ours, Alive
<1>5. Hosts'
  BY <1>1, HostsSame DEF PatientInv, Elsewhere
<1>6. Truth'
  BY <1>1, <1>3, <1>4 DEF Truth, PatientInv
<1>7. Alone' /\ Single' /\ Marked' /\ CleanExit'
  BY <1>1, <1>4 DEF PatientInv, Alone, Single, Marked, CleanExit, Alive
<1> QED BY <1>5, <1>6, <1>7 DEF PatientInv

\* A process that ends leaves one of the same session behind.
LEMMA HttpdKeeps ==
  ASSUME Calm, TypeOK, PatientInv, NEW p \in Pids, HttpdBinds(p) \/ HttpdExits(p)
  PROVE  PatientInv'
<1>0. httpd[p] = "starting"
  BY DEF HttpdBinds, HttpdExits, Calm
<1>1. UNCHANGED <<serverRunning, job, toMain, toUI, btn, appUp>>
  BY DEF HttpdBinds, HttpdExits, ui
<1>2. /\ Alive' \subseteq Alive /\ HttpdStep
      /\ p \in Alive /\ p \notin Orphans /\ Alive \ Alive' \subseteq {p}
  BY ServerControlAssumption, <1>0
     DEF HttpdBinds, HttpdExits, Alive, HttpdStep, TypeOK, PatientInv, Hosts
<1>3. Ours' \subseteq Ours /\ Alive' \cap KillMayFail = Alive \cap KillMayFail
  BY <1>2 DEF Ours, Calm
<1>4. Ours # {} /\ Alive \cap KillMayFail = {} => Ours' # {}
  <2>1. CASE HttpdBinds(p)
    BY <2>1 DEF HttpdBinds, Ours, Alive, TypeOK
  <2>2. CASE HttpdExits(p)
    <3>1. PICK q \in Pids : httpd[p] = "starting" /\ httpd[q] = "up"
      BY <2>2 DEF HttpdExits, Calm
    <3>2. q \in Alive /\ q \in Alive'
      BY <2>2, <3>1 DEF HttpdExits, Alive, TypeOK
    <3>3. Ours # {} /\ Alive \cap KillMayFail = {} => q \notin Orphans
      BY <3>2 DEF PatientInv, Hosts
    <3> QED BY <3>2, <3>3 DEF Ours
  <2> QED BY <2>1, <2>2
<1>5. Hosts'
  BY <1>1, <1>2, <1>3, HostsKept DEF PatientInv, Elsewhere
<1>6. Alone' /\ Single' /\ Marked' /\ CleanExit'
  BY <1>1, <1>2, <1>3 DEF PatientInv, Alone, Single, Marked, CleanExit
<1>7. Truth'
  BY <1>1, <1>3, <1>4, ToldKept DEF PatientInv, Truth
<1> QED BY <1>5, <1>6, <1>7 DEF PatientInv

LEMMA InitKeeps == ASSUME Init PROVE PatientInv
<1>1. /\ \A p \in Orphans : httpd[p] \in {"up", "dead"}
      /\ \A p \in Pids : httpd[p] \in {"starting", "up"} => p \in Orphans
  BY ServerControlAssumption DEF Init
<1>2. Ours = {}
  BY <1>1 DEF Ours, Alive
<1>3. \A j \in Jobs : job[j].pc \in {"idle", "inst"}
  BY DEF Init, Idle, Await
<1>4. \A j \in Jobs : ~Restarts(job[j]) /\ ~Ends(job[j])
  BY <1>3, IdleCall
<1>5. Hosts
  BY <1>1, <1>2, <1>3 DEF Hosts, OrphansListed
<1>6. Alone /\ Single /\ Marked /\ CleanExit
  BY <1>2, <1>4 DEF Init, Alone, Single, Marked, CleanExit
<1>7. Truth
  BY <1>2 DEF Init, Truth, Told
<1> QED BY <1>5, <1>6, <1>7 DEF PatientInv

LEMMA NextKeeps ==
  ASSUME Calm, TypeOK, SelInv, PatientInv, [Next]_vars PROVE PatientInv'
<1>1. CASE UNCHANGED vars
  <2>1. Hosts'
    BY <1>1, HostsSame DEF vars, PatientInv, Elsewhere
  <2>2. Ours' = Ours /\ Alive' = Alive
    BY <1>1 DEF vars, Ours, Alive
  <2> QED BY <1>1, <2>1, <2>2
          DEF vars, PatientInv, Alone, Single, Marked, Truth, Told, CleanExit,
              Alive
<1> QED BY <1>1, UserKeeps, OnMessageKeeps, JobStepKeeps, DeliverKeeps,
           HttpdKeeps
        DEF Next

\* The inductive invariant for a user who waits.
THEOREM CallsTakeTurns ==
  ASSUME Calm PROVE Spec => [](TypeOK /\ SelInv /\ PatientInv)
<1>1. Init => SelInv
  BY SelInvInit
<1>2. ASSUME TypeOK, SelInv, [Next]_vars PROVE SelInv'
  BY <1>2, SelInvNext DEF Calm
<1>3. TypeOK /\ SelInv /\ PatientInv /\ [Next]_vars => (SelInv /\ PatientInv)'
  BY <1>2, NextKeeps
<1> QED BY <1>1, <1>3, InitKeeps, TypeCorrect, PTL DEF Spec

\* Once nothing is in flight the messages that tell of it are delivered.
LEMMA TruthShows == TypeOK /\ PatientInv => ButtonTellsTruth
<1> SUFFICES ASSUME TypeOK, PatientInv, appUp, Quiet, Alive \cap KillMayFail = {}
             PROVE  btn = "Stop" <=> Ours # {}
  BY DEF ButtonTellsTruth
<1>1. \A j \in Jobs : ~Restarts(job[j]) /\ ~Ends(job[j])
  BY IdleCall DEF Quiet
<1>2. \A msg, text : Told(msg, text) => btn = text
  BY DEF Told, Quiet
<1> QED BY <1>1, <1>2 DEF PatientInv, Truth

\* For a user who waits, once nothing is in flight the button offers Stop
\* exactly when a server of this session runs, unless one that TASKKILL may not
\* end has the port.
THEOREM ButtonRight == ASSUME Calm PROVE Spec => []ButtonTellsTruth
BY CallsTakeTurns, TruthShows, PTL

\* For a user who waits, no server of this session survives the app.
THEOREM NothingSurvives == ASSUME Calm PROVE Spec => []CleanExit
<1>1. PatientInv => CleanExit
  BY DEF PatientInv
<1> QED BY <1>1, CallsTakeTurns, PTL

-----------------------------------------------------------------------------
(* What a step does to the calls, the messages and the selection, for a    *)
(* user who waits.  An edit begins in the steps that bring a call to "www" *)
(* or "inst", and only in these.                                           *)

Idles == toMain = <<>> /\ \A j \in Jobs : job[j].pc = "idle"

AtEdit(c) == c.pc \in {"www", "inst"}

\* A switch that waits for killserver.
Switching(c) == c.pc \in {"list", "kill"} /\ c.then = "switch"

\* A call that will edit httpd.conf after killserver.
WillEdit(c) == c.pc \in {"list", "kill"} /\ c.then \in {"switch", "php"}

Selects(m) == m.cmd = "select_project"

Rests ==
  /\ UNCHANGED <<job, toMain, currentProject, appUp>>
  /\ clicks' \in {clicks, clicks + 1}
  /\ UNCHANGED httpd \/ \E p \in Pids : HttpdBinds(p) \/ HttpdExits(p)

\* The user: the same message once or twice, the last project removed, or
\* another one selected by adding or removing.
UserWaits ==
  /\ Idles /\ appUp /\ appUp' = appUp /\ clicks' = clicks + 1
  /\ UNCHANGED httpd /\ \A p \in Pids : httpd[p] # "starting"

\* There was no current project, or it goes.
Abandons == currentProject = None \/ currentProject \notin projects'

Sends ==
  /\ UserWaits /\ UNCHANGED <<job, currentProject>>
  /\ Len(toMain') <= 2
  /\ \A i, k \in 1..Len(toMain') : toMain'[i] = toMain'[k]

Drops ==
  UserWaits /\ UNCHANGED <<job, toMain>> /\ currentProject' = None /\ Abandons

Chooses(j) ==
  /\ UserWaits /\ UNCHANGED toMain
  /\ currentProject' \in Projects /\ Abandons
  /\ job' = [job EXCEPT ![j] = Await("www", "none")]

\* A message is taken: a call of killserver or create_server, or none, ...
Takes(j) ==
  /\ toMain # <<>> /\ toMain' = Tail(toMain) /\ job[j].pc = "idle"
  /\ UNCHANGED <<currentProject, appUp, clicks, httpd>>
  /\ \/ job' = job
     \/ \E c \in Job :
          /\ job' = [job EXCEPT ![j] = c]
          /\ c.pc \in {"list", "check"}
          /\ Switching(c) => /\ Selects(Head(toMain))
                            /\ c.name = Head(toMain).name
                            /\ c.name # currentProject
          /\ Selects(Head(toMain)) => Switching(c)
          /\ Restarts(c) => currentProject # None
          /\ Head(toMain).cmd = "change-PHP-version" => serverRunning

\* ... or an edit.
TakesChoice(j) ==
  /\ toMain # <<>> /\ toMain' = Tail(toMain) /\ job[j].pc = "idle"
  /\ UNCHANGED <<appUp, clicks, httpd>>
  /\ Selects(Head(toMain))
  /\ currentProject' = currentProject \/ ~serverRunning
  /\ currentProject' = Head(toMain).name /\ currentProject' \in Projects
  /\ job' = [job EXCEPT ![j] = Await("www", "none")]

\* httpd.exe is spawned at the end of create_server.
StartsOne(j) ==
  /\ \/ job[j].pc = "unseen"
     \/ job[j].pc = "kill" /\ job[j].then = "start" /\ job[j].todo = {}
  /\ \E p \in Pids :
       httpd[p] = "unused" /\ httpd' = [httpd EXCEPT ![p] = "starting"]

\* The kill of a 'close' is over.
Closes(j) ==
  /\ job[j].pc = "kill" /\ job[j].then = "none" /\ job[j].todo = {}
  /\ UNCHANGED httpd

Works(j) ==
  \/ TaskList(j) \/ TaskKill(j) \/ CheckRunning(j) \/ CloseFirst(j)
  \/ StartsOne(j) \/ Closes(j)

\* A call goes on: without an edit, or with that of a switch or of a change
\* of version.
GoesOn(j) ==
  /\ UNCHANGED <<toMain, currentProject, appUp, clicks>>
  /\ job[j].pc # "idle" /\ ~AtEdit(job[j])
  /\ Works(j)
  /\ \E c \in Job :
       /\ job' = [job EXCEPT ![j] = c]
       /\ ~AtEdit(c) /\ (Restarts(c) => Restarts(job[j]))
       /\ WillEdit(c) => WillEdit(job[j]) /\ c.name = job[j].name /\ c.then = job[j].then

TurnsTo(j) ==
  /\ UNCHANGED <<toMain, appUp, clicks, httpd>>
  /\ Switching(job[j])
  /\ currentProject' = job[j].name /\ currentProject' \in Projects
  /\ job' = [job EXCEPT ![j] = Await("www", "restart")]

ChangesVersion(j) ==
  /\ UNCHANGED <<toMain, currentProject, appUp, clicks, httpd>>
  /\ Alive \subseteq KillMayFail
  /\ WillEdit(job[j]) /\ ~Switching(job[j])
  /\ toMain = <<>> /\ \A i \in Jobs \ {j} : job[i].pc = "idle"
  /\ job' = [job EXCEPT ![j] = Await("inst", "none")]

\* The app ends.
Leaves ==
  /\ toMain = <<>> /\ toMain' = <<>>
  /\ \A j \in Jobs : ~AtEdit(job[j])
  /\ appUp' = FALSE /\ currentProject' = currentProject
  /\ job' = [j \in Jobs |-> Idle]
  /\ clicks' \in {clicks, clicks + 1}

LEMMA UserKinds ==
  ASSUME Calm, TypeOK, SelInv, User
  PROVE  Rests \/ Sends \/ Drops \/ Leaves \/ \E j \in Jobs : Chooses(j)
<1>1. ASSUME UserActs
      PROVE  /\ Idles /\ appUp /\ clicks' = clicks + 1
             /\ \A p \in Pids : httpd[p] # "starting"
  BY <1>1, UserWaited DEF Calm, Idles, UserActs, Quiet
<1>2. ASSUME NEW c \in Command, NEW cmds, cmds \in {<<>>, <<c>>, <<c, c>>}, Send(cmds)
      PROVE  Sends
  <2>1. toMain = <<>> /\ UserWaits
    BY <1>1, <1>2 DEF Send, UserWaits, Idles
  <2>2. cmds \in Seq(Command) /\ Len(cmds) <= 2 /\ \A i \in 1..Len(cmds) : cmds[i] = c
    <3>1. CASE cmds = <<>>
      BY <3>1
    <3> QED BY <1>2, <3>1, OneOrTwo
  <2>3. toMain' = cmds
    BY <1>2, <2>1, <2>2 DEF Send
  <2> QED BY <1>2, <2>1, <2>2, <2>3 DEF Send, Sends
<1>3. CASE ClickOpenClose \/ ClickPhpVersion \/ AcceptClose
  <2>1. \E c \in Command : \E cmds \in {<<c>>} : Send(cmds)
    <3>1. \E c \in {"open", "close", "change-PHP-version", "close-app"} :
            Send(<<Cmd(c, None)>>)
      BY <1>3, Zenon DEF ClickOpenClose, ClickPhpVersion, AcceptClose
    <3>2. \A c \in {"open", "close", "change-PHP-version", "close-app"} :
            Cmd(c, None) \in Command
      BY DEF Cmd, Command
    <3> QED BY <3>1, <3>2, Zenon
  <2> QED BY <1>2, <2>1
<1>4. CASE ClickCard
  <2>1. \E p \in projects : \E cmds \in {<<Cmd("select_project", p)>>,
                       <<Cmd("select_project", p), Cmd("select_project", p)>>} :
            Send(cmds)
    BY <1>4, Zenon DEF ClickCard
  <2>2. \A p \in projects : Cmd("select_project", p) \in Command
    BY DEF Cmd, Command, TypeOK
  <2> QED BY <1>2, <2>1, <2>2
<1>5. CASE CancelClose
  <2>1. \E cmds \in {<<>>} : Send(cmds)
    BY <1>5, Zenon DEF CancelClose
  <2>2. Cmd("open", None) \in Command
    BY DEF Cmd, Command
  <2> QED BY <1>2, <2>1, <2>2
<1>6. CASE CloseWindow
  BY <1>1, <1>6
     DEF CloseWindow, Exit, Rests, Leaves, UserWaits, Idles, AtEdit
<1>7. ASSUME NEW j \in Jobs, NEW p \in Projects, NEW list \in SUBSET Projects,
             p \in list, UserWaits, UNCHANGED toMain, Abandons,
             LoadProject(j, p, p, list)
      PROVE  Chooses(j)
  <2>1. p # None
    BY <1>7, ServerControlAssumption
  <2>2. SelectProject(j, p, list, "none")
    BY <1>7, <2>1 DEF LoadProject
  <2> QED BY <1>7, <2>2 DEF SelectProject, Chooses
<1>8. ASSUME NEW j \in Jobs, AddProject(j) PROVE Rests \/ Chooses(j)
  <2>1. /\ UserWaits /\ UNCHANGED toMain
        /\ \E p \in Projects :
             /\ projects' = projects \cup {p}
             /\ \/ UNCHANGED <<currentProject, job>>
                \/ currentProject = None /\ LoadProject(j, p, p, projects')
    BY <1>1, <1>8 DEF AddProject, UserWaits
  <2> QED BY <1>7, <2>1 DEF Rests, UserWaits, Abandons, TypeOK
<1>9. ASSUME NEW j \in Jobs, RemoveProject(j) PROVE Rests \/ Drops \/ Chooses(j)
  <2>1. UserWaits /\ UNCHANGED toMain /\ projects' \in SUBSET Projects
    BY <1>1, <1>9 DEF RemoveProject, UserWaits, TypeOK
  <2>2. \/ Abandons /\ \E q \in projects' : LoadProject(j, q, q, projects')
        \/ UNCHANGED <<currentProject, job>>
        \/ Abandons /\ LoadProject(j, None, None, projects')
    BY <1>9 DEF RemoveProject, Abandons
  <2>3. CASE Abandons /\ \E q \in projects' : LoadProject(j, q, q, projects')
    BY <1>7, <2>1, <2>3
  <2>4. CASE UNCHANGED <<currentProject, job>>
    BY <2>1, <2>4 DEF Rests, UserWaits
  <2>5. CASE Abandons /\ LoadProject(j, None, None, projects')
    BY <2>1, <2>5 DEF LoadProject, Drops
  <2> QED BY <2>2, <2>3, <2>4, <2>5
<1> QED BY <1>3, <1>4, <1>5, <1>6, <1>8, <1>9 DEF User

LEMMA MessageKinds ==
  ASSUME TypeOK, SelInv, NEW j \in Jobs, OnMessage(j)
  PROVE  Takes(j) \/ TakesChoice(j)
<1>1. /\ toMain # <<>> /\ toMain' = Tail(toMain) /\ job[j].pc = "idle"
      /\ UNCHANGED <<appUp, clicks, httpd>>
  BY DEF OnMessage, OnOpen, OnClose, OnCloseApp, OnSelectProject, OnChangePhp,
         Receive, FreeSlot
<1>2. ASSUME NEW c, c \in {CreateServer, Killserver("none", None),
                           Killserver("exit", None), Killserver("php", None)}
      PROVE  /\ c \in Job /\ c.pc \in {"list", "check"} /\ ~Switching(c)
             /\ Restarts(c) => c.pc = "check"
  BY <1>2, CreateServerType, KillserverType
     DEF CreateServer, Await, Killserver, Switching, Then, Restarts
<1>3. CASE OnOpen(j) \/ OnClose(j) \/ OnCloseApp(j) \/ OnChangePhp(j)
  <2>1. UNCHANGED currentProject /\ ~Selects(Head(toMain))
    BY <1>3 DEF OnOpen, OnClose, OnCloseApp, OnChangePhp, Receive, Selects
  <2>2. \/ job' = job
        \/ \E c \in {CreateServer, Killserver("none", None),
                     Killserver("exit", None), Killserver("php", None)} :
             /\ job' = [job EXCEPT ![j] = c]
             /\ Head(toMain).cmd = "change-PHP-version" => serverRunning
             /\ c.pc = "check" => currentProject # None
    <3>1. CASE OnOpen(j)
      BY <3>1 DEF OnOpen, Receive
    <3>2. \A then, name : Killserver(then, name).pc = "list"
      BY DEF Killserver
    <3>3. CASE OnClose(j) \/ OnCloseApp(j)
      BY <3>2, <3>3 DEF OnClose, OnCloseApp, Receive
    <3>4. CASE OnChangePhp(j)
      BY <3>2, <3>4 DEF OnChangePhp, Receive
    <3> QED BY <1>3, <3>1, <3>3, <3>4
  <2> QED BY <1>1, <1>2, <2>1, <2>2 DEF Takes
<1>4. CASE OnSelectProject(j)
  <2> DEFINE name == Head(toMain).name
  <2>1. /\ Selects(Head(toMain))
        /\ LoadProject(j, name, currentProject, projects)
    BY <1>4 DEF OnSelectProject, Receive, Selects
  <2>2. /\ name \in projects /\ name \in Projects /\ name # None
        /\ currentProject # None
    <3>1. 1 \in 1..Len(toMain) /\ Head(toMain) = toMain[1]
      BY <1>1 DEF TypeOK
    <3> QED BY <2>1, <3>1, ServerControlAssumption
            DEF Selects, SelInv, PendingListed, SelectionSound, TypeOK
  <2>3. CASE name # currentProject /\ serverRunning
    <3>1. /\ job' = [job EXCEPT ![j] = Killserver("switch", name)]
          /\ UNCHANGED currentProject
      BY <2>1, <2>2, <2>3 DEF LoadProject
    <3>2. /\ Killserver("switch", name) \in Job
          /\ Killserver("switch", name).pc = "list"
          /\ Killserver("switch", name).name = name
          /\ Switching(Killserver("switch", name))
      BY <2>2, KillserverType DEF Killserver, Then, Switching
    <3> QED BY <1>1, <2>1, <2>2, <2>3, <3>1, <3>2 DEF Takes, Selects
  <2>4. CASE ~(name # currentProject /\ serverRunning)
    <3>1. SelectProject(j, name, projects, "none")
      BY <2>1, <2>2, <2>4 DEF LoadProject
    <3> QED BY <1>1, <2>1, <2>2, <2>4, <3>1 DEF SelectProject, TakesChoice
  <2> QED BY <2>3, <2>4
<1> QED BY <1>3, <1>4 DEF OnMessage

LEMMA StepKinds ==
  ASSUME Calm, TypeOK, SelInv, PatientInv, NEW j \in Jobs, JobStep(j)
  PROVE  \/ GoesOn(j) \/ TurnsTo(j) \/ ChangesVersion(j) \/ Leaves
         \/ WwwDone(j) \/ InstDone(j)
<1>1. job[j] \in Job
  BY DEF TypeOK
<1>2. CASE TaskList(j) \/ TaskKill(j) \/ CheckRunning(j)
  <2>1. /\ UNCHANGED <<toMain, currentProject, appUp, clicks>>
        /\ job[j].pc \in {"list", "kill", "check"}
    BY <1>2 DEF TaskList, TaskKill, CheckRunning, Step
  <2>2. \E c \in Job : /\ job' = [job EXCEPT ![j] = c]
                       /\ c.pc \in {"kill", "seen", "unseen"}
                       /\ IF c.pc = "kill" THEN job[j].pc \in {"list", "kill"}
                                          ELSE job[j].pc = "check"
                       /\ c.then = job[j].then /\ c.name = job[j].name
    <3>1. CASE TaskList(j)
      <4> DEFINE c == [job[j] EXCEPT !.pc = "kill", !.todo = Alive]
      <4>1. job' = [job EXCEPT ![j] = c]
        BY <3>1 DEF TaskList
      <4>2. /\ c \in Job /\ c.pc = "kill" /\ job[j].pc = "list"
            /\ c.then = job[j].then /\ c.name = job[j].name
        BY <1>1, <3>1 DEF TaskList, Step, Job, Pc, Alive
      <4> QED BY <4>1, <4>2
    <3>2. CASE TaskKill(j)
      <4>1. PICK p \in job[j].todo : job' = [job EXCEPT ![j].todo = @ \ {p}]
        BY <3>2 DEF TaskKill
      <4> DEFINE c == [job[j] EXCEPT !.todo = @ \ {p}]
      <4>2. job' = [job EXCEPT ![j] = c]
        BY <4>1
      <4> QED BY <1>1, <3>2, <4>2 DEF TaskKill, Step, Job
    <3>3. CASE CheckRunning(j)
      <4>1. PICK pc \in {"seen", "unseen"} : job' = [job EXCEPT ![j].pc = pc]
        BY <3>3 DEF CheckRunning
      <4> DEFINE c == [job[j] EXCEPT !.pc = pc]
      <4>2. job' = [job EXCEPT ![j] = c]
        BY <4>1
      <4>3. /\ c \in Job /\ c.pc \in {"seen", "unseen"} /\ job[j].pc = "check"
            /\ c.then = job[j].then /\ c.name = job[j].name
        BY <1>1, <3>3 DEF CheckRunning, Step, Job, Pc
      <4> QED BY <4>2, <4>3
    <3> QED BY <1>2, <3>1, <3>2, <3>3
  <2>3. Works(j)
    BY <1>2 DEF Works
  <2> QED BY <2>1, <2>2, <2>3 DEF GoesOn, AtEdit, WillEdit, Restarts
<1>3. CASE StartUnseen(j) \/ CloseFirst(j)
  <2>1. /\ UNCHANGED <<toMain, currentProject, appUp, clicks>>
        /\ job[j].pc \in {"unseen", "seen"}
    BY <1>3 DEF StartUnseen, CloseFirst, Step
  <2>2. \E c \in Job : /\ job' = [job EXCEPT ![j] = c]
                       /\ ~AtEdit(c) /\ ~WillEdit(c)
                       /\ Restarts(c) => Restarts(job[j])
    <3>1. /\ Idle \in Job /\ ~AtEdit(Idle) /\ ~WillEdit(Idle)
          /\ ~Restarts(Idle)
      BY IdleType DEF Idle, Await, AtEdit, WillEdit, Restarts
    <3>2. CASE StartUnseen(j)
      BY <3>1, <3>2 DEF StartUnseen, StartServer
    <3>3. CASE CloseFirst(j)
      <4> DEFINE c == [Killserver("start", None) EXCEPT !.old = @ \cup job[j].old]
      <4>1. c \in Job /\ c.pc = "list" /\ c.then = "start"
        BY <1>1, KillserverType DEF Killserver, Job, Then
      <4> HIDE DEF c
      <4>2. job' = [job EXCEPT ![j] = c]
        BY <3>3 DEF CloseFirst, c
      <4> QED BY <2>1, <4>1, <4>2 DEF AtEdit, WillEdit, Restarts
    <3> QED BY <1>3, <3>2, <3>3
  <2>3. Works(j)
    BY <1>3 DEF Works, StartUnseen, StartServer, Step, StartsOne, NextPid
  <2> QED BY <2>1, <2>2, <2>3 DEF GoesOn, AtEdit
<1>4. CASE KillReturns(j)
  <2>1. /\ job[j].pc = "kill" /\ job[j].todo = {} /\ UNCHANGED clicks
        /\ AfterKill(j, Append(toUI, "closed"))
    BY <1>4 DEF KillReturns, Step
  <2>2. job[j].then \notin {"switch", "start"} =>
          /\ toMain = <<>> /\ \A i \in Jobs \ {j} : job[i].pc = "idle"
          /\ Alive \subseteq KillMayFail
    BY <2>1 DEF PatientInv, Alone, Ends
  <2>3. /\ Idle \in Job /\ ~AtEdit(Idle) /\ ~WillEdit(Idle) /\ ~Restarts(Idle)
    BY IdleType DEF Idle, Await, AtEdit, WillEdit, Restarts
  <2>4. CASE job[j].then \in {"none", "start"}
    <3>1. Works(j)
      BY <2>1, <2>4 DEF AfterKill, StartServer, Works, StartsOne, Closes, NextPid
    <3> QED BY <2>1, <2>3, <2>4, <3>1 DEF AfterKill, StartServer, GoesOn, AtEdit
  <2>5. CASE job[j].then = "exit"
    BY <2>1, <2>2, <2>5 DEF AfterKill, Exit, Leaves, AtEdit
  <2>6. CASE job[j].then = "switch"
    <3>1. job[j].name \in projects
      BY <2>1, <2>6 DEF SelInv, SwitchListed
    <3> QED BY <2>1, <2>6, <3>1
            DEF AfterKill, SelectProject, TurnsTo, Switching, TypeOK
  <2>7. CASE job[j].then = "php"
    BY <2>1, <2>2, <2>7 DEF AfterKill, ChangesVersion, WillEdit, Switching
  <2> QED BY <2>1, <2>4, <2>5, <2>6, <2>7 DEF AfterKill
<1> QED BY <1>2, <1>3, <1>4 DEF JobStep, TaskListFails, Calm

LEMMA NextKinds ==
  ASSUME Calm, TypeOK, SelInv, PatientInv, Next
  PROVE  \/ Rests \/ Sends \/ Drops \/ Leaves
         \/ \E j \in Jobs :
              \/ Chooses(j) \/ Takes(j) \/ TakesChoice(j)
              \/ GoesOn(j) \/ TurnsTo(j) \/ ChangesVersion(j)
              \/ WwwDone(j) \/ InstDone(j)
<1>1. CASE Deliver \/ \E p \in Pids : HttpdBinds(p) \/ HttpdExits(p)
  BY <1>1 DEF Deliver, HttpdBinds, HttpdExits, Rests
<1>2. CASE User
  BY <1>2, UserKinds
<1>3. CASE \E j \in Jobs : OnMessage(j)
  BY <1>3, MessageKinds
<1>4. CASE \E j \in Jobs : JobStep(j)
  BY <1>4, StepKinds
<1> QED BY <1>1, <1>2, <1>3, <1>4 DEF Next

\* The two returns from an edit.
LEMMA WwwReturns ==
  ASSUME TypeOK, NEW j \in Jobs, WwwDone(j)
  PROVE  /\ UNCHANGED <<toMain, currentProject, appUp, clicks, httpd>>
         /\ job[j].pc = "www"
         /\ \E c \in Job :
              /\ job' = [job EXCEPT ![j] = c]
              /\ c.pc \in {"idle", "check"}
              /\ c.pc = "check" <=> job[j].then = "restart"
<1>1. /\ UNCHANGED <<toMain, currentProject, appUp, clicks, httpd>>
      /\ job[j].pc = "www"
      /\ job' = [job EXCEPT ![j] =
                   IF job[j].then = "restart" THEN CreateServer ELSE Idle]
  BY DEF WwwDone, Step
<1>2. /\ CreateServer \in Job /\ CreateServer.pc = "check"
      /\ Idle \in Job /\ Idle.pc = "idle"
  BY CreateServerType, IdleType DEF CreateServer, Idle, Await
<1> QED BY <1>1, <1>2

LEMMA InstReturns ==
  ASSUME TypeOK, SelInv, NEW j \in Jobs, InstDone(j)
  PROVE  /\ UNCHANGED <<toMain, currentProject, appUp, clicks, httpd>>
         /\ job[j].pc = "inst"
         /\ job' = [job EXCEPT ![j] =
                      IF job[j].then = "startup" /\ currentProject # None
                      THEN Await("www", "none") ELSE Idle]
<1>1. /\ UNCHANGED <<toMain, appUp, clicks, httpd>> /\ job[j].pc = "inst"
  BY DEF InstDone, Step
<1>2. CASE job[j].then = "startup" /\ currentProject # None
  <2>1. SelectProject(j, currentProject, projects, "none")
    BY <1>2 DEF InstDone, LoadProject
  <2>2. currentProject \in projects
    BY <1>2 DEF SelInv, SelectionSound
  <2> QED BY <1>1, <1>2, <2>1, <2>2 DEF SelectProject
<1>3. CASE ~(job[j].then = "startup" /\ currentProject # None)
  BY <1>1, <1>3 DEF InstDone
<1> QED BY <1>2, <1>3

=============================================================================
