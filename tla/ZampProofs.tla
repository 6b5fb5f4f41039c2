----------------------------- MODULE ZampProofs -----------------------------
(***************************************************************************)
(* Proofs about Zamp, the handlers, the processes and httpd.conf together, *)
(* for any projects, versions, slots and bounds.  What ServerControl and   *)
(* HttpdConf do by themselves is taken from the proofs about them, which   *)
(* are instantiated here as Zamp instantiates the modules.                 *)
(***************************************************************************)
EXTENDS Zamp, FiniteSetTheorems, TLAPS

Handlers == INSTANCE ServerPatientProofs WITH
  Patient <- TRUE, ListMayFail <- FALSE, HttpdMayDie <- FALSE

File == INSTANCE HttpdConfProofs WITH
  job <- files, Jobs <- Edits, MaxCalls <- 2 * MaxClicks, Under <- {},
  Patient <- FALSE, MayCrash <- FALSE, MayMiss <- FALSE, IniMayFail <- FALSE

\* The assumptions of the modules that are instantiated.
LEMMA Assumed ==
  /\ Handlers!ServerControlAssumption /\ Handlers!Calm
  /\ File!HttpdConfAssumption /\ File!AtLaunchAssumption
<1>1. Handlers!ServerControlAssumption /\ Handlers!Calm
  BY ZampAssumption DEF Handlers!ServerControlAssumption, Handlers!Calm
<1>2. Conf!Text = File!Text
  BY DEF Conf!Text, File!Text, Conf!Folder, File!Folder, Conf!Mangled,
     File!Mangled
<1>3. File!HttpdConfAssumption /\ File!AtLaunchAssumption
  BY <1>2, ZampAssumption, AtLaunchAssumption
     DEF File!HttpdConfAssumption, File!AtLaunchAssumption
<1> QED BY <1>1, <1>3

-----------------------------------------------------------------------------
(* The definitions of Server are those of Handlers, and those of Conf are  *)
(* those of File.                                                          *)

LEMMA SameState ==
  /\ Server!Idle = Handlers!Idle
  /\ \A pc, then : Server!Await(pc, then) = Handlers!Await(pc, then)
  /\ Server!Alive = Handlers!Alive /\ Server!Ours = Handlers!Ours
  /\ Server!Quiet <=> Handlers!Quiet
  /\ Server!TypeOK <=> Handlers!TypeOK
BY DEF Server!Idle, Handlers!Idle, Server!Await, Handlers!Await, Server!Alive,
       Handlers!Alive, Server!Ours, Handlers!Ours, Server!Quiet,
       Handlers!Quiet, Server!TypeOK, Handlers!TypeOK, Server!Job,
       Handlers!Job, Server!Pc, Handlers!Pc, Server!Then, Handlers!Then,
       Server!Command, Handlers!Command, Server!Message, Handlers!Message

LEMMA SameInit == Server!Init => Handlers!Init
BY DEF Server!Init, Handlers!Init, Server!Await, Handlers!Await, Server!Idle,
       Handlers!Idle

LEMMA SameUser == Server!User => Handlers!User
BY DEF Server!User, Handlers!User, Server!UserActs, Handlers!UserActs,
       Server!Send, Handlers!Send, Server!Cmd, Handlers!Cmd, Server!Quiet,
       Handlers!Quiet, Server!ui, Handlers!ui, Server!ClickOpenClose,
       Handlers!ClickOpenClose, Server!ClickCard, Handlers!ClickCard,
       Server!ClickPhpVersion, Handlers!ClickPhpVersion, Server!AcceptClose,
       Handlers!AcceptClose, Server!CancelClose, Handlers!CancelClose,
       Server!CloseWindow, Handlers!CloseWindow, Server!Exit, Handlers!Exit,
       Server!AddProject, Handlers!AddProject, Server!RemoveProject,
       Handlers!RemoveProject, Server!FreeSlot, Handlers!FreeSlot,
       Server!LoadProject, Handlers!LoadProject, Server!SelectProject,
       Handlers!SelectProject, Server!Killserver, Handlers!Killserver,
       Server!Await, Handlers!Await, Server!Idle, Handlers!Idle, Server!Alive,
       Handlers!Alive

LEMMA SameMessage ==
  ASSUME NEW j \in Jobs, Server!OnMessage(j) PROVE Handlers!OnMessage(j)
BY DEF Server!OnMessage, Handlers!OnMessage, Server!OnOpen, Handlers!OnOpen,
       Server!OnClose, Handlers!OnClose, Server!OnCloseApp,
       Handlers!OnCloseApp, Server!OnSelectProject, Handlers!OnSelectProject,
       Server!OnChangePhp, Handlers!OnChangePhp, Server!Receive,
       Handlers!Receive, Server!CreateServer, Handlers!CreateServer, Server!ui,
       Handlers!ui, Server!FreeSlot, Handlers!FreeSlot, Server!LoadProject,
       Handlers!LoadProject, Server!SelectProject, Handlers!SelectProject,
       Server!Killserver, Handlers!Killserver, Server!Await, Handlers!Await,
       Server!Idle, Handlers!Idle, Server!Alive, Handlers!Alive

LEMMA SameStep ==
  ASSUME NEW j \in Jobs, Server!JobStep(j) PROVE Handlers!JobStep(j)
BY DEF Server!JobStep, Handlers!JobStep, Server!TaskList, Handlers!TaskList,
       Server!TaskListFails, Handlers!TaskListFails, Server!TaskKill,
       Handlers!TaskKill, Server!KillReturns, Handlers!KillReturns,
       Server!WwwDone, Handlers!WwwDone, Server!InstDone, Handlers!InstDone,
       Server!CheckRunning, Handlers!CheckRunning, Server!StartUnseen,
       Handlers!StartUnseen, Server!CloseFirst, Handlers!CloseFirst,
       Server!Step, Handlers!Step, Server!AfterKill, Handlers!AfterKill,
       Server!StartServer, Handlers!StartServer, Server!NextPid,
       Handlers!NextPid, Server!Exit, Handlers!Exit, Server!CreateServer,
       Handlers!CreateServer, Server!LoadProject, Handlers!LoadProject,
       Server!SelectProject, Handlers!SelectProject, Server!Killserver,
       Handlers!Killserver, Server!Await, Handlers!Await, Server!Idle,
       Handlers!Idle, Server!Alive, Handlers!Alive

LEMMA SameReturns ==
  ASSUME NEW j \in Jobs
  PROVE  /\ Server!WwwDone(j) => Handlers!WwwDone(j)
         /\ Server!InstDone(j) => Handlers!InstDone(j)
BY DEF Server!WwwDone, Handlers!WwwDone, Server!InstDone, Handlers!InstDone,
       Server!Step, Handlers!Step, Server!CreateServer, Handlers!CreateServer,
       Server!LoadProject, Handlers!LoadProject, Server!SelectProject,
       Handlers!SelectProject, Server!Killserver, Handlers!Killserver,
       Server!Await, Handlers!Await, Server!Idle, Handlers!Idle, Server!Alive,
       Handlers!Alive

LEMMA SameNext == Server!Next => Handlers!Next
<1>1. Server!Deliver => Handlers!Deliver
  BY DEF Server!Deliver, Handlers!Deliver, Server!BtnAfter, Handlers!BtnAfter
<1>2. \A p \in Pids : /\ Server!HttpdBinds(p) => Handlers!HttpdBinds(p)
                      /\ Server!HttpdExits(p) => Handlers!HttpdExits(p)
  BY DEF Server!HttpdBinds, Handlers!HttpdBinds, Server!HttpdExits,
         Handlers!HttpdExits, Server!ui, Handlers!ui, Server!Alive,
         Handlers!Alive
<1>3. \A j \in Jobs : /\ Server!OnMessage(j) => Handlers!OnMessage(j)
                      /\ Server!JobStep(j) => Handlers!JobStep(j)
  BY SameMessage, SameStep
<1> QED BY <1>1, <1>2, <1>3, SameUser, Zenon DEF Server!Next, Handlers!Next

LEMMA SameFile ==
  /\ Conf!Text = File!Text /\ Conf!Empty = File!Empty
  /\ Conf!TypeOK <=> File!TypeOK
  /\ Conf!SelectionServed <=> File!SelectionServed
  /\ Conf!Idle = File!Idle
  /\ \A p : Conf!ChangeWww(p) = File!ChangeWww(p)
  /\ \A v, again, load :
       Conf!Instantiate(v, again, load) = File!Instantiate(v, again, load)
BY DEF Conf!Text, File!Text, Conf!Folder, File!Folder, Conf!Mangled,
       File!Mangled, Conf!Empty, File!Empty, Conf!TypeOK, File!TypeOK,
       Conf!Job, File!Job, Conf!Stage, File!Stage, Conf!SelectionServed,
       File!SelectionServed, Conf!Quiet, File!Quiet, Conf!Serves, File!Serves,
       Conf!Idle, File!Idle, Conf!Call, File!Call, Conf!ChangeWww,
       File!ChangeWww, Conf!Instantiate, File!Instantiate

LEMMA SameFileInit == Conf!Init => File!Init
BY DEF Conf!Init, File!Init, Conf!Startup, File!Startup, Conf!Instantiate,
       File!Instantiate, Conf!Idle, File!Idle, Conf!Call, File!Call,
       Conf!Empty, File!Empty

LEMMA SameFileStep ==
  ASSUME NEW i \in Edits, Conf!JobStep(i) PROVE File!JobStep(i)
BY DEF Conf!JobStep, File!JobStep, Conf!Read, File!Read, Conf!ReadFails,
       File!ReadFails, Conf!WwwFails, File!WwwFails, Conf!Open, File!Open,
       Conf!WriteRoot, File!WriteRoot, Conf!WritePhp, File!WritePhp,
       Conf!WritePhpLast, File!WritePhpLast, Conf!WriteIndex, File!WriteIndex,
       Conf!WriteLast, File!WriteLast, Conf!Write, File!Write, Conf!Continue,
       File!Continue, Conf!Step, File!Step, Conf!Edited, File!Edited,
       Conf!EditRoot, File!EditRoot, Conf!EditPhp, File!EditPhp,
       Conf!EditIndex, File!EditIndex, Conf!EditWww, File!EditWww,
       Conf!Readable, File!Readable, Conf!Catch, File!Catch, Conf!Returned,
       File!Returned, Conf!ChangeWww, File!ChangeWww, Conf!Recreate,
       File!Recreate, Conf!Instantiate, File!Instantiate, Conf!Idle, File!Idle,
       Conf!Call, File!Call, Conf!Empty, File!Empty, Conf!Default,
       File!Default, Conf!Overlays, File!Overlays, Conf!Stage, File!Stage,
       Conf!FreeSlot, File!FreeSlot

LEMMA SameFileRelaunch == Conf!Relaunch => File!Relaunch
BY DEF Conf!Relaunch, File!Relaunch, Conf!Counted, File!Counted,
       Conf!UserActs, File!UserActs, Conf!Quiet, File!Quiet, Conf!Startup,
       File!Startup, Conf!Instantiate, File!Instantiate, Conf!Idle, File!Idle,
       Conf!Call, File!Call, Conf!Empty, File!Empty

-----------------------------------------------------------------------------
(* The invariant: those of the two parts, and how the parts agree.         *)

\* A call awaits an edit exactly when it is at "www" or "inst", and every edit
\* in flight is awaited by one call.
Coupled ==
  /\ awaits \in [Jobs -> Edits \cup {0}]
  /\ \A j \in Jobs :
       /\ awaits[j] # 0 <=> job[j].pc \in {"www", "inst"}
       /\ awaits[j] # 0 =>
            /\ files[awaits[j]].stage # "idle"
            /\ files[awaits[j]].stage = "www" <=> job[j].pc = "www"
  /\ \A i \in Edits : files[i].stage # "idle" =>
       \E j \in Jobs : /\ awaits[j] = i
                       /\ \A k \in Jobs \ {j} : awaits[k] # i

\* server_instantiate runs alone; at startup load_project follows it.
InstAlone ==
  \A j \in Jobs : job[j].pc = "inst" =>
    /\ toMain = <<>>
    /\ \A k \in Jobs \ {j} : job[k].pc = "idle"
    /\ files[awaits[j]].load <=> job[j].then = "startup"

\* What is being selected, by a message, by a switch that waits for killserver
\* or by an edit, ...
Target(p) ==
  \/ \E i \in 1..Len(toMain) :
       toMain[i].cmd = "select_project" /\ toMain[i].name = p
  \/ \E j \in Jobs : Handlers!Switching(job[j]) /\ job[j].name = p
  \/ \E i \in Edits : files[i].stage = "www" /\ files[i].arg = p

\* ... is one project.
OneTarget ==
  \A p, q \in Projects \cup {None} : Target(p) /\ Target(q) => p = q

Down == ~appUp => toMain = <<>> /\ \A j \in Jobs : job[j].pc = "idle"

\* The edits that were begun, and those that messages and calls on their way
\* will begin, number at most two for each click.
Waiting == {j \in Jobs : Handlers!WillEdit(job[j])}

Counted ==
  /\ IsFiniteSet(Waiting)
  /\ calls + Len(toMain) + Cardinality(Waiting) <= 2 * clicks

Types ==
  /\ Handlers!TypeOK /\ File!TypeOK /\ Coupled
  /\ reads \in [Pids -> File!Text] /\ dropped \subseteq Pids

ZampInv ==
  /\ Types
  /\ Handlers!SelInv /\ Handlers!PatientInv /\ File!FileInv
  /\ InstAlone /\ OneTarget /\ Down /\ Counted

LEMMA TypesAreTypeOK == TypeOK <=> Types
BY SameState, SameFile DEF TypeOK, Types, Coupled

-----------------------------------------------------------------------------
(* What the two parts do by themselves.                                    *)

LEMMA HandlersKeep ==
  ASSUME ZampInv, Handlers!Next
  PROVE  Handlers!TypeOK' /\ Handlers!SelInv' /\ Handlers!PatientInv'
<1>1. Handlers!TypeOK /\ Handlers!SelInv /\ Handlers!PatientInv
  BY DEF ZampInv, Types
<1>2. Handlers!TypeOK'
  BY <1>1, Assumed, Handlers!NextType
<1>3. Handlers!SelInv'
  BY <1>1, Assumed, Handlers!SelInvNext
<1>4. Handlers!PatientInv'
  BY <1>1, Assumed, Handlers!NextKeeps
<1> QED BY <1>2, <1>3, <1>4

LEMMA FileKeeps ==
  ASSUME ZampInv, NEW i \in Edits, Conf!JobStep(i)
  PROVE  File!JobStep(i) /\ File!TypeOK' /\ File!FileInv'
<1>1. File!TypeOK /\ File!FileInv /\ File!JobStep(i)
  BY SameFileStep DEF ZampInv, Types
<1>2. File!TypeOK'
  BY <1>1, Assumed, File!JobStepType
<1>3. File!FileInv'
  BY <1>1, Assumed, File!JobStepKeeps DEF File!Simple
<1> QED BY <1>1, <1>2, <1>3

LEMMA StepIsNext ==
  ASSUME NEW j \in Jobs, Server!WwwDone(j) \/ Server!InstDone(j)
  PROVE  Handlers!Next /\ (Handlers!WwwDone(j) \/ Handlers!InstDone(j))
BY SameReturns DEF Handlers!Next, Handlers!JobStep

\* The edits that are in flight while nothing else is, and while
\* server_instantiate runs.
LEMMA NoEdits ==
  ASSUME Coupled, NEW S \in SUBSET Jobs, \A j \in Jobs \ S : job[j].pc = "idle"
  PROVE  \A i \in Edits : files[i].stage # "idle" => \E j \in S : awaits[j] = i
BY ZampAssumption DEF Coupled

\* What Main can be: no return from an edit, and one edit at most.
LEMMA MainKinds ==
  ASSUME ZampInv, Main
  PROVE  /\ Handlers!Next
         /\ UNCHANGED <<exists, conf>>
         /\ \/ Handlers!Rests \/ Handlers!Sends \/ Handlers!Drops \/ Handlers!Leaves
            \/ \E j \in Jobs :
                 \/ Handlers!Chooses(j) \/ Handlers!Takes(j)
                 \/ Handlers!TakesChoice(j) \/ Handlers!GoesOn(j)
                 \/ Handlers!TurnsTo(j) \/ Handlers!ChangesVersion(j)
<1>1. Handlers!TypeOK /\ Handlers!SelInv /\ Handlers!PatientInv
  BY DEF ZampInv, Types
<1>2. Handlers!Next /\ UNCHANGED <<exists, conf>>
  BY SameNext DEF Main
<1>3. ASSUME NEW j \in Jobs PROVE ~(Handlers!WwwDone(j) \/ Handlers!InstDone(j))
  <2>1. job[j].pc \in {"www", "inst"} => job'[j] = job[j]
    BY DEF Main, ZampInv, Types, Coupled
  <2>3. ASSUME Handlers!WwwDone(j) PROVE FALSE
    <3>1. job[j].pc = "www" /\ \E c : job' = [job EXCEPT ![j] = c] /\ c.pc \in {"idle", "check"}
      BY <1>1, <2>3, Assumed, Handlers!WwwReturns
    <3> QED BY <1>1, <2>1, <3>1 DEF Handlers!TypeOK
  <2>4. ASSUME Handlers!InstDone(j) PROVE FALSE
    <3>1. /\ job[j].pc = "inst"
          /\ job' = [job EXCEPT ![j] =
                       IF job[j].then = "startup" /\ currentProject # None
                       THEN Handlers!Await("www", "none") ELSE Handlers!Idle]
      BY <1>1, <2>4, Assumed, Handlers!InstReturns
    <3> QED BY <1>1, <2>1, <3>1
            DEF Handlers!TypeOK, Handlers!Await, Handlers!Idle
  <2> QED BY <2>3, <2>4
<1> QED BY <1>1, <1>2, <1>3, Assumed, Handlers!NextKinds

-----------------------------------------------------------------------------
(* How a step disturbs what the parts agree on.                            *)

\* The same calls are at "www" and "inst".
SameEdits ==
  \A j \in Jobs : {job[j].pc, job'[j].pc} \cap {"www", "inst"} # {} =>
    job'[j].pc = job[j].pc

LEMMA CoupledSame ==
  ASSUME Coupled, SameEdits, UNCHANGED <<files, awaits>> PROVE Coupled'
BY DEF Coupled, SameEdits

\* A call begins an edit.
LEMMA CoupledBegins ==
  ASSUME Handlers!TypeOK, File!TypeOK, Coupled,
         NEW j \in Jobs, NEW d, job' = [job EXCEPT ![j] = d],
         job[j].pc \notin {"www", "inst"}, d.pc \in {"www", "inst"},
         NEW i \in Edits, NEW c, files' = [files EXCEPT ![i] = c],
         files[i].stage = "idle", c.stage # "idle", c.stage = "www" <=> d.pc = "www",
         awaits' = [awaits EXCEPT ![j] = i]
  PROVE  Coupled'
<1>1. /\ \A k \in Jobs : job'[k] = IF k = j THEN d ELSE job[k]
      /\ \A k \in Jobs : awaits'[k] = IF k = j THEN i ELSE awaits[k]
      /\ \A k \in Edits : files'[k] = IF k = i THEN c ELSE files[k]
  BY DEF Handlers!TypeOK, File!TypeOK, Coupled
<1>2. i # 0 /\ awaits[j] = 0 /\ \A k \in Jobs : awaits[k] # i
  BY ZampAssumption DEF Coupled
<1>3. awaits' \in [Jobs -> Edits \cup {0}]
  BY DEF Coupled
<1>4. ASSUME NEW k \in Jobs
      PROVE  /\ awaits'[k] # 0 <=> job'[k].pc \in {"www", "inst"}
             /\ awaits'[k] # 0 =>
                  /\ files'[awaits'[k]].stage # "idle"
                  /\ files'[awaits'[k]].stage = "www" <=> job'[k].pc = "www"
  <2>1. CASE k = j
    BY <1>1, <1>2, <2>1
  <2>2. CASE k # j
    BY <1>1, <1>2, <2>2 DEF Coupled
  <2> QED BY <2>1, <2>2
<1>5. ASSUME NEW e \in Edits, files'[e].stage # "idle"
      PROVE  \E k \in Jobs : /\ awaits'[k] = e
                             /\ \A l \in Jobs \ {k} : awaits'[l] # e
  <2>1. CASE e = i
    BY <1>1, <1>2, <2>1
  <2>2. CASE e # i
    <3>1. PICK k \in Jobs : awaits[k] = e /\ \A l \in Jobs \ {k} : awaits[l] # e
      BY <1>1, <1>5, <2>2 DEF Coupled
    <3>2. k # j /\ awaits'[k] = e /\ \A l \in Jobs \ {k} : awaits'[l] # e
      BY <1>1, <1>2, <2>2, <3>1, ZampAssumption
    <3> QED BY <3>2
  <2> QED BY <2>1, <2>2
<1> QED BY <1>3, <1>4, <1>5 DEF Coupled

\* An edit ends: the call that awaits it goes on, with or without another one.
LEMMA CoupledReturns ==
  ASSUME Handlers!TypeOK, File!TypeOK, Coupled,
         NEW j \in Jobs, NEW d, job' = [job EXCEPT ![j] = d],
         NEW i \in Edits, awaits[j] = i, NEW c, files' = [files EXCEPT ![i] = c],
         \/ /\ d.pc \notin {"www", "inst"} /\ c.stage = "idle"
            /\ awaits' = [awaits EXCEPT ![j] = 0]
         \/ d.pc = "www" /\ c.stage = "www" /\ awaits' = awaits
  PROVE  Coupled'
<1>1. /\ \A k \in Jobs : job'[k] = IF k = j THEN d ELSE job[k]
      /\ \A k \in Edits : files'[k] = IF k = i THEN c ELSE files[k]
      /\ \A k \in Jobs \ {j} : awaits'[k] = awaits[k]
      /\ awaits' \in [Jobs -> Edits \cup {0}]
  BY DEF Handlers!TypeOK, File!TypeOK, Coupled
<1>2. i # 0 /\ \A k \in Jobs \ {j} : awaits[k] # i
  <2>1. i # 0 /\ files[i].stage # "idle"
    BY ZampAssumption DEF Coupled
  <2> QED BY <2>1 DEF Coupled
<1>3. awaits'[j] = IF c.stage = "idle" THEN 0 ELSE i
  BY DEF Coupled
<1>4. ASSUME NEW k \in Jobs
      PROVE  /\ awaits'[k] # 0 <=> job'[k].pc \in {"www", "inst"}
             /\ awaits'[k] # 0 =>
                  /\ files'[awaits'[k]].stage # "idle"
                  /\ files'[awaits'[k]].stage = "www" <=> job'[k].pc = "www"
  <2>1. CASE k = j
    BY <1>1, <1>2, <1>3, <2>1
  <2>2. CASE k # j
    BY <1>1, <1>2, <2>2 DEF Coupled
  <2> QED BY <2>1, <2>2
<1>5. ASSUME NEW e \in Edits, files'[e].stage # "idle"
      PROVE  \E k \in Jobs : /\ awaits'[k] = e
                             /\ \A l \in Jobs \ {k} : awaits'[l] # e
  <2>1. CASE e = i
    BY <1>1, <1>2, <1>3, <1>5, <2>1
  <2>2. CASE e # i
    <3>1. PICK k \in Jobs : awaits[k] = e /\ \A l \in Jobs \ {k} : awaits[l] # e
      BY <1>1, <1>5, <2>2 DEF Coupled
    <3>2. k # j /\ awaits'[k] = e /\ \A l \in Jobs \ {k} : awaits'[l] # e
      BY <1>1, <1>3, <2>2, <3>1, ZampAssumption
    <3> QED BY <3>2
  <2> QED BY <2>1, <2>2
<1> QED BY <1>1, <1>4, <1>5 DEF Coupled

\* Nothing new is being selected.
LEMMA NoNewTarget ==
  ASSUME OneTarget, \A p \in Projects \cup {None} : Target(p)' => Target(p)
  PROVE  OneTarget'
BY DEF OneTarget

\* The calls that wait for killserver to edit.
LEMMA WaitingMore ==
  ASSUME IsFiniteSet(Waiting), NEW j \in Jobs, NEW T \in SUBSET (Waiting \cup {j})
  PROVE  IsFiniteSet(T) /\ Cardinality(T) <= Cardinality(Waiting) + 1
<1>1. IsFiniteSet(Waiting \cup {j}) /\ Cardinality(Waiting) \in Nat
      /\ Cardinality(Waiting \cup {j}) \in {Cardinality(Waiting), Cardinality(Waiting) + 1}
  BY FS_AddElement, FS_CardinalityType
<1>2. IsFiniteSet(T) /\ Cardinality(T) <= Cardinality(Waiting \cup {j})
      /\ Cardinality(T) \in Nat
  BY <1>1, FS_Subset, FS_CardinalityType
<1> QED BY <1>1, <1>2

LEMMA WaitingLess ==
  ASSUME IsFiniteSet(Waiting), NEW T \in SUBSET Waiting
  PROVE  /\ IsFiniteSet(T) /\ Cardinality(T) \in Nat
         /\ Cardinality(Waiting) \in Nat /\ Cardinality(T) <= Cardinality(Waiting)
BY FS_Subset, FS_CardinalityType

LEMMA WaitingWithout ==
  ASSUME IsFiniteSet(Waiting), NEW j \in Waiting
  PROVE  /\ IsFiniteSet(Waiting \ {j})
         /\ Cardinality(Waiting) \in Nat
         /\ Cardinality(Waiting \ {j}) = Cardinality(Waiting) - 1
BY FS_RemoveElement, FS_CardinalityType

-----------------------------------------------------------------------------
(* The steps of the main process and its environment.                      *)

LEMMA NoStore ==
  ASSUME ZampInv, UNCHANGED toMain PROVE ~Stores
<1>1. toMain \in Seq(Handlers!Command)
  BY DEF ZampInv, Types, Handlers!TypeOK
<1> QED BY <1>1 DEF Stores

\* server_instantiate is awaited by one call, and nothing else is in flight.
LEMMA InstEdits ==
  ASSUME ZampInv, NEW i \in Edits, files[i].stage \in File!InstStages
  PROVE  \E j \in Jobs : /\ job[j].pc = "inst" /\ awaits[j] = i /\ toMain = <<>>
                         /\ \A k \in Jobs \ {j} : job[k].pc = "idle"
<1>1. PICK j \in Jobs : awaits[j] = i
  BY DEF ZampInv, Types, Coupled, File!InstStages
<1>2. job[j].pc = "inst"
  BY <1>1, ZampAssumption DEF ZampInv, Types, Coupled, File!InstStages
<1> QED BY <1>1, <1>2 DEF ZampInv, InstAlone

LEMMA InstAwaits ==
  ASSUME ZampInv, NEW j \in Jobs, job[j].pc = "inst"
  PROVE  awaits[j] \in Edits /\ files[awaits[j]].stage \in File!InstStages
<1>1. awaits[j] \in Edits /\ files[awaits[j]].stage \notin {"idle", "www"}
  BY DEF ZampInv, Types, Coupled
<1>2. files[awaits[j]].stage \in File!Stage /\ files[awaits[j]].stage # "recreate"
  BY <1>1 DEF ZampInv, Types, File!TypeOK, File!Job, File!FileInv
<1> QED BY <1>1, <1>2 DEF File!Stage, File!InstStages

LEMMA StayAtEdit ==
  ASSUME ZampInv, MainStep,
         \A j \in Jobs : job'[j].pc \in {"www", "inst"} => job'[j].pc = job[j].pc
  PROVE  SameEdits
BY DEF SameEdits, ZampInv, Types, Coupled, MainStep, SelectProject,
       InstantiateVersion, StoreVersion, OtherStep, Main

\* A step that begins no edit leaves the file alone.
LEMMA NoneBegins ==
  ASSUME ZampInv, MainStep, SameEdits
  PROVE  /\ UNCHANGED <<files, awaits, applied>> /\ selected' \in Versions
         /\ \/ Stores /\ calls' = calls + 1
            \/ calls' = IF currentProject' = currentProject THEN calls
                                                            ELSE calls + 1
<1>1. \A j \in Jobs : ~Begins(j, "www") /\ ~Begins(j, "inst")
  BY DEF SameEdits, Begins
<1>2. selected \in Versions
  BY DEF ZampInv, Types, File!TypeOK
<1> QED BY <1>1, <1>2
        DEF MainStep, SelectProject, InstantiateVersion, StoreVersion, OtherStep

\* Call j begins an edit, and no other call does.
WwwBegins(j) ==
  /\ \E i \in Edits :
       /\ files[i].stage = "idle"
       /\ files' = [files EXCEPT ![i] = File!ChangeWww(currentProject')]
       /\ awaits' = [awaits EXCEPT ![j] = i]
  /\ calls' = calls + 1 /\ UNCHANGED <<selected, applied>>

InstBegins(j) ==
  /\ \E i \in Edits, v \in Versions :
       /\ files[i].stage = "idle"
       /\ files' = [files EXCEPT ![i] = File!Instantiate(v, FALSE, FALSE)]
       /\ awaits' = [awaits EXCEPT ![j] = i]
       /\ selected' = v /\ applied' = v
  /\ calls' = calls + 1

LEMMA OneBegins ==
  ASSUME ZampInv, MainStep, NEW j \in Jobs, UNCHANGED toMain \/ ~Stores,
         job[j].pc \notin {"www", "inst"},
         NEW d, job' = [job EXCEPT ![j] = d]
  PROVE  /\ d.pc = "www" => WwwBegins(j)
         /\ d.pc = "inst" => InstBegins(j)
<1>1. \A k \in Jobs : job'[k] = IF k = j THEN d ELSE job[k]
  BY DEF ZampInv, Types, Handlers!TypeOK
<1>2. /\ \A k \in Jobs : Begins(k, "www") <=> k = j /\ d.pc = "www"
      /\ \A k \in Jobs : Begins(k, "inst") <=> k = j /\ d.pc = "inst"
  BY <1>1 DEF Begins
<1>3. ~Stores
  BY NoStore
<1>4. \A k \in Jobs : \A call : Edit(k, call) =>
        /\ calls' = calls + 1
        /\ \E i \in Edits : /\ files[i].stage = "idle"
                            /\ files' = [files EXCEPT ![i] = call]
                            /\ awaits' = [awaits EXCEPT ![k] = i]
  BY Zenon DEF Edit, Conf!FreeSlot
<1>5. CASE d.pc = "www"
  <2>1. Edit(j, Conf!ChangeWww(currentProject')) /\ UNCHANGED <<selected, applied>>
    BY <1>2, <1>3, <1>5
       DEF MainStep, SelectProject, InstantiateVersion, StoreVersion, OtherStep
  <2>2. Conf!ChangeWww(currentProject') = File!ChangeWww(currentProject')
    BY SameFile
  <2> QED BY <1>4, <1>5, <2>1, <2>2 DEF WwwBegins
<1>6. CASE d.pc = "inst"
  <2>1. PICK v \in Versions : /\ Edit(j, Conf!Instantiate(v, FALSE, FALSE))
                              /\ selected' = v /\ applied' = v
    BY <1>2, <1>3, <1>6
       DEF MainStep, SelectProject, InstantiateVersion, StoreVersion, OtherStep
  <2>2. Conf!Instantiate(v, FALSE, FALSE) = File!Instantiate(v, FALSE, FALSE)
    BY SameFile
  <2> DEFINE call == Conf!Instantiate(v, FALSE, FALSE)
  <2>3. /\ calls' = calls + 1
        /\ \E i \in Edits : /\ files[i].stage = "idle"
                            /\ files' = [files EXCEPT ![i] = call]
                            /\ awaits' = [awaits EXCEPT ![j] = i]
    BY <1>4, <2>1
  <2> HIDE DEF call
  <2>4. call = File!Instantiate(v, FALSE, FALSE)
    BY <2>2 DEF call
  <2> QED BY <1>6, <2>1, <2>3, <2>4 DEF InstBegins
<1> QED BY <1>5, <1>6

\* What is left to show of a step.
LEMMA Assemble ==
  ASSUME ZampInv, MainStep, Coupled', File!FileInv',
         files' \in [Edits -> File!Job], \A i \in Edits : File!Fits(files'[i]),
         {selected', applied'} \subseteq Versions, calls' \in Nat,
         InstAlone', OneTarget', Down', Counted'
  PROVE  ZampInv'
<1>1. Main
  BY DEF MainStep, SelectProject, InstantiateVersion, StoreVersion, OtherStep
<1>2. Handlers!Next /\ UNCHANGED <<exists, conf>>
  BY <1>1, MainKinds
<1>3. Handlers!TypeOK' /\ Handlers!SelInv' /\ Handlers!PatientInv'
  BY <1>2, HandlersKeep
<1>4. calls' \in 0..2 * MaxClicks
  <2>1. clicks' \in 0..MaxClicks /\ Len(toMain') \in Nat
    BY <1>3 DEF Handlers!TypeOK
  <2>2. Cardinality(Waiting') \in Nat
    BY FS_CardinalityType DEF Counted
  <2> QED BY <2>1, <2>2, ZampAssumption DEF Counted
<1>5. File!TypeOK'
  <2>1. exists' \in BOOLEAN /\ conf' \in File!Text
    BY <1>2 DEF ZampInv, Types, File!TypeOK
  <2>2. currentProject' \in Projects \cup {None}
    BY <1>3 DEF Handlers!TypeOK
  <2> QED BY <1>4, <2>1, <2>2 DEF File!TypeOK, File!Fits
<1>6. reads' \in [Pids -> File!Text] /\ dropped' \subseteq Pids
  <2>1. /\ reads \in [Pids -> File!Text] /\ conf \in File!Text
        /\ Conf!Empty \in File!Text
    BY SameFile, Assumed, File!EmptyType DEF ZampInv, Types, File!TypeOK
  <2>2. Processes
    BY <1>1 DEF Main
  <2>3. Server!Alive' \subseteq Pids
    BY DEF Server!Alive
  <2> QED BY <2>1, <2>2, <2>3 DEF Processes
<1> QED BY <1>3, <1>5, <1>6 DEF ZampInv, Types

LEMMA MainIsMain == ASSUME MainStep PROVE Main
BY DEF MainStep, SelectProject, InstantiateVersion, StoreVersion, OtherStep

\* A step that begins no edit and does not change the selection.
LEMMA NoneBeginsKeeps ==
  ASSUME ZampInv, MainStep, SameEdits, UNCHANGED currentProject,
         \A k \in Jobs : job[k].pc = "inst" => UNCHANGED <<job, toMain>>,
         OneTarget', Down', Counted'
  PROVE  ZampInv'
<1>1. /\ UNCHANGED <<files, awaits, applied, exists, conf>>
      /\ selected' \in Versions /\ calls' \in {calls, calls + 1}
  BY NoneBegins, MainIsMain DEF Main
<1>2. Coupled'
  BY <1>1, CoupledSame DEF ZampInv, Types
<1>3. File!FileInv'
  BY <1>1, Assumed, File!FileStays DEF ZampInv
<1>4. InstAlone'
  BY <1>1 DEF SameEdits, ZampInv, InstAlone
<1>5. /\ files' \in [Edits -> File!Job] /\ \A i \in Edits : File!Fits(files'[i])
      /\ applied' \in Versions /\ calls' \in Nat
  BY <1>1 DEF ZampInv, Types, File!TypeOK, File!Fits
<1> QED BY <1>1, <1>2, <1>3, <1>4, <1>5, Assemble

LEMMA RestsKeeps == ASSUME ZampInv, MainStep, Handlers!Rests PROVE ZampInv'
<1>1. /\ UNCHANGED <<job, toMain, currentProject, appUp>>
      /\ clicks' \in {clicks, clicks + 1}
  BY DEF Handlers!Rests
<1>2. SameEdits
  BY <1>1 DEF SameEdits
<1>3. UNCHANGED files /\ calls' = calls
  BY <1>1, <1>2, NoneBegins, NoStore
<1>4. OneTarget'
  BY <1>1, <1>3, NoNewTarget DEF ZampInv, Target, Handlers!Switching
<1>5. Down'
  BY <1>1 DEF ZampInv, Down
<1>6. Counted'
  <2>1. Waiting' = Waiting
    BY <1>1 DEF Waiting, Handlers!WillEdit
  <2>2. Len(toMain) \in Nat /\ calls \in Nat /\ clicks \in Nat
    BY DEF ZampInv, Types, Handlers!TypeOK, File!TypeOK
  <2>3. Cardinality(Waiting) \in Nat
    BY FS_CardinalityType DEF ZampInv, Counted
  <2> QED BY <1>1, <1>3, <2>1, <2>2, <2>3 DEF ZampInv, Counted
<1> QED BY <1>1, <1>2, <1>4, <1>5, <1>6, NoneBeginsKeeps

\* The user has waited: nothing is counted but the edits that were begun.
LEMMA IdleCounts ==
  ASSUME ZampInv, Handlers!Idles
  PROVE  /\ calls \in Nat /\ clicks \in Nat /\ calls <= 2 * clicks
         /\ Waiting = {} /\ \A i \in Edits : files[i].stage = "idle"
<1>1. toMain = <<>> /\ \A j \in Jobs : job[j].pc = "idle"
  BY DEF Handlers!Idles
<1>2. Waiting = {}
  BY <1>1 DEF Waiting, Handlers!WillEdit
<1>3. \A i \in Edits : files[i].stage = "idle"
  BY <1>1, NoEdits DEF ZampInv, Types
<1>4. Cardinality(Waiting) = 0
  BY <1>2, FS_EmptySet
<1> QED BY <1>1, <1>2, <1>3, <1>4
        DEF ZampInv, Types, Counted, Handlers!TypeOK, File!TypeOK

LEMMA SendsKeeps == ASSUME ZampInv, MainStep, Handlers!Sends PROVE ZampInv'
<1>1. /\ Handlers!Idles /\ appUp /\ appUp' = appUp /\ clicks' = clicks + 1
      /\ UNCHANGED <<job, currentProject>> /\ Len(toMain') <= 2
      /\ \A i, k \in 1..Len(toMain') : toMain'[i] = toMain'[k]
  BY DEF Handlers!Sends, Handlers!UserWaits
<1>2. SameEdits /\ \A k \in Jobs : job[k].pc = "idle"
  BY <1>1 DEF SameEdits, Handlers!Idles
<1>3. ~Stores
  BY <1>1 DEF Stores, Handlers!Idles
<1>4. UNCHANGED files /\ calls' = calls
  BY <1>1, <1>2, <1>3, NoneBegins
<1>5. OneTarget'
  BY <1>1, <1>2, <1>4, IdleCounts DEF OneTarget, Target, Handlers!Switching
<1>6. Down'
  BY <1>1 DEF Down
<1>7. Counted'
  <2>1. Waiting' = {}
    BY <1>1, <1>2 DEF Waiting, Handlers!WillEdit
  <2>2. IsFiniteSet(Waiting') /\ Cardinality(Waiting') = 0
    BY <2>1, FS_EmptySet
  <2>3. Len(toMain') \in Nat
    BY MainIsMain, MainKinds, HandlersKeep DEF Handlers!TypeOK
  <2> QED BY <1>1, <1>4, <2>2, <2>3, IdleCounts DEF Counted
<1> QED BY <1>1, <1>2, <1>5, <1>6, <1>7, NoneBeginsKeeps

LEMMA DropsKeeps == ASSUME ZampInv, MainStep, Handlers!Drops PROVE ZampInv'
<1>1. /\ Handlers!Idles /\ appUp /\ appUp' = appUp /\ clicks' = clicks + 1
      /\ UNCHANGED <<job, toMain>> /\ currentProject' = None
  BY DEF Handlers!Drops, Handlers!UserWaits
<1>2. SameEdits /\ \A k \in Jobs : job[k].pc = "idle"
  BY <1>1 DEF SameEdits, Handlers!Idles
<1>3. /\ UNCHANGED <<files, awaits, applied, exists, conf>>
      /\ selected' \in Versions /\ calls' \in {calls, calls + 1}
  BY <1>2, NoneBegins, MainIsMain DEF Main
<1>4. Coupled'
  BY <1>2, <1>3, CoupledSame DEF ZampInv, Types
<1>5. File!FileInv'
  BY <1>1, <1>3, IdleCounts, Assumed, File!DeselectKeeps DEF ZampInv
<1>6. InstAlone' /\ OneTarget' /\ Down'
  BY <1>1, <1>2, <1>3, IdleCounts, NoNewTarget
     DEF InstAlone, Target, Down, Handlers!Switching, Handlers!Idles, ZampInv
<1>7. Counted'
  <2>1. Waiting' = {} /\ toMain' = <<>>
    BY <1>1, <1>2 DEF Waiting, Handlers!WillEdit, Handlers!Idles
  <2>2. IsFiniteSet(Waiting') /\ Cardinality(Waiting') = 0
    BY <2>1, FS_EmptySet
  <2> QED BY <1>1, <1>3, <2>1, <2>2, IdleCounts DEF Counted
<1>8. /\ files' \in [Edits -> File!Job] /\ \A i \in Edits : File!Fits(files'[i])
      /\ applied' \in Versions /\ calls' \in Nat
  BY <1>3 DEF ZampInv, Types, File!TypeOK, File!Fits
<1> QED BY <1>3, <1>4, <1>5, <1>6, <1>7, <1>8, Assemble

LEMMA LeavesKeeps == ASSUME ZampInv, MainStep, Handlers!Leaves PROVE ZampInv'
<1>1. /\ toMain = <<>> /\ toMain' = <<>>
      /\ \A j \in Jobs : job[j].pc \notin {"www", "inst"}
      /\ \A j \in Jobs : job'[j].pc = "idle"
      /\ currentProject' = currentProject
      /\ clicks' \in {clicks, clicks + 1}
  BY DEF Handlers!Leaves, Handlers!AtEdit, Handlers!Idle, Handlers!Await
<1>2. SameEdits
  BY <1>1 DEF SameEdits
<1>3. ~Stores
  BY <1>1 DEF Stores
<1>4. UNCHANGED files /\ calls' = calls
  BY <1>1, <1>2, <1>3, NoneBegins
<1>5. OneTarget'
  BY <1>1, <1>4, NoNewTarget DEF ZampInv, Target, Handlers!Switching
<1>6. Down'
  BY <1>1 DEF Down
<1>7. Counted'
  <2>1. Waiting' = {}
    BY <1>1 DEF Waiting, Handlers!WillEdit
  <2>2. IsFiniteSet(Waiting') /\ Cardinality(Waiting') = 0
    BY <2>1, FS_EmptySet
  <2>3. Cardinality(Waiting) \in Nat /\ calls \in Nat /\ clicks \in Nat
    BY FS_CardinalityType
       DEF ZampInv, Counted, Types, Handlers!TypeOK, File!TypeOK
  <2> QED BY <1>1, <1>4, <2>2, <2>3 DEF ZampInv, Counted
<1> QED BY <1>1, <1>2, <1>5, <1>6, <1>7, NoneBeginsKeeps

\* A message that is taken no longer selects by itself.
LEMMA TailTarget ==
  ASSUME ZampInv, toMain # <<>>, toMain' = Tail(toMain)
  PROVE  /\ Len(toMain') = Len(toMain) - 1 /\ Len(toMain) \in Nat
         /\ \A i \in 1..Len(toMain') : \E k \in 1..Len(toMain) : toMain'[i] = toMain[k]
         /\ 1 \in 1..Len(toMain) /\ Head(toMain) = toMain[1]
<1>1. toMain \in Seq(Handlers!Command)
  BY DEF ZampInv, Types, Handlers!TypeOK
<1>2. \A i \in 1..Len(toMain') : i + 1 \in 1..Len(toMain) /\ toMain'[i] = toMain[i + 1]
  BY <1>1
<1> QED BY <1>1, <1>2

LEMMA TakesKeeps ==
  ASSUME ZampInv, MainStep, NEW j \in Jobs, Handlers!Takes(j) PROVE ZampInv'
<1>1. /\ toMain # <<>> /\ toMain' = Tail(toMain) /\ job[j].pc = "idle"
      /\ UNCHANGED <<currentProject, appUp, clicks>>
  BY DEF Handlers!Takes
<1>2. \/ job' = job
      \/ \E c : /\ job' = [job EXCEPT ![j] = c]
                /\ c.pc \in {"list", "check"}
                /\ Handlers!Switching(c) =>
                     Head(toMain).cmd = "select_project" /\ c.name = Head(toMain).name
                /\ ~Stores
  BY DEF Handlers!Takes, Handlers!Selects, Stores
<1>3. \A k \in Jobs \ {j} : job'[k] = job[k]
  BY <1>2 DEF ZampInv, Types, Handlers!TypeOK
<1>4. /\ job'[j] = job[j] \/ job'[j].pc \in {"list", "check"}
      /\ Handlers!Switching(job'[j]) =>
           /\ Head(toMain).cmd = "select_project"
           /\ job'[j].name = Head(toMain).name
      /\ job' = job \/ ~Stores
  BY <1>1, <1>2 DEF ZampInv, Types, Handlers!TypeOK, Handlers!Switching
<1>5. SameEdits
  BY <1>1, <1>3, <1>4 DEF SameEdits
<1>6. UNCHANGED files /\ (calls' = calls \/ (calls' = calls + 1 /\ job' = job))
  BY <1>1, <1>4, <1>5, NoneBegins
<1>7. OneTarget'
  <2>1. ASSUME NEW p \in Projects \cup {None}, Target(p)' PROVE Target(p)
    BY <1>1, <1>3, <1>4, <1>6, <2>1, TailTarget DEF Target
  <2> QED BY <2>1, NoNewTarget DEF ZampInv
<1>8. Down'
  BY <1>1 DEF ZampInv, Down
<1>9. Counted'
  <2>1. /\ calls \in Nat /\ clicks \in Nat /\ IsFiniteSet(Waiting)
        /\ Cardinality(Waiting) \in Nat
    BY FS_CardinalityType
       DEF ZampInv, Types, Counted, Handlers!TypeOK, File!TypeOK
  <2>2. CASE job' = job
    <3>1. Waiting' = Waiting
      BY <2>2 DEF Waiting
    <3> QED BY <1>1, <1>6, <2>1, <3>1, TailTarget DEF ZampInv, Counted
  <2>3. CASE calls' = calls
    <3>1. Waiting' \in SUBSET (Waiting \cup {j})
      BY <1>3 DEF Waiting
    <3>2. IsFiniteSet(Waiting') /\ Cardinality(Waiting') <= Cardinality(Waiting) + 1
      BY <2>1, <3>1, WaitingMore
    <3>3. Cardinality(Waiting') \in Nat
      BY <3>2, FS_CardinalityType
    <3> QED BY <1>1, <2>1, <2>3, <3>2, <3>3, TailTarget DEF ZampInv, Counted
  <2> QED BY <1>6, <2>2, <2>3
<1>10. \A k \in Jobs : job[k].pc # "inst"
  BY <1>1 DEF ZampInv, InstAlone
<1> QED BY <1>1, <1>5, <1>7, <1>8, <1>9, <1>10, NoneBeginsKeeps

LEMMA GoesOnKeeps ==
  ASSUME ZampInv, MainStep, NEW j \in Jobs, Handlers!GoesOn(j) PROVE ZampInv'
<1>1. /\ UNCHANGED <<toMain, currentProject, appUp, clicks>>
      /\ job[j].pc # "idle" /\ ~Handlers!AtEdit(job[j])
  BY DEF Handlers!GoesOn
<1>2. PICK c : /\ job' = [job EXCEPT ![j] = c]
               /\ ~Handlers!AtEdit(c)
               /\ Handlers!WillEdit(c) =>
                    /\ Handlers!WillEdit(job[j]) /\ c.name = job[j].name
                    /\ c.then = job[j].then
  BY DEF Handlers!GoesOn
<1>3. \A k \in Jobs : job'[k] = IF k = j THEN c ELSE job[k]
  BY <1>2 DEF ZampInv, Types, Handlers!TypeOK
<1>4. SameEdits
  BY <1>1, <1>2, <1>3 DEF SameEdits, Handlers!AtEdit
<1>5. UNCHANGED files /\ calls' = calls
  BY <1>1, <1>4, NoneBegins, NoStore
<1>6. OneTarget'
  <2>1. Handlers!Switching(c) => Handlers!Switching(job[j]) /\ c.name = job[j].name
    BY <1>2 DEF Handlers!Switching, Handlers!WillEdit
  <2>2. ASSUME NEW p \in Projects \cup {None}, Target(p)' PROVE Target(p)
    BY <1>1, <1>3, <1>5, <2>1, <2>2 DEF Target
  <2> QED BY <2>2, NoNewTarget DEF ZampInv
<1>7. Down'
  BY <1>1 DEF ZampInv, Down
<1>8. Counted'
  <2>1. /\ calls \in Nat /\ clicks \in Nat /\ IsFiniteSet(Waiting)
        /\ Len(toMain) \in Nat
    BY DEF ZampInv, Types, Counted, Handlers!TypeOK, File!TypeOK
  <2>2. Waiting' \in SUBSET Waiting
    BY <1>2, <1>3 DEF Waiting
  <2>3. /\ IsFiniteSet(Waiting') /\ Cardinality(Waiting') \in Nat
        /\ Cardinality(Waiting) \in Nat
        /\ Cardinality(Waiting') <= Cardinality(Waiting)
    BY <2>1, <2>2, WaitingLess
  <2> QED BY <1>1, <1>5, <2>1, <2>3 DEF ZampInv, Counted
<1>9. \A k \in Jobs : job[k].pc # "inst"
  BY <1>1 DEF ZampInv, InstAlone, Handlers!AtEdit
<1> QED BY <1>1, <1>4, <1>6, <1>7, <1>8, <1>9, NoneBeginsKeeps

\* A project is selected: what the three ways of it have in common.
LEMMA WwwBeginsKeeps ==
  ASSUME ZampInv, MainStep, NEW j \in Jobs, job[j].pc \notin {"www", "inst"},
         NEW then, job' = [job EXCEPT ![j] = Handlers!Await("www", then)],
         UNCHANGED toMain \/ ~Stores, currentProject' \in Projects,
         \A i \in Edits : files[i].stage \notin File!InstStages,
         \A i \in Edits : files[i].stage = "www" => currentProject' = currentProject,
         \A p \in Projects \cup {None} : Target(p)' => p = currentProject' \/ Target(p),
         (\E p \in Projects \cup {None} : Target(p)) => Target(currentProject'),
         Down', Counted'
  PROVE  ZampInv'
<1> DEFINE d == Handlers!Await("www", then)
<1>1. d.pc = "www"
  BY DEF Handlers!Await
<1> HIDE DEF d
<1>2. job' = [job EXCEPT ![j] = d]
  BY DEF d
<1>3. WwwBegins(j)
  BY <1>1, <1>2, OneBegins
<1> DEFINE c == File!ChangeWww(currentProject')
<1>4. PICK i \in Edits : /\ files[i].stage = "idle"
                         /\ files' = [files EXCEPT ![i] = c]
                         /\ awaits' = [awaits EXCEPT ![j] = i]
  BY <1>3 DEF WwwBegins
<1>5. calls' = calls + 1 /\ UNCHANGED <<selected, applied, exists, conf>>
  BY <1>3, MainIsMain DEF WwwBegins, Main
<1>6. /\ Handlers!TypeOK /\ File!TypeOK /\ Coupled /\ File!FileInv
  BY DEF ZampInv, Types
<1>7. c.stage = "www" /\ File!Fits(c) /\ c \in File!Job
  BY Assumed, File!CallType DEF File!ChangeWww, File!Call, File!Fits
<1>8. Coupled'
  <2> HIDE DEF c
  <2> QED BY <1>1, <1>2, <1>4, <1>6, <1>7, CoupledBegins
<1>9. File!FileInv'
  BY <1>4, <1>5, <1>6, Assumed, File!SelectKeeps
<1>10. /\ files' \in [Edits -> File!Job] /\ \A k \in Edits : File!Fits(files'[k])
  <2> HIDE DEF c
  <2> QED BY <1>4, <1>6, <1>7 DEF File!TypeOK, File!Fits
<1>11. InstAlone'
  <2>1. \A k \in Jobs : job[k].pc # "inst"
    BY InstAwaits
  <2>2. \A k \in Jobs : job'[k].pc # "inst"
    BY <1>1, <1>2, <1>6, <2>1 DEF Handlers!TypeOK
  <2> QED BY <2>2 DEF InstAlone
<1>12. OneTarget'
  BY DEF ZampInv, OneTarget
<1>13. {selected', applied'} \subseteq Versions /\ calls' \in Nat
  BY <1>5, <1>6 DEF File!TypeOK
<1> QED BY <1>8, <1>9, <1>10, <1>11, <1>12, <1>13, Assemble

\* An edit that begins is the only new target.
LEMMA NewTarget ==
  ASSUME ZampInv, MainStep, NEW j \in Jobs, job[j].pc \notin {"www", "inst"},
         NEW then, job' = [job EXCEPT ![j] = Handlers!Await("www", then)],
         UNCHANGED toMain \/ ~Stores,
         \A i \in 1..Len(toMain') :
           \E k \in 1..Len(toMain) : toMain'[i] = toMain[k]
  PROVE  /\ \A p \in Projects \cup {None} :
              Target(p)' => p = currentProject' \/ Target(p)
         /\ calls' = calls + 1
         /\ Waiting' = Waiting \ {j}
<1> DEFINE d == Handlers!Await("www", then)
<1>1. d.pc = "www" /\ ~Handlers!Switching(d) /\ ~Handlers!WillEdit(d)
  BY DEF Handlers!Await, Handlers!Switching, Handlers!WillEdit
<1> HIDE DEF d
<1>2. job' = [job EXCEPT ![j] = d]
  BY DEF d
<1>3. WwwBegins(j)
  BY <1>1, <1>2, OneBegins
<1> DEFINE c == File!ChangeWww(currentProject')
<1>4. PICK i \in Edits : files' = [files EXCEPT ![i] = c]
  BY <1>3 DEF WwwBegins
<1>5. c.arg = currentProject'
  BY DEF File!ChangeWww, File!Call
<1> HIDE DEF c
<1>6. /\ \A k \in Jobs : job'[k] = IF k = j THEN d ELSE job[k]
      /\ \A k \in Edits : files'[k] = IF k = i THEN c ELSE files[k]
  BY <1>2, <1>4 DEF ZampInv, Types, Handlers!TypeOK, File!TypeOK
<1>7. ASSUME NEW p \in Projects \cup {None}, Target(p)'
      PROVE  p = currentProject' \/ Target(p)
  <2>1. CASE \E n \in 1..Len(toMain') :
               toMain'[n].cmd = "select_project" /\ toMain'[n].name = p
    BY <2>1 DEF Target
  <2>2. CASE \E k \in Jobs : Handlers!Switching(job'[k]) /\ job'[k].name = p
    BY <1>1, <1>6, <2>2 DEF Target
  <2>3. CASE \E k \in Edits : files'[k].stage = "www" /\ files'[k].arg = p
    BY <1>5, <1>6, <2>3 DEF Target
  <2> QED BY <1>7, <2>1, <2>2, <2>3 DEF Target
<1>8. Waiting' = Waiting \ {j}
  BY <1>1, <1>6 DEF Waiting
<1> QED BY <1>3, <1>7, <1>8 DEF WwwBegins

\* An edit of the document root that is in flight has the current project as
\* its target; so has a selection that is taken or goes on meanwhile.
LEMMA TargetIsCurrent ==
  ASSUME ZampInv, NEW p \in Projects \cup {None}, Target(p),
         NEW i \in Edits, files[i].stage = "www"
  PROVE  p = currentProject
<1>1. files[i].arg = currentProject /\ currentProject \in Projects \cup {None}
  BY DEF ZampInv, Types, File!FileInv, File!WwwCurrent, File!TypeOK
<1>2. Target(currentProject)
  BY <1>1 DEF Target
<1> QED BY <1>1, <1>2 DEF ZampInv, OneTarget

LEMMA ChoosesKeeps ==
  ASSUME ZampInv, MainStep, NEW j \in Jobs, Handlers!Chooses(j) PROVE ZampInv'
<1>1. /\ Handlers!Idles /\ appUp /\ appUp' = appUp /\ clicks' = clicks + 1
      /\ UNCHANGED toMain /\ currentProject' \in Projects
      /\ job' = [job EXCEPT ![j] = Handlers!Await("www", "none")]
  BY DEF Handlers!Chooses, Handlers!UserWaits
<1>2. toMain = <<>> /\ \A k \in Jobs : job[k].pc = "idle"
  BY <1>1 DEF Handlers!Idles
<1>3. \A i \in Edits : files[i].stage = "idle"
  BY <1>1, IdleCounts
<1>4. \A p \in Projects \cup {None} : ~Target(p)
  BY <1>2, <1>3 DEF Target, Handlers!Switching
<1>5. /\ \A p \in Projects \cup {None} :
           Target(p)' => p = currentProject' \/ Target(p)
      /\ calls' = calls + 1 /\ Waiting' = Waiting \ {j}
  BY <1>1, <1>2, NewTarget
<1>6. Down'
  BY <1>1 DEF Down
<1>7. Counted'
  <2>1. Waiting' = {} /\ Len(toMain') = 0
    BY <1>1, <1>2, <1>5, IdleCounts
  <2>2. IsFiniteSet(Waiting') /\ Cardinality(Waiting') = 0
    BY <2>1, FS_EmptySet
  <2> QED BY <1>1, <1>5, <2>1, <2>2, IdleCounts DEF Counted
<1>8. \A i \in Edits : files[i].stage \notin File!InstStages /\ files[i].stage # "www"
  BY <1>3 DEF File!InstStages
<1> QED BY <1>1, <1>2, <1>4, <1>5, <1>6, <1>7, <1>8, WwwBeginsKeeps

LEMMA TakesChoiceKeeps ==
  ASSUME ZampInv, MainStep, NEW j \in Jobs, Handlers!TakesChoice(j)
  PROVE  ZampInv'
<1>1. /\ toMain # <<>> /\ toMain' = Tail(toMain) /\ job[j].pc = "idle"
      /\ UNCHANGED <<appUp, clicks>>
      /\ Head(toMain).cmd = "select_project"
      /\ currentProject' = Head(toMain).name /\ currentProject' \in Projects
      /\ job' = [job EXCEPT ![j] = Handlers!Await("www", "none")]
  BY DEF Handlers!TakesChoice, Handlers!Selects
<1>2. ~Stores
  BY <1>1 DEF Stores
<1>3. /\ Len(toMain') = Len(toMain) - 1 /\ Len(toMain) \in Nat
      /\ \A i \in 1..Len(toMain') :
           \E k \in 1..Len(toMain) : toMain'[i] = toMain[k]
      /\ 1 \in 1..Len(toMain) /\ Head(toMain) = toMain[1]
  BY <1>1, TailTarget
<1>4. /\ \A p \in Projects \cup {None} :
           Target(p)' => p = currentProject' \/ Target(p)
      /\ calls' = calls + 1 /\ Waiting' = Waiting \ {j}
  BY <1>1, <1>2, <1>3, NewTarget
<1>5. Target(currentProject')
  BY <1>1, <1>3 DEF Target
<1>6. \A i \in Edits : files[i].stage \notin File!InstStages
  BY <1>1, InstEdits
<1>7. \A i \in Edits : files[i].stage = "www" => currentProject' = currentProject
  BY <1>1, <1>5, TargetIsCurrent
<1>8. Down'
  BY <1>1 DEF ZampInv, Down
<1>9. Counted'
  <2>1. j \notin Waiting
    BY <1>1 DEF Waiting, Handlers!WillEdit
  <2>2. Waiting' = Waiting
    BY <1>4, <2>1
  <2>3. /\ calls \in Nat /\ clicks \in Nat /\ IsFiniteSet(Waiting)
        /\ Cardinality(Waiting) \in Nat
    BY FS_CardinalityType
       DEF ZampInv, Types, Counted, Handlers!TypeOK, File!TypeOK
  <2>4. /\ calls + Len(toMain) + Cardinality(Waiting) <= 2 * clicks
        /\ clicks' = clicks
    BY <1>1 DEF ZampInv, Counted
  <2>5. Len(toMain') = Len(toMain) - 1 /\ Len(toMain) \in Nat /\ calls' = calls + 1
    BY <1>3, <1>4
  <2>6. calls' + Len(toMain') + Cardinality(Waiting) <= 2 * clicks'
    BY <2>3, <2>4, <2>5
  <2> QED BY <2>2, <2>3, <2>6 DEF Counted
<1> QED BY <1>1, <1>2, <1>4, <1>5, <1>6, <1>7, <1>8, <1>9, WwwBeginsKeeps

LEMMA TurnsToKeeps ==
  ASSUME ZampInv, MainStep, NEW j \in Jobs, Handlers!TurnsTo(j) PROVE ZampInv'
<1>1. /\ UNCHANGED <<toMain, appUp, clicks>>
      /\ job[j].pc \in {"list", "kill"} /\ Handlers!Switching(job[j])
      /\ currentProject' = job[j].name /\ currentProject' \in Projects
      /\ job' = [job EXCEPT ![j] = Handlers!Await("www", "restart")]
  BY DEF Handlers!TurnsTo, Handlers!Switching
<1>2. /\ \A p \in Projects \cup {None} :
           Target(p)' => p = currentProject' \/ Target(p)
      /\ calls' = calls + 1 /\ Waiting' = Waiting \ {j}
  BY <1>1, NewTarget
<1>3. Target(currentProject')
  BY <1>1 DEF Target
<1>4. \A i \in Edits : files[i].stage \notin File!InstStages
  BY <1>1, InstEdits
<1>5. \A i \in Edits : files[i].stage = "www" => currentProject' = currentProject
  BY <1>1, <1>3, TargetIsCurrent
<1>6. Down'
  BY <1>1 DEF ZampInv, Down
<1>7. Counted'
  <2>1. j \in Waiting
    BY <1>1 DEF Waiting, Handlers!WillEdit, Handlers!Switching
  <2>2. /\ calls \in Nat /\ clicks \in Nat /\ IsFiniteSet(Waiting)
        /\ Len(toMain) \in Nat
    BY DEF ZampInv, Types, Counted, Handlers!TypeOK, File!TypeOK
  <2>3. /\ IsFiniteSet(Waiting') /\ Cardinality(Waiting) \in Nat
        /\ Cardinality(Waiting') = Cardinality(Waiting) - 1
    BY <1>2, <2>1, <2>2, WaitingWithout
  <2> QED BY <1>1, <1>2, <2>2, <2>3 DEF ZampInv, Counted
<1> QED BY <1>1, <1>2, <1>3, <1>4, <1>5, <1>6, <1>7, WwwBeginsKeeps

LEMMA ChangesVersionKeeps ==
  ASSUME ZampInv, MainStep, NEW j \in Jobs, Handlers!ChangesVersion(j)
  PROVE  ZampInv'
<1> DEFINE d == Handlers!Await("inst", "none")
<1>1. /\ UNCHANGED <<toMain, currentProject, appUp, clicks>> /\ toMain = <<>>
      /\ Handlers!WillEdit(job[j]) /\ job[j].pc \in {"list", "kill"}
      /\ \A k \in Jobs \ {j} : job[k].pc = "idle"
      /\ job' = [job EXCEPT ![j] = d]
  BY DEF Handlers!ChangesVersion, Handlers!WillEdit
<1>2. d.pc = "inst" /\ d.then = "none"
  BY DEF Handlers!Await
<1> HIDE DEF d
<1>3. InstBegins(j)
  BY <1>1, <1>2, OneBegins
<1>4. PICK i \in Edits, v \in Versions :
        /\ files' = [files EXCEPT ![i] = File!Instantiate(v, FALSE, FALSE)]
        /\ awaits' = [awaits EXCEPT ![j] = i]
        /\ selected' = v /\ applied' = v
  BY <1>3 DEF InstBegins
<1>5. calls' = calls + 1 /\ UNCHANGED <<exists, conf>>
  BY <1>3, MainIsMain DEF InstBegins, Main
<1>6. /\ Handlers!TypeOK /\ File!TypeOK /\ Coupled /\ File!FileInv
  BY DEF ZampInv, Types
<1>7. \A k \in Edits : files[k].stage = "idle"
  <2>1. \A k \in Jobs : awaits[k] = 0
    BY <1>1, <1>6 DEF Coupled
  <2> QED BY <1>6, <2>1, ZampAssumption DEF Coupled
<1> DEFINE c == File!Instantiate(v, FALSE, FALSE)
<1>8. /\ c.stage = "root" /\ c.load = FALSE /\ File!Fits(c) /\ c \in File!Job
  BY Assumed, File!CallType DEF File!Instantiate, File!Call, File!Fits
<1>9. /\ \A k \in Edits : files'[k] = IF k = i THEN c ELSE files[k]
      /\ \A k \in Jobs : job'[k] = IF k = j THEN d ELSE job[k]
      /\ awaits'[j] = i
  BY <1>1, <1>4, <1>6 DEF Handlers!TypeOK, File!TypeOK, Coupled
<1>10. files'[i] = c /\ \A k \in Edits \ {i} : files'[k].stage = "idle"
  BY <1>7, <1>9
<1>11. File!FileInv'
  BY <1>1, <1>4, <1>5, <1>6, <1>7, <1>10, Assumed, File!InstantiateKeeps
<1>12. Coupled'
  <2>1. files' = [files EXCEPT ![i] = c]
    BY <1>4
  <2> HIDE DEF c
  <2> QED BY <1>1, <1>2, <1>4, <1>6, <1>7, <1>8, <2>1, CoupledBegins
<1>13. /\ files' \in [Edits -> File!Job]
       /\ \A k \in Edits : File!Fits(files'[k])
  <2>1. files' = [files EXCEPT ![i] = c]
    BY <1>4
  <2> HIDE DEF c
  <2> QED BY <1>6, <1>8, <2>1 DEF File!TypeOK, File!Fits
<1> HIDE DEF c
<1>14. InstAlone'
  BY <1>1, <1>2, <1>8, <1>9 DEF InstAlone
<1>15. OneTarget'
  <2>1. ASSUME NEW p \in Projects \cup {None} PROVE ~Target(p)'
    BY <1>1, <1>2, <1>8, <1>9, <1>10 DEF Target, Handlers!Switching
  <2> QED BY <2>1 DEF OneTarget
<1>16. Down'
  BY <1>1 DEF ZampInv, Down
<1>17. Counted'
  <2>1. j \in Waiting /\ Waiting' = Waiting \ {j}
    BY <1>1, <1>2, <1>9 DEF Waiting, Handlers!WillEdit
  <2>2. /\ calls \in Nat /\ clicks \in Nat /\ IsFiniteSet(Waiting)
        /\ Len(toMain) \in Nat
        /\ calls + Len(toMain) + Cardinality(Waiting) <= 2 * clicks
    BY <1>6 DEF ZampInv, Counted, Handlers!TypeOK, File!TypeOK
  <2>3. /\ IsFiniteSet(Waiting') /\ Cardinality(Waiting) \in Nat
        /\ Cardinality(Waiting') = Cardinality(Waiting) - 1
    BY <2>1, <2>2, WaitingWithout
  <2>4. toMain' = toMain /\ clicks' = clicks
    BY <1>1
  <2> QED BY <1>5, <2>2, <2>3, <2>4 DEF Counted
<1>18. {selected', applied'} \subseteq Versions /\ calls' \in Nat
  BY <1>4, <1>5, <1>6 DEF File!TypeOK
<1> QED BY <1>11, <1>12, <1>13, <1>14, <1>15, <1>16, <1>17, <1>18, Assemble

LEMMA MainKeeps == ASSUME ZampInv, MainStep PROVE ZampInv'
BY MainIsMain, MainKinds, RestsKeeps, SendsKeeps, DropsKeeps, LeavesKeeps,
   ChoosesKeeps, TakesKeeps, TakesChoiceKeeps, GoesOnKeeps, TurnsToKeeps,
   ChangesVersionKeeps

-----------------------------------------------------------------------------
(* The steps of an edit.                                                   *)

LEMMA EditKinds ==
  ASSUME ZampInv, NEW i \in Edits, Conf!JobStep(i)
  PROVE  /\ File!TypeOK' /\ File!FileInv' /\ calls' = calls
         /\ files[i].stage # "idle"
         /\ Ends(i) => File!Returns(i)
         /\ ~Ends(i) => File!GoesOn(i)
<1>1. /\ File!JobStep(i) /\ File!TypeOK' /\ File!FileInv'
  BY FileKeeps
<1>2. File!TypeOK /\ File!FileInv
  BY DEF ZampInv, Types
<1>3. /\ files[i].stage # "idle" /\ calls' = calls
      /\ File!GoesOn(i) \/ File!Returns(i)
  BY <1>1, <1>2, Assumed, File!JobStepKinds DEF File!Simple
<1>4. File!GoesOn(i) => ~Ends(i)
  BY <1>2 DEF File!GoesOn, Ends, File!TypeOK
<1>5. ASSUME File!Returns(i) PROVE Ends(i)
  <2>1. /\ File!Idle.stage = "idle"
        /\ File!ChangeWww(currentProject).stage = "www"
    BY DEF File!Idle, File!ChangeWww, File!Call
  <2>2. File!Returned(files[i]).stage \in {"idle", "www"}
    BY <2>1 DEF File!Returned
  <2> QED BY <1>2, <1>5, <2>1, <2>2
          DEF File!Returns, Ends, File!TypeOK, File!InstStages
<1> QED BY <1>1, <1>3, <1>4, <1>5

LEMMA EditStepKeeps ==
  ASSUME ZampInv, NEW i \in Edits, EditStep(i) PROVE ZampInv'
<1>1. /\ Conf!JobStep(i) /\ ~Ends(i)
      /\ UNCHANGED <<serverVars, awaits, reads, dropped>>
  BY DEF EditStep
<1>2. /\ File!TypeOK' /\ File!FileInv' /\ calls' = calls
      /\ files[i].stage # "idle" /\ File!GoesOn(i)
  BY <1>1, EditKinds
<1>3. PICK c : /\ files' = [files EXCEPT ![i] = c]
               /\ c.stage # "idle" /\ (c.stage = "www" <=> files[i].stage = "www")
               /\ c.arg = files[i].arg /\ c.load = files[i].load
  BY <1>2 DEF File!GoesOn
<1>4. \A k \in Edits : files'[k] = IF k = i THEN c ELSE files[k]
  BY <1>3 DEF ZampInv, Types, File!TypeOK
<1>5. /\ Handlers!TypeOK' /\ Handlers!SelInv' /\ Handlers!PatientInv'
  <2>1. UNCHANGED Handlers!vars
    BY <1>1 DEF serverVars, Handlers!vars, Handlers!ui
  <2>2. Handlers!TypeOK /\ Handlers!SelInv /\ Handlers!PatientInv
    BY DEF ZampInv, Types
  <2> QED BY <2>1, <2>2, Assumed, Handlers!NextType, Handlers!SelInvNext,
             Handlers!NextKeeps
<1>6. Coupled'
  BY <1>1, <1>2, <1>3, <1>4 DEF ZampInv, Types, Coupled, serverVars
<1>7. InstAlone'
  <2>1. \A j \in Jobs : job[j].pc = "inst" => awaits[j] \in Edits
    BY InstAwaits
  <2> QED BY <1>1, <1>3, <1>4, <2>1 DEF ZampInv, InstAlone, serverVars
<1>8. OneTarget'
  <2>1. ASSUME NEW p \in Projects \cup {None}, Target(p)' PROVE Target(p)
    BY <1>1, <1>3, <1>4, <2>1 DEF Target, serverVars, Handlers!Switching
  <2> QED BY <2>1, NoNewTarget DEF ZampInv
<1>9. Down'
  BY <1>1 DEF ZampInv, Down, serverVars
<1>10. Counted'
  <2>1. Waiting' = Waiting
    BY <1>1 DEF Waiting, serverVars
  <2> QED BY <1>1, <1>2, <2>1 DEF ZampInv, Counted, serverVars
<1> QED BY <1>1, <1>2, <1>5, <1>6, <1>7, <1>8, <1>9, <1>10 DEF ZampInv, Types

LEMMA EditReturnsKeeps ==
  ASSUME ZampInv, NEW i \in Edits, EditReturns(i) PROVE ZampInv'
<1>1. /\ Conf!JobStep(i) /\ Ends(i) /\ UNCHANGED <<reads, dropped>>
  BY DEF EditReturns
<1>2. PICK j \in Jobs :
        /\ awaits[j] = i
        /\ Server!WwwDone(j) \/ Server!InstDone(j)
        /\ awaits' = IF job'[j].pc = "www" THEN awaits
                                           ELSE [awaits EXCEPT ![j] = 0]
  BY DEF EditReturns
<1>3. Handlers!Next /\ (Handlers!WwwDone(j) \/ Handlers!InstDone(j))
  BY <1>2, StepIsNext
<1>4. /\ Handlers!TypeOK' /\ Handlers!SelInv' /\ Handlers!PatientInv'
  BY <1>3, HandlersKeep
<1>5. /\ File!TypeOK' /\ File!FileInv' /\ calls' = calls
      /\ files[i].stage # "idle" /\ File!Returns(i)
  BY <1>1, EditKinds
<1>6. /\ Handlers!TypeOK /\ Handlers!SelInv /\ File!TypeOK /\ Coupled
  BY DEF ZampInv, Types
<1>7. files[i].stage = "www" <=> job[j].pc = "www"
  BY <1>2, ZampAssumption DEF ZampInv, Types, Coupled
\* What the return of either function has in common.
<1>8. ASSUME NEW d, job' = [job EXCEPT ![j] = d],
             NEW c, files' = [files EXCEPT ![i] = c],
             \/ d.pc \in {"idle", "check"} /\ c.stage = "idle"
             \/ /\ d.pc = "www" /\ c.stage = "www" /\ c.arg = currentProject
                /\ job[j].pc = "inst",
             UNCHANGED <<toMain, currentProject, appUp, clicks>>,
             job[j].pc \in {"www", "inst"}
      PROVE  Coupled' /\ InstAlone' /\ OneTarget' /\ Down' /\ Counted'
  <2>1. /\ \A k \in Jobs : job'[k] = IF k = j THEN d ELSE job[k]
        /\ \A k \in Edits : files'[k] = IF k = i THEN c ELSE files[k]
    BY <1>6, <1>8 DEF Handlers!TypeOK, File!TypeOK
  <2>2. Coupled'
    <3>1. \/ /\ d.pc \notin {"www", "inst"} /\ c.stage = "idle"
             /\ awaits' = [awaits EXCEPT ![j] = 0]
          \/ d.pc = "www" /\ c.stage = "www" /\ awaits' = awaits
      BY <1>2, <1>8, <2>1
    <3> QED BY <1>2, <1>6, <1>8, <3>1, CoupledReturns
  <2>3. InstAlone'
    <3>1. \A k \in Jobs : job'[k].pc # "inst"
      BY <1>8, <2>1 DEF ZampInv, InstAlone
    <3> QED BY <3>1 DEF InstAlone
  <2>4. OneTarget'
    <3>1. CASE c.stage = "idle"
      <4>1. ASSUME NEW p \in Projects \cup {None}, Target(p)' PROVE Target(p)
        BY <1>8, <2>1, <3>1, <4>1 DEF Target, Handlers!Switching
      <4> QED BY <4>1, NoNewTarget DEF ZampInv
    <3>2. CASE job[j].pc = "inst" /\ c.arg = currentProject /\ d.pc = "www"
      <4>1. /\ toMain = <<>> /\ \A k \in Jobs \ {j} : job[k].pc = "idle"
        BY <3>2 DEF ZampInv, InstAlone
      <4>2. \A k \in Edits \ {i} : files[k].stage = "idle"
        BY <1>2, <1>6, <4>1, ZampAssumption DEF Coupled
      <4>3. ASSUME NEW p \in Projects \cup {None}, Target(p)'
            PROVE  p = currentProject
        BY <1>8, <2>1, <3>2, <4>1, <4>2, <4>3 DEF Target, Handlers!Switching
      <4> QED BY <4>3 DEF OneTarget
    <3> QED BY <1>8, <3>1, <3>2
  <2>5. Down'
    BY <1>8, <2>1 DEF ZampInv, Down
  <2>6. Counted'
    <3>1. Waiting' = Waiting
      BY <1>8, <2>1 DEF Waiting, Handlers!WillEdit
    <3> QED BY <1>5, <1>8, <3>1 DEF ZampInv, Counted
  <2> QED BY <2>2, <2>3, <2>4, <2>5, <2>6
<1>9. File!Idle.stage = "idle"
  BY DEF File!Idle, File!Call
<1>10. CASE Handlers!WwwDone(j)
  <2>1. /\ UNCHANGED <<toMain, currentProject, appUp, clicks>>
        /\ job[j].pc = "www"
        /\ \E d : job' = [job EXCEPT ![j] = d] /\ d.pc \in {"idle", "check"}
    BY <1>6, <1>10, Assumed, Handlers!WwwReturns
  <2>2. files' = [files EXCEPT ![i] = File!Idle]
    BY <1>5, <1>7, <2>1 DEF File!Returns, File!InstStages
  <2> QED BY <1>1, <1>4, <1>5, <1>8, <1>9, <2>1, <2>2 DEF ZampInv, Types
<1>11. CASE Handlers!InstDone(j)
  <2> DEFINE d == IF job[j].then = "startup" /\ currentProject # None
                  THEN Handlers!Await("www", "none") ELSE Handlers!Idle
             c == File!Returned(files[i])
  <2>1. /\ UNCHANGED <<toMain, currentProject, appUp, clicks>>
        /\ job[j].pc = "inst" /\ job' = [job EXCEPT ![j] = d]
    BY <1>6, <1>11, Assumed, Handlers!InstReturns
  <2>2. files' = [files EXCEPT ![i] = c]
    BY <1>5, <1>7, <2>1 DEF File!Returns
  <2>3. files[i].load <=> job[j].then = "startup"
    BY <1>2, <2>1 DEF ZampInv, InstAlone
  <2>4. \/ d.pc \in {"idle", "check"} /\ c.stage = "idle"
        \/ d.pc = "www" /\ c.stage = "www" /\ c.arg = currentProject
    BY <2>3 DEF File!Returned, File!Idle, File!ChangeWww, File!Call,
                Handlers!Await, Handlers!Idle
  <2> HIDE DEF c, d
  <2> QED BY <1>1, <1>4, <1>5, <1>8, <2>1, <2>2, <2>4 DEF ZampInv, Types
<1> QED BY <1>3, <1>10, <1>11

-----------------------------------------------------------------------------
(* Launches.                                                               *)

\* What startApp leaves in flight: one call, that awaits the first edit.
Launched ==
  /\ toMain = <<>> /\ appUp
  /\ \E j \in Jobs :
       /\ job[j].pc = "inst" /\ job[j].then = "startup" /\ awaits[j] = 1
       /\ \A k \in Jobs \ {j} : job[k].pc = "idle" /\ awaits[k] = 0
  /\ files[1].load /\ files[1].stage = "root"
  /\ \A i \in Edits \ {1} : files[i].stage = "idle"
  /\ awaits \in [Jobs -> Edits \cup {0}]

Agreed == Coupled /\ InstAlone /\ OneTarget /\ Down /\ Waiting = {}

LEMMA LaunchedAgrees == Launched => Agreed
<1> SUFFICES ASSUME Launched PROVE Agreed
  OBVIOUS
<1>1. PICK j \in Jobs :
        /\ job[j].pc = "inst" /\ job[j].then = "startup" /\ awaits[j] = 1
        /\ \A k \in Jobs \ {j} : job[k].pc = "idle" /\ awaits[k] = 0
  BY DEF Launched
<1>2. Coupled
  <2>1. \A k \in Jobs :
          /\ awaits[k] # 0 <=> job[k].pc \in {"www", "inst"}
          /\ awaits[k] # 0 =>
               /\ files[awaits[k]].stage # "idle"
               /\ files[awaits[k]].stage = "www" <=> job[k].pc = "www"
    BY <1>1 DEF Launched
  <2>2. ASSUME NEW i \in Edits, files[i].stage # "idle"
        PROVE  \E k \in Jobs : /\ awaits[k] = i
                               /\ \A l \in Jobs \ {k} : awaits[l] # i
    <3>1. i = 1 /\ \A l \in Jobs \ {j} : awaits[l] # i
      BY <1>1, <2>2 DEF Launched
    <3> QED BY <1>1, <3>1
  <2> QED BY <2>1, <2>2 DEF Coupled, Launched
<1>3. InstAlone
  BY <1>1 DEF Launched, InstAlone
<1>4. OneTarget
  <2>1. \A p \in Projects \cup {None} : ~Target(p)
    BY <1>1 DEF Launched, Target, Handlers!Switching
  <2> QED BY <2>1 DEF OneTarget
<1>5. Down /\ Waiting = {}
  BY <1>1 DEF Launched, Down, Waiting, Handlers!WillEdit
<1> QED BY <1>2, <1>3, <1>4, <1>5 DEF Agreed

\* The edit is that of the first slot.
LEMMA FirstSlot ==
  ASSUME NEW f \in File!Startup
  PROVE  /\ f[1] = File!Instantiate(selected, FALSE, TRUE)
         /\ f[1].stage = "root" /\ f[1].load
         /\ \A i \in Edits \ {1} : f[i].stage = "idle"
<1>1. PICK a \in Edits :
        /\ \A k \in Edits : a <= k
        /\ f = [i \in Edits |->
                  IF i = a THEN File!Instantiate(selected, FALSE, TRUE)
                           ELSE File!Idle]
  BY DEF File!Startup
<1>2. a = 1
  <2>1. a <= 1 /\ a \in Nat /\ a # 0
    BY <1>1, ZampAssumption
  <2> QED BY <2>1
<1>3. /\ File!Instantiate(selected, FALSE, TRUE).stage = "root"
      /\ File!Instantiate(selected, FALSE, TRUE).load = TRUE
      /\ File!Idle.stage = "idle"
  BY DEF File!Instantiate, File!Idle, File!Call
<1> QED BY <1>1, <1>2, <1>3, ZampAssumption

LEMMA InitZamp == Init => ZampInv
<1> SUFFICES ASSUME Init PROVE ZampInv
  OBVIOUS
<1>1. Handlers!Init /\ File!Init
  BY SameInit, SameFileInit DEF Init
<1>2. /\ Handlers!TypeOK /\ Handlers!SelInv /\ Handlers!PatientInv
  BY <1>1, Assumed, Handlers!InitType, Handlers!SelInvInit, Handlers!InitKeeps
<1>3. File!TypeOK
  BY <1>1, Assumed, File!InitType
<1>4. File!FileInv
  <2>1. \A t \in AtLaunch : File!Base(t)
    BY AtLaunchAssumption DEF File!Base
  <2> QED BY <1>1, <2>1, Assumed, ZampAssumption, File!FileInvInit
<1>5. Launched
  <2>1. PICK j \in Jobs :
          job = [i \in Jobs |-> IF i = j THEN Handlers!Await("inst", "startup")
                                         ELSE Handlers!Idle]
    BY <1>1 DEF Handlers!Init
  <2>2. /\ \A k \in Jobs : job[k].pc = IF k = j THEN "inst" ELSE "idle"
        /\ job[j].then = "startup"
    BY <2>1 DEF Handlers!Await, Handlers!Idle
  <2>3. awaits = [k \in Jobs |-> IF job[k].pc = "inst" THEN 1 ELSE 0]
    BY DEF Init
  <2>4. toMain = <<>> /\ appUp /\ files \in File!Startup
    BY <1>1 DEF Handlers!Init, File!Init
  <2>5. /\ files[1].stage = "root" /\ files[1].load
        /\ \A i \in Edits \ {1} : files[i].stage = "idle"
    BY <2>4, FirstSlot
  <2> QED BY <2>2, <2>3, <2>4, <2>5, ZampAssumption DEF Launched
<1>6. Counted
  <2>1. calls = 0 /\ clicks = 0 /\ toMain = <<>>
    BY <1>1 DEF Handlers!Init, File!Init
  <2>2. IsFiniteSet(Waiting) /\ Cardinality(Waiting) = 0
    BY <1>5, LaunchedAgrees, FS_EmptySet DEF Agreed
  <2> QED BY <2>1, <2>2 DEF Counted
<1>7. reads \in [Pids -> File!Text] /\ dropped \subseteq Pids
  BY SameFile, Assumed, File!EmptyType DEF Init
<1> QED BY <1>2, <1>3, <1>4, <1>5, <1>6, <1>7, LaunchedAgrees
        DEF ZampInv, Types, Agreed

LEMMA RelaunchKeeps == ASSUME ZampInv, Relaunch PROVE ZampInv'
<1>1. /\ ~appUp /\ clicks < MaxClicks /\ clicks' = clicks + 1 /\ StartApp
      /\ UNCHANGED <<projects, httpd, reads, dropped>> /\ File!Relaunch
  BY SameFileRelaunch DEF Relaunch
<1>2. /\ Handlers!TypeOK /\ Handlers!SelInv /\ Handlers!PatientInv
      /\ File!TypeOK /\ File!FileInv
  BY DEF ZampInv, Types
<1>3. toMain = <<>> /\ \A j \in Jobs : job[j].pc = "idle"
  BY <1>1 DEF ZampInv, Down
<1>4. Handlers!Idles
  BY <1>3 DEF Handlers!Idles
<1>5. /\ files' \in File!Startup /\ applied' = selected /\ calls' = calls + 1
      /\ UNCHANGED <<exists, conf, currentProject, selected>>
  BY <1>1 DEF File!Relaunch, File!UserActs, File!Counted
<1>6. /\ files'[1] = File!Instantiate(selected, FALSE, TRUE)
      /\ files'[1].stage = "root" /\ files'[1].load
      /\ \A i \in Edits \ {1} : files'[i].stage = "idle"
  BY <1>5, FirstSlot
<1>7. File!TypeOK'
  BY <1>1, <1>2, Assumed, File!CallersType
<1>8. File!FileInv'
  <2>1. selected \in Versions /\ 1 \in Edits /\ applied' = selected
    BY <1>2, <1>5, ZampAssumption DEF File!TypeOK
  <2> QED BY <1>2, <1>4, <1>5, <1>6, <2>1, IdleCounts, Assumed,
             File!InstantiateKeeps
<1>9. /\ serverRunning' = FALSE /\ toMain' = <<>> /\ toUI' = <<>>
      /\ btn' = "Start" /\ popup' = FALSE /\ appUp' = TRUE
  BY <1>1 DEF StartApp
<1>10. PICK j \in Jobs :
         /\ job' = [i \in Jobs |-> IF i = j THEN Server!Await("inst", "startup")
                                            ELSE Server!Idle]
         /\ awaits' = [i \in Jobs |-> IF i = j THEN 1 ELSE 0]
  BY <1>1 DEF StartApp
<1> DEFINE d == Handlers!Await("inst", "startup")
<1>11. /\ d \in Handlers!Job /\ d.pc = "inst" /\ d.then = "startup"
       /\ Handlers!Idle \in Handlers!Job /\ Handlers!Idle.pc = "idle"
  BY ZampAssumption
     DEF Handlers!Await, Handlers!Idle, Handlers!Job, Handlers!Pc, Handlers!Then
<1>12. job' = [i \in Jobs |-> IF i = j THEN d ELSE Handlers!Idle]
  BY <1>10, SameState
<1> HIDE DEF d
<1>13. Launched'
  BY <1>6, <1>9, <1>10, <1>11, <1>12, ZampAssumption DEF Launched
<1>14. Handlers!TypeOK'
  <2>1. job' \in [Jobs -> Handlers!Job]
    BY <1>11, <1>12
  <2>2. clicks' \in 0..MaxClicks
    BY <1>1, <1>2, ZampAssumption DEF Handlers!TypeOK
  <2>3. \A S : <<>> \in Seq(S)
    OBVIOUS
  <2>4. toMain' \in Seq(Handlers!Command) /\ toUI' \in Seq(Handlers!Message)
    BY <1>9, <2>3, Zenon
  <2> QED BY <1>1, <1>2, <1>5, <1>9, <2>1, <2>2, <2>4 DEF Handlers!TypeOK
<1>15. Handlers!SelInv'
  BY <1>1, <1>2, <1>5, <1>9, <1>11, <1>12
     DEF Handlers!SelInv, Handlers!SelectionSound, Handlers!PendingListed,
         Handlers!SwitchListed
<1>16. Handlers!PatientInv'
  <2>1. Handlers!Alive' = Handlers!Alive /\ Handlers!Ours' = Handlers!Ours
    BY <1>1 DEF Handlers!Alive, Handlers!Ours
  <2>2. Handlers!Ours = {}
    BY <1>1, <1>2 DEF Handlers!PatientInv, Handlers!CleanExit
  <2>3. \A k \in Jobs : job'[k].pc \in {"inst", "idle"}
    BY <1>11, <1>12
  <2>4. \A k \in Jobs : ~Handlers!Ends(job'[k]) /\ ~Handlers!Restarts(job'[k])
    BY <2>3 DEF Handlers!Ends, Handlers!Restarts
  <2>5. Handlers!Hosts'
    BY <1>1, <1>2, <2>1, <2>2, <2>3
       DEF Handlers!PatientInv, Handlers!Hosts, Handlers!OrphansListed
  <2>6. /\ Handlers!Alone' /\ Handlers!Single' /\ Handlers!Marked'
        /\ Handlers!CleanExit'
    BY <1>9, <2>1, <2>2, <2>4
       DEF Handlers!Alone, Handlers!Single, Handlers!Marked, Handlers!CleanExit
  <2>7. Handlers!Truth'
    BY <1>9, <2>1, <2>2 DEF Handlers!Truth, Handlers!Told
  <2> QED BY <2>5, <2>6, <2>7 DEF Handlers!PatientInv
<1>17. Coupled' /\ InstAlone' /\ OneTarget' /\ Down' /\ Waiting' = {}
  <2>1. Agreed'
    BY <1>13, LaunchedAgrees, PTL
  <2> QED BY <2>1 DEF Agreed
<1>18. Counted'
  <2>1. IsFiniteSet(Waiting') /\ Cardinality(Waiting') = 0
    BY <1>17, FS_EmptySet
  <2>2. calls \in Nat /\ clicks \in Nat /\ calls <= 2 * clicks
    BY <1>4, IdleCounts
  <2> QED BY <1>1, <1>5, <1>9, <2>1, <2>2 DEF Counted
<1> QED BY <1>1, <1>7, <1>8, <1>14, <1>15, <1>16, <1>17, <1>18 DEF ZampInv,
           Types

LEMMA StutterKeeps == ASSUME ZampInv, UNCHANGED vars PROVE ZampInv'
<1>1. /\ UNCHANGED Handlers!vars
      /\ UNCHANGED <<fileVars, awaits, reads, dropped>>
  BY DEF vars, serverVars, Handlers!vars, Handlers!ui
<1>2. Handlers!TypeOK' /\ Handlers!SelInv' /\ Handlers!PatientInv'
  BY <1>1, Assumed, Handlers!NextType, Handlers!SelInvNext, Handlers!NextKeeps
     DEF ZampInv, Types
<1>3. File!FileInv'
  BY Assumed, File!FileStays DEF ZampInv, vars, serverVars, fileVars
<1>4. File!TypeOK'
  BY DEF ZampInv, Types, vars, serverVars, fileVars, File!TypeOK
<1>5. Coupled' /\ reads' \in [Pids -> File!Text] /\ dropped' \subseteq Pids
  BY DEF ZampInv, Types, Coupled, vars, serverVars, fileVars
<1>6. InstAlone' /\ Down' /\ OneTarget'
  BY NoNewTarget
     DEF ZampInv, InstAlone, Down, Target, vars, serverVars, fileVars
<1>7. Counted'
  BY DEF ZampInv, Counted, Waiting, vars, serverVars, fileVars
<1> QED BY <1>2, <1>3, <1>4, <1>5, <1>6, <1>7 DEF ZampInv, Types

\* The parts and how they agree: the inductive invariant of the whole.
THEOREM PartsAgree == Spec => []ZampInv
<1>1. ZampInv /\ [Next]_vars => ZampInv'
  BY MainKeeps, EditStepKeeps, EditReturnsKeeps, RelaunchKeeps, StutterKeeps
     DEF Next
<1> QED BY <1>1, InitZamp, PTL DEF Spec

\* Every variable has its type, and a call awaits an edit exactly when it is
\* at one, for any number of slots, clicks, projects and versions.
THEOREM TypeCorrect == Spec => []TypeOK
<1>1. ZampInv => TypeOK
  BY TypesAreTypeOK DEF ZampInv
<1> QED BY <1>1, PartsAgree, PTL

\* Whenever no edit is in flight httpd.conf serves what is selected, over any
\* number of launches, switches and changes of version.
THEOREM FileServesSelection == Spec => []SelectionServed
<1>1. ZampInv => SelectionServed
  BY SameFile, Assumed, File!QuietServes DEF ZampInv, Types, SelectionServed
<1> QED BY <1>1, PartsAgree, PTL

-----------------------------------------------------------------------------
(* What main.js does to httpd.conf is what HttpdConf assumes of its callers*)

\* When a step of main.js changes the selection without an edit.
LEMMA SelectionKinds ==
  ASSUME ZampInv, Main
  PROVE  /\ (\E j \in Jobs : Begins(j, "inst")) => UNCHANGED currentProject
         /\ Stores => UNCHANGED currentProject
         /\ (\A j \in Jobs : ~Begins(j, "www")) =>
              UNCHANGED currentProject \/ currentProject' = None
<1>1. \/ Handlers!Rests \/ Handlers!Sends \/ Handlers!Drops \/ Handlers!Leaves
      \/ \E j \in Jobs :
           \/ Handlers!Chooses(j) \/ Handlers!Takes(j)
           \/ Handlers!TakesChoice(j) \/ Handlers!GoesOn(j)
           \/ Handlers!TurnsTo(j) \/ Handlers!ChangesVersion(j)
  BY MainKinds
<1>2. /\ job \in [Jobs -> Handlers!Job] /\ toMain \in Seq(Handlers!Command)
      /\ \A pc, then : Handlers!Await(pc, then).pc = pc
  BY DEF ZampInv, Types, Handlers!TypeOK, Handlers!Await
<1>3. CASE Handlers!Drops
  BY <1>3 DEF Handlers!Drops, Handlers!UserWaits, Handlers!Idles, Begins, Stores
<1>4. ASSUME NEW j \in Jobs, NEW then, job[j].pc \notin {"www", "inst"},
             job' = [job EXCEPT ![j] = Handlers!Await("www", then)]
      PROVE  Begins(j, "www") /\ \A k \in Jobs : ~Begins(k, "inst")
  <2>1. \A k \in Jobs : job'[k] = IF k = j THEN Handlers!Await("www", then)
                                           ELSE job[k]
    BY <1>2, <1>4
  <2> QED BY <1>2, <1>4, <2>1 DEF Begins
<1>5. ASSUME NEW j \in Jobs, Handlers!Chooses(j)
      PROVE  Begins(j, "www") /\ (\A k \in Jobs : ~Begins(k, "inst")) /\ ~Stores
  <2>1. job[j].pc = "idle" /\ toMain = <<>>
    BY <1>5 DEF Handlers!Chooses, Handlers!UserWaits, Handlers!Idles
  <2>2. job' = [job EXCEPT ![j] = Handlers!Await("www", "none")]
    BY <1>5 DEF Handlers!Chooses
  <2> QED BY <1>4, <2>1, <2>2 DEF Stores
<1>6. ASSUME NEW j \in Jobs, Handlers!TakesChoice(j)
      PROVE  Begins(j, "www") /\ (\A k \in Jobs : ~Begins(k, "inst")) /\ ~Stores
  <2>1. job[j].pc = "idle" /\ Head(toMain).cmd = "select_project"
    BY <1>6 DEF Handlers!TakesChoice, Handlers!Selects
  <2>2. job' = [job EXCEPT ![j] = Handlers!Await("www", "none")]
    BY <1>6 DEF Handlers!TakesChoice
  <2> QED BY <1>4, <2>1, <2>2 DEF Stores
<1>7. ASSUME NEW j \in Jobs, Handlers!TurnsTo(j)
      PROVE  Begins(j, "www") /\ (\A k \in Jobs : ~Begins(k, "inst")) /\ ~Stores
  <2>1. job[j].pc \in {"list", "kill"} /\ UNCHANGED toMain
    BY <1>7 DEF Handlers!TurnsTo, Handlers!Switching
  <2>2. job' = [job EXCEPT ![j] = Handlers!Await("www", "restart")]
    BY <1>7 DEF Handlers!TurnsTo
  <2>3. ~Stores
    BY <1>2, <2>1 DEF Stores
  <2> QED BY <1>4, <2>1, <2>2, <2>3
<1>8. CASE \/ Handlers!Rests \/ Handlers!Sends \/ Handlers!Leaves
           \/ \E j \in Jobs : \/ Handlers!Takes(j) \/ Handlers!GoesOn(j)
                              \/ Handlers!ChangesVersion(j)
  <2>1. UNCHANGED currentProject
    BY <1>8 DEF Handlers!Rests, Handlers!Sends, Handlers!Leaves, Handlers!Takes,
                Handlers!GoesOn, Handlers!ChangesVersion
  <2> QED BY <2>1
<1> QED BY <1>1, <1>3, <1>5, <1>6, <1>7, <1>8

\* A step of main.js is a step of a caller of HttpdConf, or none.
LEMMA MainMaps ==
  ASSUME ZampInv, ZampInv', MainStep
  PROVE  Conf!Next \/ UNCHANGED Conf!vars
<1>1. Main /\ UNCHANGED <<exists, conf>>
  BY MainIsMain DEF Main
<1>2. /\ calls \in Nat /\ calls' <= 2 * MaxClicks
      /\ File!TypeOK /\ File!TypeOK'
  BY ZampAssumption DEF ZampInv, Types, File!TypeOK
<1>3. calls' = calls + 1 => Conf!UserActs
  BY <1>2, ZampAssumption DEF Conf!UserActs, Conf!Counted
<1>4. CASE SelectProject
  <2>1. PICK i \in Edits :
          /\ Conf!FreeSlot(Edits, i)
          /\ files' = [files EXCEPT ![i] = Conf!ChangeWww(currentProject')]
          /\ calls' = calls + 1 /\ UNCHANGED <<selected, applied>>
    BY <1>4 DEF SelectProject, Edit
  <2>2. currentProject' \in Projects
    <3>1. /\ Conf!ChangeWww(currentProject').stage = "www"
          /\ Conf!ChangeWww(currentProject').arg = currentProject'
      BY DEF Conf!ChangeWww, Conf!Call
    <3>2. files'[i] = Conf!ChangeWww(currentProject')
      BY <1>2, <2>1 DEF File!TypeOK
    <3> QED BY <1>2, <3>1, <3>2 DEF File!TypeOK
  <2> QED BY <1>1, <1>3, <2>1, <2>2 DEF Conf!Next, Conf!SelectProject
<1>5. CASE InstantiateVersion
  <2>1. PICK v \in Versions, j \in Jobs :
          /\ Begins(j, "inst") /\ Edit(j, Conf!Instantiate(v, FALSE, FALSE))
          /\ selected' = v /\ applied' = v
    BY <1>5 DEF InstantiateVersion
  <2>2. UNCHANGED currentProject
    BY <1>1, <2>1, SelectionKinds
  <2>3. /\ calls' = calls + 1
        /\ \E i \in Edits :
             /\ Conf!FreeSlot(Edits, i)
             /\ files' = [files EXCEPT ![i] = Conf!Instantiate(v, FALSE, FALSE)]
    BY <2>1 DEF Edit
  <2>4. Conf!ChangePhp
    BY <1>1, <1>3, <2>1, <2>2, <2>3 DEF Conf!ChangePhp
  <2> QED BY <2>4 DEF Conf!Next
<1>6. CASE StoreVersion
  <2>1. /\ selected' \in Versions /\ calls' = calls + 1
        /\ UNCHANGED <<files, applied, currentProject>>
    BY <1>1, <1>6, SelectionKinds DEF StoreVersion
  <2>2. Conf!ChangePhp
    BY <1>1, <1>3, <2>1 DEF Conf!ChangePhp
  <2> QED BY <2>2 DEF Conf!Next
<1>7. CASE OtherStep
  <2>1. /\ UNCHANGED <<files, selected, applied>>
        /\ calls' = IF currentProject' = currentProject THEN calls ELSE calls + 1
        /\ UNCHANGED currentProject \/ currentProject' = None
    BY <1>1, <1>7, SelectionKinds DEF OtherStep
  <2>2. CASE UNCHANGED currentProject
    BY <1>1, <2>1, <2>2 DEF Conf!vars
  <2>3. CASE currentProject' = None /\ currentProject' # currentProject
    BY <1>1, <1>3, <2>1, <2>3 DEF Conf!Next, Conf!Deselect
  <2> QED BY <2>1, <2>2, <2>3
<1> QED BY <1>4, <1>5, <1>6, <1>7 DEF MainStep

\* The composition implements HttpdConf: every selection that changes is
\* followed by its edit, no edit is begun without one, and a launch edits with
\* what was selected.
THEOREM CallersAsAssumed == Spec => EditsAsAssumed
<1>1. Init => Conf!Init
  BY DEF Init
<1>2. ZampInv /\ ZampInv' /\ [Next]_vars => [Conf!Next]_Conf!vars
  <2>1. (\E i \in Edits : EditStep(i) \/ EditReturns(i)) => Conf!Next
    BY DEF EditStep, EditReturns, Conf!Next
  <2>2. Relaunch => Conf!Next
    BY DEF Relaunch, Conf!Next
  <2>3. UNCHANGED vars => UNCHANGED Conf!vars
    BY DEF vars, serverVars, fileVars, Conf!vars
  <2> QED BY <2>1, <2>2, <2>3, MainMaps DEF Next
<1> QED BY <1>1, <1>2, PartsAgree, PTL DEF Spec, EditsAsAssumed, Conf!Spec

-----------------------------------------------------------------------------
(* The server that runs, when what a click sent is taken before anything   *)
(* else goes on.                                                           *)

\* No server of this session is between its spawn and its first request.
Unstarted == \A p \in Handlers!Ours : httpd[p] # "starting"

NoRestart == \A j \in Jobs : ~Handlers!Restarts(job[j])

Editing == \E j \in Jobs : Handlers!AtEdit(job[j])

\* The messages of a click find no server starting; of the calls that end with
\* a start only switches to another project are in flight with them.
Fresh ==
  toMain # <<>> =>
    /\ Unstarted
    /\ \A j \in Jobs : Handlers!Restarts(job[j]) =>
         Handlers!Switching(job[j]) /\ job[j].name # currentProject

\* An edit that no start follows is not in flight together with a start.
Plain(c) == c.pc = "inst" \/ (c.pc = "www" /\ c.then # "restart")

EditsAlone == \A j \in Jobs : Plain(job[j]) => Unstarted /\ NoRestart

\* Without a project no server is started, and one that runs is exempt.
NoneServed ==
  currentProject = None => Handlers!Ours \subseteq dropped /\ NoRestart

\* Call c is going to end process p, or finds it when it lists the processes.
Dooms(c, p) ==
  \/ c.pc \in {"list", "check", "seen"}
  \/ c.pc = "kill" /\ (c.then = "switch" \/ p \in c.todo)
  \/ c.pc = "www" /\ c.then = "restart"

Doomed(p) == \E j \in Jobs : Dooms(job[j], p)

Right(p) ==
  /\ httpd[p] = "up" /\ reads[p].body /\ ~reads[p].junk
  /\ reads[p].doc = currentProject /\ reads[p].dir = currentProject
  /\ reads[p].php = applied

\* A server is about to be ended, or has read what is selected, or is starting
\* while the file is whole.
EachRight ==
  \A p \in Handlers!Ours \ dropped :
    Doomed(p) \/ Right(p) \/ (httpd[p] = "starting" /\ ~Editing)

ServersInv == Fresh /\ EditsAlone /\ NoneServed /\ EachRight

LEMMA ServersServe == ASSUME ServersInv PROVE RightServer
<1>1. Server!Ours = Handlers!Ours /\ (Server!Quiet <=> Handlers!Quiet)
  BY SameState
<1>2. SUFFICES ASSUME Handlers!Quiet, NEW p \in Handlers!Ours \ dropped
               PROVE  Right(p)
  BY <1>1 DEF RightServer, Right
<1>3. \A j \in Jobs : job[j].pc = "idle"
  BY <1>2 DEF Handlers!Quiet
<1>4. ~Doomed(p)
  BY <1>3 DEF Doomed, Dooms
<1>5. httpd[p] # "starting"
  BY <1>2 DEF Handlers!Quiet, Handlers!Ours, Handlers!Alive
<1> QED BY <1>4, <1>5 DEF ServersInv, EachRight

\* Without servers there is nothing to show.
LEMMA NoServers ==
  ASSUME ~(\E p \in Pids : p \in Handlers!Ours'), toMain' = <<>>, NoRestart'
  PROVE  ServersInv'
<1>1. Handlers!Ours' = {}
  BY DEF Handlers!Ours, Handlers!Alive
<1> QED BY <1>1 DEF ServersInv, Fresh, EditsAlone, Unstarted, NoneServed,
           EachRight

\* What a step of main.js does to what the processes have read.
LEMMA ProcessesKeep ==
  ASSUME Main
  PROVE  /\ \A p \in Pids : httpd'[p] = "up" =>
              reads'[p] = IF httpd[p] = "up" THEN reads[p] ELSE conf
         /\ \A p \in Handlers!Ours' : p \in dropped => p \in dropped'
         /\ Handlers!Abandons => /\ \/ currentProject = None
                                    \/ Handlers!Ours' \subseteq dropped'
BY DEF Main, Processes, Handlers!Ours, Handlers!Alive, Server!Alive,
       Handlers!Abandons

LEMMA SameOurs ==
  ASSUME UNCHANGED httpd
  PROVE  /\ Handlers!Ours' = Handlers!Ours
         /\ Unstarted' <=> Unstarted
BY DEF Handlers!Ours, Handlers!Alive, Unstarted

LEMMA AppliedStays ==
  ASSUME MainStep, \A j \in Jobs : ~Begins(j, "inst") PROVE UNCHANGED applied
BY DEF MainStep, SelectProject, InstantiateVersion, StoreVersion, OtherStep

\* A step that takes no message finds none.
LEMMA NonePending ==
  ASSUME Prompt, ZampInv, Main, toMain' = toMain PROVE toMain = <<>>
<1>1. toMain \in Seq(Handlers!Command)
  BY DEF ZampInv, Types, Handlers!TypeOK
<1> QED BY <1>1 DEF Main

\* The processes and the selection are the same.
LEMMA EachRightStays ==
  ASSUME ServersInv, Main, UNCHANGED <<httpd, currentProject, applied>>,
         \A p \in Pids : Doomed(p) => Doomed(p)', Editing' => Editing
  PROVE  EachRight'
<1>1. SUFFICES ASSUME NEW p \in Handlers!Ours' \ dropped'
               PROVE  Doomed(p)' \/ Right(p)' \/ (httpd'[p] = "starting" /\ ~Editing')
  BY DEF EachRight
<1>2. p \in Handlers!Ours \ dropped /\ p \in Pids
  BY <1>1, SameOurs, ProcessesKeep DEF Handlers!Ours, Handlers!Alive
<1>3. Right(p) => Right(p)'
  BY <1>2, ProcessesKeep DEF Right
<1> QED BY <1>2, <1>3 DEF ServersInv, EachRight

\* While no edit is in flight the file is whole.
LEMMA NoEditServes ==
  ASSUME ZampInv, ~Editing, currentProject # None
  PROVE  /\ conf.body /\ ~conf.junk
         /\ conf.doc = currentProject /\ conf.dir = currentProject
         /\ conf.php = applied
<1>1. \A j \in Jobs : job[j].pc \notin {"www", "inst"}
  BY DEF Editing, Handlers!AtEdit
<1>2. \A i \in Edits : files[i].stage = "idle"
  BY <1>1, ZampAssumption DEF ZampInv, Types, Coupled
<1>3. File!SelectionServed
  BY Assumed, File!QuietServes DEF ZampInv, Types
<1> QED BY <1>2, <1>3 DEF File!SelectionServed, File!Quiet, File!Serves

LEMMA RestsServe ==
  ASSUME Prompt, ZampInv, ServersInv, MainStep, Handlers!Rests PROVE ServersInv'
<1>1. /\ UNCHANGED <<job, toMain, currentProject>> /\ Main
      /\ UNCHANGED httpd \/ \E p \in Pids : Handlers!HttpdBinds(p) \/ Handlers!HttpdExits(p)
  BY MainIsMain DEF Handlers!Rests
<1>2. toMain = <<>>
  BY <1>1, NonePending
<1>3. UNCHANGED applied
  BY <1>1, AppliedStays DEF Begins
<1>4. /\ NoRestart' <=> NoRestart
      /\ Editing' <=> Editing
      /\ \A p \in Pids : Doomed(p)' <=> Doomed(p)
  BY <1>1 DEF NoRestart, Handlers!Restarts, Editing, Handlers!AtEdit, Doomed,
     Dooms
<1>5. \A p \in Handlers!Ours' :
        /\ p \in Handlers!Ours
        /\ \/ httpd'[p] = httpd[p]
           \/ httpd[p] = "starting" /\ httpd'[p] = "up"
  BY <1>1
     DEF Handlers!Ours, Handlers!Alive, Handlers!HttpdBinds,
         Handlers!HttpdExits,
         ZampInv, Types, Handlers!TypeOK
<1>6. Unstarted => Unstarted'
  BY <1>5 DEF Unstarted
<1>7. Fresh' /\ EditsAlone'
  BY <1>1, <1>2, <1>4, <1>6 DEF ServersInv, Fresh, EditsAlone, Plain
<1>8. NoneServed'
  BY <1>1, <1>4, <1>5, ProcessesKeep DEF ServersInv, NoneServed
<1>9. EachRight'
  <2>1. SUFFICES ASSUME NEW p \in Handlers!Ours' \ dropped'
                 PROVE  \/ Doomed(p)' \/ Right(p)'
                        \/ httpd'[p] = "starting" /\ ~Editing'
    BY DEF EachRight
  <2>2. p \in Handlers!Ours \ dropped /\ p \in Pids
    BY <1>1, <1>5, <2>1, ProcessesKeep DEF Handlers!Ours, Handlers!Alive
  <2>3. Right(p) => Right(p)'
    BY <1>1, <1>3, <1>5, <2>1, <2>2, ProcessesKeep DEF Right
  <2>4. ASSUME httpd[p] = "starting", ~Editing, httpd'[p] = "up" PROVE Right(p)'
    <3>1. currentProject # None
      BY <2>2 DEF ServersInv, NoneServed
    <3>2. reads'[p] = conf
      BY <1>1, <2>2, <2>4, ProcessesKeep
    <3> QED BY <1>1, <1>3, <2>4, <3>1, <3>2, NoEditServes DEF Right
  <2> QED BY <1>4, <1>5, <2>1, <2>2, <2>3, <2>4 DEF ServersInv, EachRight
<1> QED BY <1>7, <1>8, <1>9 DEF ServersInv

\* A user who waits finds nothing in flight.
LEMMA UserWaitsServe ==
  ASSUME ZampInv, ServersInv, Main, Handlers!UserWaits
  PROVE  /\ toMain = <<>> /\ \A j \in Jobs : job[j].pc = "idle"
         /\ UNCHANGED httpd /\ Unstarted /\ Unstarted' /\ NoRestart
         /\ Handlers!Abandons => Handlers!Ours' \subseteq dropped'
<1>1. /\ toMain = <<>> /\ \A j \in Jobs : job[j].pc = "idle"
      /\ UNCHANGED httpd /\ \A p \in Pids : httpd[p] # "starting"
  BY DEF Handlers!UserWaits, Handlers!Idles
<1>2. Unstarted /\ Unstarted'
  BY <1>1 DEF Unstarted, Handlers!Ours, Handlers!Alive
<1>3. NoRestart
  BY <1>1 DEF NoRestart, Handlers!Restarts
<1>4. currentProject = None => Handlers!Ours' \subseteq dropped'
  BY <1>1, SameOurs, ProcessesKeep DEF ServersInv, NoneServed
<1> QED BY <1>1, <1>2, <1>3, <1>4, ProcessesKeep

LEMMA SendsServe ==
  ASSUME ZampInv, ServersInv, MainStep, Handlers!Sends PROVE ServersInv'
<1>1. /\ Handlers!UserWaits /\ UNCHANGED <<job, currentProject>> /\ Main
  BY MainIsMain DEF Handlers!Sends
<1>2. /\ \A j \in Jobs : job[j].pc = "idle"
      /\ UNCHANGED httpd /\ Unstarted' /\ NoRestart
  BY <1>1, UserWaitsServe
<1>3. UNCHANGED applied
  BY <1>1, AppliedStays DEF Begins
<1>4. NoRestart' /\ \A j \in Jobs : ~Handlers!Restarts(job'[j])
  BY <1>1, <1>2 DEF NoRestart, Handlers!Restarts
<1>5. Fresh' /\ EditsAlone'
  BY <1>2, <1>4 DEF Fresh, EditsAlone
<1>6. NoneServed'
  BY <1>1, <1>2, <1>4, SameOurs, ProcessesKeep DEF ServersInv, NoneServed
<1>7. /\ \A p \in Pids : Doomed(p) => Doomed(p)'
      /\ Editing' => Editing
  BY <1>1 DEF Doomed, Dooms, Editing, Handlers!AtEdit
<1>8. EachRight'
  BY <1>1, <1>2, <1>3, <1>7, EachRightStays
<1> QED BY <1>5, <1>6, <1>8 DEF ServersInv

\* The current project goes: the server that runs is exempt.
LEMMA DropsServe ==
  ASSUME ZampInv, ServersInv, MainStep, Handlers!Drops PROVE ServersInv'
<1>1. /\ Handlers!UserWaits /\ UNCHANGED <<job, toMain>> /\ Main
      /\ Handlers!Abandons
  BY MainIsMain DEF Handlers!Drops
<1>2. /\ toMain = <<>> /\ \A j \in Jobs : job[j].pc = "idle"
      /\ Handlers!Ours' \subseteq dropped'
  BY <1>1, UserWaitsServe
<1>3. NoRestart' /\ \A j \in Jobs : ~Plain(job'[j])
  BY <1>1, <1>2 DEF NoRestart, Handlers!Restarts, Plain
<1> QED BY <1>1, <1>2, <1>3
        DEF ServersInv, Fresh, EditsAlone, NoneServed, EachRight

LEMMA ChoosesServe ==
  ASSUME ZampInv, ServersInv, MainStep, NEW j \in Jobs, Handlers!Chooses(j)
  PROVE  ServersInv'
<1> DEFINE d == Handlers!Await("www", "none")
<1>1. /\ Handlers!UserWaits /\ UNCHANGED toMain /\ Main
      /\ Handlers!Abandons /\ currentProject' \in Projects
      /\ job' = [job EXCEPT ![j] = d]
  BY MainIsMain DEF Handlers!Chooses
<1>2. /\ toMain = <<>> /\ \A k \in Jobs : job[k].pc = "idle"
      /\ Unstarted' /\ Handlers!Ours' \subseteq dropped'
  BY <1>1, UserWaitsServe
<1>3. ~Handlers!Restarts(d)
  BY DEF Handlers!Await, Handlers!Restarts
<1> HIDE DEF d
<1>4. NoRestart'
  BY <1>1, <1>2, <1>3
     DEF NoRestart, Handlers!Restarts, ZampInv, Types, Handlers!TypeOK
<1>5. currentProject' # None
  BY <1>1, ZampAssumption
<1> QED BY <1>1, <1>2, <1>4, <1>5
        DEF ServersInv, Fresh, EditsAlone, NoneServed, EachRight

LEMMA TakesServe ==
  ASSUME ZampInv, ServersInv, MainStep, NEW j \in Jobs, Handlers!Takes(j)
  PROVE  ServersInv'
<1>1. /\ toMain # <<>> /\ toMain' = Tail(toMain) /\ job[j].pc = "idle" /\ Main
      /\ UNCHANGED <<currentProject, httpd>>
  BY MainIsMain DEF Handlers!Takes
<1>2. PICK c :
        /\ \A k \in Jobs : job'[k] = IF k = j THEN c ELSE job[k]
        /\ c.pc \in {"idle", "list", "check"}
        /\ Handlers!Switching(c) => /\ Head(toMain).cmd = "select_project"
                                    /\ c.name = Head(toMain).name
                                    /\ c.name # currentProject
        /\ Head(toMain).cmd = "select_project" /\ c.pc # "idle" =>
             Handlers!Switching(c)
        /\ Handlers!Restarts(c) => currentProject # None /\ c.pc # "idle"
  <2>1. CASE job' = job
    BY <1>1, <2>1 DEF Handlers!Switching, Handlers!Restarts
  <2>2. CASE job' # job
    <3>1. PICK c \in Handlers!Job :
            /\ job' = [job EXCEPT ![j] = c]
            /\ c.pc \in {"list", "check"}
            /\ Handlers!Switching(c) => /\ Handlers!Selects(Head(toMain))
                                        /\ c.name = Head(toMain).name
                                        /\ c.name # currentProject
            /\ Handlers!Selects(Head(toMain)) => Handlers!Switching(c)
            /\ Handlers!Restarts(c) => currentProject # None
      BY <2>2 DEF Handlers!Takes
    <3>2. \A k \in Jobs : job'[k] = IF k = j THEN c ELSE job[k]
      BY <3>1 DEF ZampInv, Types, Handlers!TypeOK
    <3> QED BY <3>1, <3>2 DEF Handlers!Selects
  <2> QED BY <2>1, <2>2
<1>3. /\ Len(toMain') = Len(toMain) - 1 /\ Len(toMain) \in Nat
      /\ 1 \in 1..Len(toMain) /\ Head(toMain) = toMain[1]
  BY <1>1, TailTarget
<1>4. Unstarted /\ Unstarted'
  BY <1>1, SameOurs DEF ServersInv, Fresh
\* A message other than a selection was alone.
<1>5. \/ Head(toMain).cmd = "select_project"
      \/ toMain' = <<>> /\ \A k \in Jobs : job[k].pc = "idle"
  <2>1. Handlers!Single /\ toMain \in Seq(Handlers!Command)
    BY DEF ZampInv, Types, Handlers!TypeOK, Handlers!PatientInv
  <2>2. CASE toMain[1].cmd # "select_project"
    <3>1. Len(toMain) = 1 /\ \A k \in Jobs : job[k].pc = "idle"
      BY <1>3, <2>1, <2>2 DEF Handlers!Single
    <3> QED BY <1>1, <2>1, <3>1
  <2> QED BY <1>3, <2>2
<1>6. Fresh'
  <2>1. SUFFICES ASSUME toMain' # <<>>, NEW k \in Jobs, Handlers!Restarts(job'[k])
                 PROVE  Handlers!Switching(job'[k]) /\ job'[k].name # currentProject
    BY <1>1, <1>4 DEF Fresh
  <2>2. CASE k = j
    BY <1>2, <1>5, <2>1, <2>2
  <2>3. CASE k # j
    BY <1>1, <1>2, <2>1, <2>3 DEF ServersInv, Fresh
  <2> QED BY <2>2, <2>3
<1>7. EditsAlone'
  <2>1. SUFFICES ASSUME NEW k \in Jobs, Plain(job'[k]) PROVE NoRestart'
    BY <1>4 DEF EditsAlone
  <2>2. k # j /\ job'[k] = job[k]
    BY <1>2, <2>1 DEF Plain
  <2>3. NoRestart /\ job[k].pc # "idle"
    BY <2>1, <2>2 DEF ServersInv, EditsAlone, Plain
  <2>4. job[k].pc = "www"
    BY <1>1, <2>1, <2>2 DEF Plain, ZampInv, InstAlone
  <2>5. ~Handlers!Switching(c)
    <3>1. SUFFICES ASSUME Handlers!Switching(c) PROVE FALSE
      OBVIOUS
    <3>2. awaits[k] \in Edits /\ files[awaits[k]].stage = "www"
      BY <2>4 DEF ZampInv, Types, Coupled
    <3>3. toMain[1].cmd = "select_project" /\ toMain[1].name # currentProject
      BY <1>2, <1>3, <3>1
    <3>4. toMain[1].name \in Projects \cup {None}
      <4>1. toMain \in Seq(Handlers!Command)
        BY DEF ZampInv, Types, Handlers!TypeOK
      <4>2. toMain[1] \in Handlers!Command
        BY <1>3, <4>1
      <4> QED BY <4>2 DEF Handlers!Command
    <3>5. Target(toMain[1].name)
      BY <1>3, <3>3 DEF Target
    <3> QED BY <3>2, <3>3, <3>4, <3>5, TargetIsCurrent
  <2>6. ~Handlers!Restarts(c)
    BY <1>2, <1>5, <2>3, <2>5
  <2> QED BY <1>2, <2>3, <2>6 DEF NoRestart
<1>8. NoneServed'
  <2>1. SUFFICES ASSUME currentProject = None
                 PROVE  Handlers!Ours' \subseteq dropped' /\ NoRestart'
    BY <1>1 DEF NoneServed
  <2>2. NoRestart /\ Handlers!Ours \subseteq dropped
    BY <2>1 DEF ServersInv, NoneServed
  <2>3. NoRestart'
    BY <1>2, <2>1, <2>2 DEF NoRestart
  <2> QED BY <1>1, <2>2, <2>3, SameOurs, ProcessesKeep
<1>9. EachRight'
  <2>1. /\ \A p \in Pids : Doomed(p) => Doomed(p)'
        /\ Editing' => Editing
    BY <1>1, <1>2 DEF Doomed, Dooms, Editing, Handlers!AtEdit
  <2>2. UNCHANGED applied
    BY <1>2, AppliedStays DEF Begins
  <2> QED BY <1>1, <2>1, <2>2, EachRightStays
<1> QED BY <1>6, <1>7, <1>8, <1>9 DEF ServersInv

LEMMA TakesChoiceServes ==
  ASSUME ZampInv, ServersInv, MainStep, NEW j \in Jobs, Handlers!TakesChoice(j)
  PROVE  ServersInv'
<1> DEFINE d == Handlers!Await("www", "none")
<1>1. /\ toMain # <<>> /\ toMain' = Tail(toMain) /\ job[j].pc = "idle" /\ Main
      /\ UNCHANGED httpd /\ Head(toMain).cmd = "select_project"
      /\ currentProject' = Head(toMain).name /\ currentProject' \in Projects
      /\ currentProject' = currentProject \/ ~serverRunning
      /\ job' = [job EXCEPT ![j] = d]
  BY MainIsMain DEF Handlers!TakesChoice, Handlers!Selects
<1>2. d.pc = "www" /\ d.then = "none" /\ ~Handlers!Restarts(d)
  BY DEF Handlers!Await, Handlers!Restarts
<1> HIDE DEF d
<1>3. \A k \in Jobs : job'[k] = IF k = j THEN d ELSE job[k]
  BY <1>1 DEF ZampInv, Types, Handlers!TypeOK
<1>4. Unstarted /\ Unstarted'
  BY <1>1, SameOurs DEF ServersInv, Fresh
<1>5. Target(currentProject')
  BY <1>1, TailTarget DEF Target
\* A switch that waited would be to this project, and serverRunning be set.
<1>6. NoRestart
  <2>1. SUFFICES ASSUME NEW k \in Jobs, Handlers!Restarts(job[k]) PROVE FALSE
    BY DEF NoRestart
  <2>2. Handlers!Switching(job[k]) /\ job[k].name # currentProject
    BY <1>1, <2>1 DEF ServersInv, Fresh
  <2>3. serverRunning
    BY <2>1 DEF ZampInv, Handlers!PatientInv, Handlers!Marked
  <2>4. job[k].name \in Projects \cup {None} /\ Target(job[k].name)
    BY <2>2 DEF Target, ZampInv, Types, Handlers!TypeOK, Handlers!Job
  <2>5. job[k].name = currentProject'
    BY <1>1, <1>5, <2>4 DEF ZampInv, OneTarget
  <2> QED BY <1>1, <2>2, <2>3, <2>5
<1>7. NoRestart'
  BY <1>2, <1>3, <1>6 DEF NoRestart
<1>8. Fresh' /\ EditsAlone' /\ NoneServed'
  BY <1>1, <1>4, <1>7, ZampAssumption
     DEF Fresh, EditsAlone, NoneServed, NoRestart
<1>9. EachRight'
  <2>1. SUFFICES ASSUME NEW p \in Handlers!Ours' \ dropped'
                 PROVE  Doomed(p)' \/ Right(p)'
    BY DEF EachRight
  <2>2. p \in Handlers!Ours \ dropped /\ p \in Pids /\ httpd[p] # "starting"
    BY <1>1, <1>4, <2>1, SameOurs, ProcessesKeep
       DEF Unstarted, Handlers!Ours, Handlers!Alive
  <2>3. Doomed(p) => Doomed(p)'
    BY <1>1, <1>3 DEF Doomed, Dooms
  <2>4. UNCHANGED applied
    BY <1>2, <1>3, AppliedStays DEF Begins
  <2>5. UNCHANGED currentProject
    <3>1. \A k \in Jobs : ~Handlers!Ends(job[k])
      BY <1>1 DEF ZampInv, Handlers!PatientInv, Handlers!Alone
    <3>2. appUp
      BY <1>1 DEF ZampInv, Down
    <3>3. serverRunning
      BY <2>2, <3>1, <3>2 DEF ZampInv, Handlers!PatientInv, Handlers!Marked
    <3> QED BY <1>1, <3>3
  <2>6. Right(p) => Right(p)'
    BY <1>1, <2>2, <2>4, <2>5, ProcessesKeep DEF Right
  <2> QED BY <2>2, <2>3, <2>6 DEF ServersInv, EachRight
<1> QED BY <1>8, <1>9 DEF ServersInv

LEMMA TurnsToServes ==
  ASSUME Prompt, ZampInv, ServersInv, MainStep, NEW j \in Jobs,
         Handlers!TurnsTo(j)
  PROVE  ServersInv'
<1> DEFINE d == Handlers!Await("www", "restart")
<1>1. /\ UNCHANGED <<toMain, httpd>> /\ Main /\ Handlers!Switching(job[j])
      /\ currentProject' \in Projects /\ job' = [job EXCEPT ![j] = d]
  BY MainIsMain DEF Handlers!TurnsTo
<1>2. d.pc = "www" /\ d.then = "restart"
  BY DEF Handlers!Await
<1> HIDE DEF d
<1>3. \A k \in Jobs : job'[k] = IF k = j THEN d ELSE job[k]
  BY <1>1 DEF ZampInv, Types, Handlers!TypeOK
<1>4. Fresh'
  BY <1>1, NonePending DEF Fresh
<1>5. EditsAlone'
  <2>1. ~NoRestart
    BY <1>1 DEF NoRestart, Handlers!Restarts, Handlers!Switching
  <2>2. \A k \in Jobs : ~Plain(job[k])
    BY <2>1 DEF ServersInv, EditsAlone
  <2> QED BY <1>2, <1>3, <2>2 DEF EditsAlone, Plain
<1>6. NoneServed'
  BY <1>1, ZampAssumption DEF NoneServed
<1>7. EachRight'
  BY <1>2, <1>3 DEF EachRight, Doomed, Dooms
<1> QED BY <1>4, <1>5, <1>6, <1>7 DEF ServersInv

LEMMA ChangesVersionServes ==
  ASSUME ZampInv, ServersInv, MainStep, NEW j \in Jobs,
         Handlers!ChangesVersion(j)
  PROVE  ServersInv'
<1> DEFINE d == Handlers!Await("inst", "none")
<1>1. /\ UNCHANGED <<toMain, httpd>> /\ toMain = <<>> /\ Handlers!Alive \subseteq KillMayFail
      /\ \A k \in Jobs \ {j} : job[k].pc = "idle"
      /\ job' = [job EXCEPT ![j] = d]
  BY DEF Handlers!ChangesVersion
<1>2. ~Handlers!Restarts(d)
  BY DEF Handlers!Await, Handlers!Restarts
<1> HIDE DEF d
<1>3. NoRestart'
  BY <1>1, <1>2
     DEF NoRestart, Handlers!Restarts, ZampInv, Types, Handlers!TypeOK
<1>4. Handlers!Ours' = {}
  BY <1>1, SameOurs, ZampAssumption DEF Handlers!Ours
<1> QED BY <1>1, <1>3, <1>4, NoServers

LEMMA LeavesServe ==
  ASSUME ZampInv, ZampInv', Handlers!Leaves PROVE ServersInv'
<1>1. /\ toMain' = <<>> /\ ~appUp'
      /\ \A k \in Jobs : job'[k].pc = "idle"
  BY DEF Handlers!Leaves, Handlers!Idle, Handlers!Await
<1>2. NoRestart'
  BY <1>1 DEF NoRestart, Handlers!Restarts
<1>3. Handlers!Ours' = {}
  BY <1>1 DEF ZampInv, Handlers!PatientInv, Handlers!CleanExit
<1> QED BY <1>1, <1>2, <1>3, NoServers

\* A call goes on without an edit.  What it finds or lists is doomed, what it
\* spawns starts while the file is whole, or an edit that a start follows is
\* in flight.
LEMMA GoesOnServes ==
  ASSUME Prompt, ZampInv, ServersInv, MainStep, NEW j \in Jobs,
         Handlers!GoesOn(j)
  PROVE  ServersInv'
<1>1. /\ UNCHANGED <<toMain, currentProject>> /\ Main
      /\ ~Handlers!AtEdit(job[j]) /\ Handlers!Works(j)
  BY MainIsMain DEF Handlers!GoesOn
<1>2. PICK c \in Handlers!Job :
        /\ job' = [job EXCEPT ![j] = c] /\ ~Handlers!AtEdit(c)
        /\ Handlers!Restarts(c) => Handlers!Restarts(job[j])
  BY DEF Handlers!GoesOn
<1>3. \A k \in Jobs : job'[k] = IF k = j THEN c ELSE job[k]
  BY <1>2 DEF ZampInv, Types, Handlers!TypeOK
<1>4. /\ Editing' => Editing
      /\ NoRestart => NoRestart' /\ ~Handlers!Restarts(job[j])
      /\ \A k \in Jobs : Plain(job'[k]) => Plain(job[k])
  BY <1>2, <1>3 DEF Editing, NoRestart, Plain, Handlers!AtEdit
<1>5. Fresh'
  BY <1>1, NonePending DEF Fresh
<1>6. UNCHANGED applied
  BY <1>2, <1>3, AppliedStays DEF Begins, Handlers!AtEdit
<1>7. httpd \in [Pids -> {"unused", "starting", "up", "dead"}]
  BY DEF ZampInv, Types, Handlers!TypeOK
<1>8. ASSUME NEW p \in Handlers!Ours'
      PROVE  \/ Dooms(c, p)
             \/ /\ p \in Handlers!Ours /\ httpd'[p] = httpd[p]
                /\ Dooms(job[j], p) => Dooms(c, p)
             \/ /\ Handlers!StartsOne(j) /\ httpd'[p] = "starting"
                /\ ~Dooms(job[j], p)
  <2>1. p \in Handlers!Alive' /\ p \in Pids /\ p \notin Orphans
    BY <1>8 DEF Handlers!Ours, Handlers!Alive
  <2>2. c = job'[j] /\ job[j] \in Handlers!Job
    BY <1>3 DEF ZampInv, Types, Handlers!TypeOK
  <2>3. UNCHANGED httpd => p \in Handlers!Ours /\ p \in Handlers!Alive
    BY <2>1 DEF Handlers!Ours, Handlers!Alive
  <2>4. CASE Handlers!TaskList(j)
    <3>1. c = [job[j] EXCEPT !.pc = "kill", !.todo = Handlers!Alive]
      BY <2>2, <2>4 DEF Handlers!TaskList, ZampInv, Types, Handlers!TypeOK
    <3>2. c.pc = "kill" /\ c.todo = Handlers!Alive /\ UNCHANGED httpd
      BY <2>2, <2>4, <3>1 DEF Handlers!TaskList, Handlers!Job
    <3> QED BY <2>3, <3>2 DEF Dooms
  <2>5. CASE Handlers!TaskKill(j)
    <3>1. PICK q \in job[j].todo :
            /\ job' = [job EXCEPT ![j].todo = @ \ {q}]
            /\ \/ httpd' = [httpd EXCEPT ![q] = "dead"]
               \/ q \in KillMayFail /\ UNCHANGED httpd
      BY <2>5 DEF Handlers!TaskKill
    <3>2. /\ c = [job[j] EXCEPT !.todo = job[j].todo \ {q}]
          /\ job[j].pc = "kill"
      BY <2>2, <2>5, <3>1
         DEF Handlers!TaskKill, Handlers!Step, ZampInv, Types, Handlers!TypeOK
    <3>3. /\ c.pc = "kill" /\ c.then = job[j].then
          /\ c.todo = job[j].todo \ {q}
      BY <2>2, <3>2 DEF Handlers!Job
    <3>4. p # q /\ httpd'[p] = httpd[p] /\ p \in Handlers!Ours
      <4>1. CASE httpd' = [httpd EXCEPT ![q] = "dead"]
        BY <1>7, <2>1, <4>1 DEF Handlers!Ours, Handlers!Alive
      <4>2. CASE q \in KillMayFail /\ UNCHANGED httpd
        BY <2>1, <2>3, <4>2, ZampAssumption
      <4> QED BY <3>1, <4>1, <4>2
    <3> QED BY <3>2, <3>3, <3>4 DEF Dooms
  <2>6. CASE Handlers!CheckRunning(j)
    <3>1. UNCHANGED httpd
      BY <2>6 DEF Handlers!CheckRunning
    <3>2. job' = [job EXCEPT ![j].pc =
                    IF Handlers!Alive # {} THEN "seen" ELSE "unseen"]
      BY <2>6 DEF Handlers!CheckRunning
    <3>3. Handlers!Alive # {}
      BY <2>3, <3>1
    <3>4. c.pc = "seen"
      BY <2>2, <3>2, <3>3 DEF ZampInv, Types, Handlers!TypeOK, Handlers!Job
    <3> QED BY <3>4 DEF Dooms
  <2>7. CASE Handlers!CloseFirst(j)
    <3>1. c = [Handlers!Killserver("start", None)
                 EXCEPT !.old = @ \cup job[j].old]
      BY <2>2, <2>7 DEF Handlers!CloseFirst, ZampInv, Types, Handlers!TypeOK
    <3>2. c.pc = "list"
      BY <3>1 DEF Handlers!Killserver
    <3> QED BY <3>2 DEF Dooms
  <2>8. CASE Handlers!StartsOne(j)
    <3>1. ~Dooms(job[j], p)
      BY <2>8 DEF Handlers!StartsOne, Dooms
    <3>2. PICK q \in Pids : /\ httpd[q] = "unused"
                            /\ httpd' = [httpd EXCEPT ![q] = "starting"]
      BY <2>8 DEF Handlers!StartsOne
    <3>3. CASE p = q
      BY <1>7, <2>8, <3>1, <3>2, <3>3
    <3>4. CASE p # q
      <4>1. httpd'[p] = httpd[p]
        BY <1>7, <2>1, <3>2, <3>4
      <4>2. p \in Handlers!Ours
        BY <2>1, <4>1 DEF Handlers!Ours, Handlers!Alive
      <4> QED BY <3>1, <4>1, <4>2
    <3> QED BY <3>3, <3>4
  <2>9. CASE Handlers!Closes(j)
    BY <2>3, <2>9 DEF Handlers!Closes, Dooms
  <2> QED BY <1>1, <2>4, <2>5, <2>6, <2>7, <2>8, <2>9 DEF Handlers!Works
\* A call that no start follows spawns none.
<1>9. Handlers!StartsOne(j) => Handlers!Restarts(job[j])
  BY DEF Handlers!StartsOne, Handlers!Restarts
<1>10. ASSUME NoRestart
       PROVE  \A p \in Handlers!Ours' : p \in Handlers!Ours /\ httpd'[p] = httpd[p]
  <2>1. ~Handlers!StartsOne(j)
    BY <1>4, <1>9, <1>10
  <2>2. UNCHANGED httpd \/ \E q : httpd' = [httpd EXCEPT ![q] = "dead"]
    BY <1>1, <2>1
       DEF Handlers!Works, Handlers!TaskList, Handlers!TaskKill,
           Handlers!CheckRunning, Handlers!CloseFirst, Handlers!Closes
  <2> QED BY <1>7, <2>2 DEF Handlers!Ours, Handlers!Alive
<1>11. EditsAlone'
  <2>1. SUFFICES ASSUME NEW k \in Jobs, Plain(job'[k])
                 PROVE  Unstarted' /\ NoRestart'
    BY DEF EditsAlone
  <2>2. Unstarted /\ NoRestart
    BY <1>4, <2>1 DEF ServersInv, EditsAlone
  <2> QED BY <1>4, <1>10, <2>2 DEF Unstarted
<1>12. NoneServed'
  <2>1. SUFFICES ASSUME currentProject = None
                 PROVE  Handlers!Ours' \subseteq dropped' /\ NoRestart'
    BY <1>1 DEF NoneServed
  <2>2. NoRestart /\ Handlers!Ours \subseteq dropped
    BY <2>1 DEF ServersInv, NoneServed
  <2> QED BY <1>1, <1>4, <1>10, <2>2, ProcessesKeep
<1>13. EachRight'
  <2>1. SUFFICES ASSUME NEW p \in Handlers!Ours' \ dropped', ~Doomed(p)'
                 PROVE  Right(p)' \/ (httpd'[p] = "starting" /\ ~Editing')
    BY DEF EachRight
  <2>2. ~Dooms(c, p) /\ \A k \in Jobs \ {j} : ~Dooms(job[k], p)
    BY <1>3, <2>1 DEF Doomed
  <2>3. CASE p \in Handlers!Ours /\ httpd'[p] = httpd[p] /\ ~Dooms(job[j], p)
    <3>1. p \in Pids /\ p \notin dropped /\ ~Doomed(p)
      BY <1>1, <2>1, <2>2, <2>3, ProcessesKeep
         DEF Doomed, Handlers!Ours, Handlers!Alive
    <3>2. Right(p) => Right(p)'
      BY <1>1, <1>6, <2>3, <3>1, ProcessesKeep DEF Right
    <3> QED BY <1>4, <2>3, <3>1, <3>2 DEF ServersInv, EachRight
  <2>4. CASE Handlers!StartsOne(j) /\ httpd'[p] = "starting" /\ ~Dooms(job[j], p)
    <3>1. \A k \in Jobs : ~Plain(job[k])
      BY <1>9, <2>4 DEF ServersInv, EditsAlone, NoRestart
    <3>2. \A k \in Jobs : ~Handlers!AtEdit(job[k])
      BY <2>2, <2>4, <3>1 DEF Plain, Handlers!AtEdit, Dooms
    <3>3. ~Editing'
      BY <1>4, <3>2 DEF Editing
    <3> QED BY <2>4, <3>3
  <2> QED BY <1>8, <2>1, <2>2, <2>3, <2>4
<1> QED BY <1>5, <1>11, <1>12, <1>13 DEF ServersInv

LEMMA MainServes ==
  ASSUME Prompt, ZampInv, ServersInv, MainStep PROVE ServersInv'
<1>1. Main /\ ZampInv'
  BY MainIsMain, MainKeeps
<1> QED BY <1>1, MainKinds, RestsServe, SendsServe, DropsServe, ChoosesServe,
           TakesServe, TakesChoiceServes, GoesOnServes, TurnsToServes,
           ChangesVersionServes, LeavesServe

LEMMA EditStepServes ==
  ASSUME ZampInv, ServersInv, NEW i \in Edits, EditStep(i) PROVE ServersInv'
<1>1. /\ UNCHANGED <<job, httpd, toMain, currentProject, reads, dropped>>
      /\ Conf!JobStep(i)
  BY DEF EditStep, serverVars
<1>2. UNCHANGED applied
  BY <1>1, FileKeeps, Assumed, File!JobStepKinds DEF ZampInv, Types, File!Simple
<1>3. Handlers!Ours' = Handlers!Ours
  BY <1>1, SameOurs
<1> QED BY <1>1, <1>2, <1>3
        DEF ServersInv, Fresh, EditsAlone, NoneServed, EachRight, Unstarted,
            NoRestart, Editing, Doomed, Right

\* The call that awaited an edit goes on: after it a start follows if one did
\* before.
LEMMA EditReturnsServes ==
  ASSUME Prompt, ZampInv, ServersInv, NEW i \in Edits, EditReturns(i)
  PROVE  ServersInv'
<1>1. /\ toMain = <<>> /\ UNCHANGED <<reads, dropped>> /\ Conf!JobStep(i)
  BY DEF EditReturns
<1>2. PICK j \in Jobs : Server!WwwDone(j) \/ Server!InstDone(j)
  BY DEF EditReturns
<1>3. /\ Handlers!WwwDone(j) \/ Handlers!InstDone(j)
      /\ Handlers!TypeOK /\ Handlers!SelInv
  BY <1>2, StepIsNext DEF ZampInv, Types
<1>4. UNCHANGED applied
  BY <1>1, FileKeeps, Assumed, File!JobStepKinds DEF ZampInv, Types, File!Simple
<1>5. /\ UNCHANGED <<toMain, currentProject, httpd>>
      /\ Handlers!AtEdit(job[j])
      /\ \E d : /\ job' = [job EXCEPT ![j] = d]
                /\ Handlers!Restarts(d) => Handlers!Restarts(job[j])
                /\ Plain(d) => Plain(job[j])
                /\ \A p \in Pids : Dooms(job[j], p) => Dooms(d, p)
  <2>1. CASE Handlers!WwwDone(j)
    <3>1. /\ UNCHANGED <<toMain, currentProject, httpd>> /\ job[j].pc = "www"
          /\ \E d \in Handlers!Job :
               /\ job' = [job EXCEPT ![j] = d]
               /\ d.pc \in {"idle", "check"}
               /\ d.pc = "check" <=> job[j].then = "restart"
      BY <1>3, <2>1, Assumed, Handlers!WwwReturns
    <3> QED BY <3>1 DEF Handlers!AtEdit, Handlers!Restarts, Plain, Dooms
  <2>2. CASE Handlers!InstDone(j)
    <3>1. /\ UNCHANGED <<toMain, currentProject, httpd>> /\ job[j].pc = "inst"
          /\ \/ job' = [job EXCEPT ![j] = Handlers!Await("www", "none")]
             \/ job' = [job EXCEPT ![j] = Handlers!Idle]
      BY <1>3, <2>2, Assumed, Handlers!InstReturns
    <3>2. /\ Handlers!Await("www", "none").pc = "www"
          /\ Handlers!Await("www", "none").then = "none"
          /\ Handlers!Idle.pc = "idle"
      BY DEF Handlers!Await, Handlers!Idle
    <3> QED BY <3>1, <3>2 DEF Handlers!AtEdit, Handlers!Restarts, Plain, Dooms
  <2> QED BY <1>3, <2>1, <2>2
<1>6. PICK d : /\ job' = [job EXCEPT ![j] = d]
               /\ Handlers!Restarts(d) => Handlers!Restarts(job[j])
               /\ Plain(d) => Plain(job[j])
               /\ \A p \in Pids : Dooms(job[j], p) => Dooms(d, p)
  BY <1>5
<1>7. \A k \in Jobs : job'[k] = IF k = j THEN d ELSE job[k]
  BY <1>3, <1>6 DEF Handlers!TypeOK
<1>8. /\ Handlers!Ours' = Handlers!Ours /\ (Unstarted' <=> Unstarted)
      /\ NoRestart => NoRestart'
      /\ \A p \in Pids : Doomed(p) => Doomed(p)'
  <2>1. Handlers!Ours' = Handlers!Ours /\ (Unstarted' <=> Unstarted)
    BY <1>5, SameOurs
  <2>2. NoRestart => NoRestart'
    BY <1>6, <1>7 DEF NoRestart
  <2>3. \A p \in Pids : Doomed(p) => Doomed(p)'
    BY <1>6, <1>7 DEF Doomed
  <2> QED BY <2>1, <2>2, <2>3
<1>9. Fresh'
  BY <1>1, <1>5 DEF Fresh
<1>10. EditsAlone'
  BY <1>6, <1>7, <1>8 DEF ServersInv, EditsAlone
<1>11. NoneServed'
  BY <1>1, <1>5, <1>8 DEF ServersInv, NoneServed
<1>12. EachRight'
  <2>1. \A p \in Pids : Right(p) => Right(p)'
    BY <1>1, <1>4, <1>5 DEF Right
  <2>2. Editing
    BY <1>5 DEF Editing
  <2>3. Handlers!Ours \subseteq Pids
    BY DEF Handlers!Ours, Handlers!Alive
  <2> QED BY <1>1, <1>8, <2>1, <2>2, <2>3 DEF ServersInv, EachRight
<1> QED BY <1>9, <1>10, <1>11, <1>12 DEF ServersInv

\* After a quit no server of the session is left to be seen by the next one.
LEMMA RelaunchServes == ASSUME ZampInv, Relaunch PROVE ServersInv'
<1>1. ~appUp /\ UNCHANGED httpd /\ StartApp /\ toMain' = <<>>
  BY DEF Relaunch, StartApp
<1>2. Handlers!Ours' = {}
  BY <1>1, SameOurs DEF ZampInv, Handlers!PatientInv, Handlers!CleanExit
<1>3. \A k \in Jobs : job'[k].pc \in {"inst", "idle"}
  <2>1. PICK j \in Jobs :
          job' = [i \in Jobs |-> IF i = j THEN Server!Await("inst", "startup")
                                          ELSE Server!Idle]
    BY <1>1 DEF StartApp
  <2>2. /\ Server!Await("inst", "startup").pc = "inst"
        /\ Server!Idle.pc = "idle"
    BY DEF Server!Await, Server!Idle
  <2> QED BY <2>1, <2>2
<1>4. NoRestart'
  BY <1>3 DEF NoRestart, Handlers!Restarts
<1> QED BY <1>1, <1>2, <1>4, NoServers

LEMMA InitServes == ASSUME Init PROVE ServersInv
<1>1. Handlers!Init
  BY SameInit DEF Init
<1>2. Handlers!Ours = {} /\ toMain = <<>>
  BY <1>1 DEF Handlers!Init, Handlers!Ours, Handlers!Alive
<1>3. \A k \in Jobs : job[k].pc \in {"inst", "idle"}
  <2>1. PICK j \in Jobs :
          job = [i \in Jobs |-> IF i = j THEN Handlers!Await("inst", "startup")
                                         ELSE Handlers!Idle]
    BY <1>1 DEF Handlers!Init
  <2>2. /\ Handlers!Await("inst", "startup").pc = "inst"
        /\ Handlers!Idle.pc = "idle"
    BY DEF Handlers!Await, Handlers!Idle
  <2> QED BY <2>1, <2>2
<1>4. NoRestart
  BY <1>3 DEF NoRestart, Handlers!Restarts
<1> QED BY <1>2, <1>4
        DEF ServersInv, Fresh, EditsAlone, Unstarted, NoneServed, EachRight

LEMMA StutterServes == ASSUME ServersInv, UNCHANGED vars PROVE ServersInv'
<1>1. UNCHANGED <<job, httpd, toMain, currentProject, applied, reads, dropped>>
  BY DEF vars, serverVars, fileVars
<1>2. Handlers!Ours' = Handlers!Ours
  BY <1>1, SameOurs
<1> QED BY <1>1, <1>2
        DEF ServersInv, Fresh, EditsAlone, NoneServed, EachRight, Unstarted,
            NoRestart, Editing, Doomed, Right

\* Once nothing is in flight the server of this session that runs has read a
\* whole httpd.conf with the current project and the PHP version, however many
\* switches, changes of version and sessions came before, when what a click
\* sent is taken before anything else goes on.
THEOREM RunningServerRight == ASSUME Prompt PROVE Spec => []RightServer
<1>1. ZampInv /\ ServersInv /\ [Next]_vars => ServersInv'
  BY MainServes, EditStepServes, EditReturnsServes, RelaunchServes,
     StutterServes DEF Next
<1>2. Init => ServersInv
  BY InitServes
<1>3. ServersInv => RightServer
  BY ServersServe
<1> QED BY <1>1, <1>2, <1>3, PartsAgree, PTL DEF Spec

-----------------------------------------------------------------------------
(* What ServerControl promises of one session holds through all of them.   *)

\* For a user who waits, in every session: once nothing is in flight the
\* button offers Stop exactly when a server runs, a quit leaves none, and the
\* current project is a listed one.
THEOREM SessionsTellTruth ==
  Spec => [](Server!ButtonTellsTruth /\ Server!CleanExit /\ Server!SelectionSound)
<1>1. ASSUME ZampInv
      PROVE  Server!ButtonTellsTruth /\ Server!CleanExit /\ Server!SelectionSound
  <2>1. Handlers!TypeOK /\ Handlers!PatientInv /\ Handlers!SelInv
    BY <1>1 DEF ZampInv, Types
  <2>2. Handlers!ButtonTellsTruth
    BY <2>1, Assumed, Handlers!TruthShows
  <2>3. Server!ButtonTellsTruth
    BY <2>2, SameState DEF Server!ButtonTellsTruth, Handlers!ButtonTellsTruth
  <2>4. Server!CleanExit
    BY <2>1, SameState
       DEF Server!CleanExit, Handlers!CleanExit, Handlers!PatientInv
  <2>5. Server!SelectionSound
    BY <2>1 DEF Server!SelectionSound, Handlers!SelectionSound, Handlers!SelInv
  <2> QED BY <2>3, <2>4, <2>5
<1> QED BY <1>1, PartsAgree, PTL

LEMMA SameContracts ==
  ASSUME NEW j \in Jobs
  PROVE  /\ Server!KillReturns(j) => Handlers!KillReturns(j)
         /\ Server!Spawns(j) => Handlers!Spawns(j)
         /\ Server!Alive' = Handlers!Alive'
BY DEF Server!KillReturns, Handlers!KillReturns, Server!Spawns,
       Handlers!Spawns, Server!Step, Handlers!Step, Server!AfterKill,
       Handlers!AfterKill, Server!StartServer, Handlers!StartServer,
       Server!NextPid, Handlers!NextPid, Server!Exit, Handlers!Exit,
       Server!SelectProject, Handlers!SelectProject, Server!Await,
       Handlers!Await, Server!Idle, Handlers!Idle, Server!Alive, Handlers!Alive

\* A step of the whole is one of the handlers, or none, or a launch.
LEMMA StepOfHandlers ==
  ASSUME [Next]_vars
  PROVE  [Handlers!Next]_Handlers!vars \/ Relaunch
<1>1. CASE MainStep
  BY <1>1, MainIsMain, SameNext DEF Main
<1>2. CASE \E i \in Edits : EditStep(i)
  BY <1>2 DEF EditStep, serverVars, Handlers!vars, Handlers!ui
<1>3. CASE \E i \in Edits : EditReturns(i)
  BY <1>3, StepIsNext DEF EditReturns
<1>4. CASE UNCHANGED vars
  BY <1>4 DEF vars, serverVars, Handlers!vars, Handlers!ui
<1> QED BY <1>1, <1>2, <1>3, <1>4 DEF Next

LEMMA ListsKept ==
  ASSUME ZampInv, Handlers!KillInv, [Next]_vars PROVE Handlers!KillInv'
<1>1. CASE [Handlers!Next]_Handlers!vars
  BY <1>1, Assumed, Handlers!KillInvNext DEF ZampInv, Types
<1>2. CASE Relaunch
  <2>1. PICK j \in Jobs :
          job' = [i \in Jobs |-> IF i = j THEN Server!Await("inst", "startup")
                                          ELSE Server!Idle]
    BY <1>2 DEF Relaunch, StartApp
  <2>2. \A i \in Jobs : job'[i].pc \in {"inst", "idle"} /\ job'[i].old = {}
    BY <2>1 DEF Server!Await, Server!Idle
  <2> QED BY <2>2 DEF Handlers!KillInv, Handlers!ListSound
<1> QED BY <1>1, <1>2, StepOfHandlers

\* Whatever other calls do, through edits, restarts and launches: a killserver
\* that returns has ended what was alive when it was called, and create_server
\* starts a server only when all that were alive at its call are gone, except
\* for the processes whose TASKKILL may fail.
THEOREM ContractsHold == Spec => Server!KillContract /\ Server!StartReplaces
<1>1. ASSUME ZampInv, Handlers!KillInv, [Next]_vars, NEW j \in Jobs
      PROVE  /\ Server!KillReturns(j) => job[j].old \cap Server!Alive' \subseteq KillMayFail
             /\ Server!Spawns(j) => job[j].old \cap Server!Alive' \subseteq KillMayFail
  <2>1. Handlers!TypeOK
    BY <1>1 DEF ZampInv, Types
  <2>2. Handlers!KillReturns(j) => job[j].old \cap Handlers!Alive' \subseteq KillMayFail
    BY <1>1, <2>1, Assumed, Handlers!KillReturnsClears
  <2>3. Handlers!Spawns(j) => job[j].old \cap Handlers!Alive' \subseteq KillMayFail
    <3>1. CASE [Handlers!Next]_Handlers!vars
      BY <1>1, <2>1, <3>1, Assumed, Handlers!SpawnsClear
    <3>2. CASE Relaunch
      BY <3>2 DEF Relaunch, Handlers!Spawns
    <3> QED BY <1>1, <3>1, <3>2, StepOfHandlers
  <2> QED BY <2>2, <2>3, SameContracts
<1>2. ZampInv /\ Handlers!KillInv /\ [Next]_vars => Handlers!KillInv'
  BY ListsKept
<1>3. Init => Handlers!KillInv
  BY SameInit, Assumed, Handlers!KillInvInit DEF Init
<1>4. ZampInv /\ Handlers!KillInv /\ [Next]_vars =>
        [\A j \in Jobs : Server!KillReturns(j) =>
           job[j].old \cap Server!Alive' \subseteq KillMayFail]_Server!vars
  BY <1>1
<1>5. ZampInv /\ Handlers!KillInv /\ [Next]_vars =>
        [\A j \in Jobs : Server!Spawns(j) =>
           job[j].old \cap Server!Alive' \subseteq KillMayFail]_Server!vars
  BY <1>1
<1> QED BY <1>2, <1>3, <1>4, <1>5, PartsAgree, PTL
        DEF Spec, Server!KillContract, Server!StartReplaces

=============================================================================
