------------------------------ MODULE MariaDb ------------------------------
(***************************************************************************)
(* MariaDB as main.js and db_init.js drive it: load_maria_config,          *)
(* start_mariadb and kill_maria_server, the 'SQL-Server' handler, the      *)
(* toggle and the status text of renderer.js with the two IPC channels,    *)
(* the mysqld.exe processes, which outlive the app, and the status that is *)
(* kept in MariaDB's config.json and decides at launch.                    *)
(*                                                                         *)
(* The functions of db_init.js are synchronous: a handler is one step.     *)
(* Only the write of config.json goes on after it.                         *)
(***************************************************************************)
EXTENDS JsonFile, Sequences

CONSTANTS
  Pids,       \* names of the mysqld.exe processes, in the order they start
  MaxClicks,  \* user actions, exits and crashes in a behaviour (bound)
  MayDie      \* TRUE: a mysqld.exe may exit by itself

ASSUME MariaDbAssumption ==
  /\ Pids \subseteq Nat
  /\ MaxClicks \in Nat
  /\ MayDie \in BOOLEAN

Status == {"Started", "Closed"}

ASSUME StatusAssumption == Values = Status

VARIABLES
  app,     \* "up", "down", or "failed": main.js threw while it loaded
  status,  \* main.js: SQLConfig.status
  mysqld,  \* the mysqld.exe processes of the machine
  toMain,  \* IPC from the renderer: 'SQL-Server' on and off, and the messages
           \* answered by 'getMariaDBversion'
  toUI,    \* IPC to the renderer: the status in 'getMariaDBversion'
  toggle,  \* renderer.js: startSQL-toggle is "activate"
  online,  \* renderer.js: the text of status-db is "Online"
  clicks,  \* user actions, exits and crashes so far
  calm     \* the user and the exits waited until nothing was in flight (history)

vars == <<disk, writes, app, status, mysqld, toMain, toUI, toggle, online,
          clicks, calm>>

Alive == {p \in Pids : mysqld[p] \in {"starting", "up"}}

Quiet ==
  /\ Settled
  /\ toMain = <<>> /\ toUI = <<>>
  /\ \A p \in Pids : mysqld[p] # "starting"

-----------------------------------------------------------------------------
(* The user.                                                               *)

UserActs ==
  /\ app = "up"
  /\ clicks < MaxClicks
  /\ clicks' = clicks + 1
  /\ calm' = (calm /\ Quiet)

\* The toggle changes at once and then sends 'SQL-Server' with its new status.
ClickToggle ==
  /\ UserActs
  /\ toggle' = ~toggle
  /\ toMain' = Append(toMain, IF toggle' THEN "on" ELSE "off")
  /\ UNCHANGED <<disk, writes, app, status, mysqld, toUI, online>>

\* The toggle of the Apache mode: 'apache-online' answers with MariaDB's status.
ClickApacheToggle ==
  /\ UserActs
  /\ toMain' = Append(toMain, "get")
  /\ UNCHANGED <<disk, writes, app, status, mysqld, toUI, toggle, online>>

\* app.exit, which waits for no write and no process, or a crash.
Exit ==
  /\ UserActs
  /\ app' = "down"
  /\ Lose
  /\ toMain' = <<>> /\ toUI' = <<>>
  /\ toggle' = FALSE /\ online' = FALSE
  /\ UNCHANGED <<status, mysqld>>

-----------------------------------------------------------------------------
(* The main process.                                                       *)

\* start_mariadb: mysqld.exe is spawned and, whatever becomes of it, the
\* status is Started.
StartMariadb ==
  /\ status' = "Started"
  /\ \E p \in Pids :
       /\ mysqld[p] = "unused" /\ \A q \in Pids : mysqld[q] = "unused" => p <= q
       /\ mysqld' = [mysqld EXCEPT ![p] = "starting"]

\* load_maria_config at launch, and start_mariadb unless it was closed.  A file
\* that cannot be parsed throws.  A new version of MariaDB is one more save.
\* The page then asks for the status before the user can act.
Launch ==
  /\ app = "down"
  /\ \/ /\ disk = Missing
        /\ app' = "up"
        /\ status' = "Closed" /\ UNCHANGED mysqld
        /\ Saves(1, "Closed")
     \/ /\ disk = "Closed"
        /\ app' = "up"
        /\ status' = "Closed" /\ UNCHANGED mysqld
        /\ \E updated \in {0, 1} : Saves(updated, "Closed")
     \/ /\ disk = "Started"
        /\ app' = "up"
        /\ StartMariadb
        /\ \E updated \in {0, 1} : Saves(1 + updated, "Started")
     \/ /\ disk \in {Empty, Garbled}
        /\ app' = "failed"
        /\ UNCHANGED <<status, mysqld, writes>>
  /\ toMain' = IF app' = "up" THEN <<"get">> ELSE <<>>
  /\ UNCHANGED <<disk, toUI, toggle, online, clicks, calm>>

Receive(msg) ==
  /\ app = "up"
  /\ toMain # <<>> /\ Head(toMain) = msg
  /\ toMain' = Tail(toMain)
  /\ UNCHANGED <<disk, app, toggle, online, clicks, calm>>

\* 'SQL-Server' with TRUE.
OnStart ==
  /\ Receive("on")
  /\ StartMariadb
  /\ Saves(1, status')
  /\ toUI' = Append(toUI, status')

\* Seeded defect: the status gets a value nobody knows.
KillStops ==
  /\ Receive("off") /\ Alive # {}
  /\ status' = "Stopped"
  /\ \E p \in Alive : mysqld' = [mysqld EXCEPT ![p] = "dead"]
  /\ Saves(1, status')
  /\ toUI' = Append(toUI, status')

\* Seeded defect: the status is saved as it was.
KillForgets ==
  /\ Receive("off") /\ Alive # {}
  /\ \E p \in Alive : mysqld' = [mysqld EXCEPT ![p] = "dead"]
  /\ Saves(1, status)
  /\ toUI' = Append(toUI, status)
  /\ UNCHANGED status

\* Seeded defect: the status is not saved.
KillUnsaved ==
  /\ Receive("off") /\ Alive # {}
  /\ status' = "Closed"
  /\ \E p \in Alive : mysqld' = [mysqld EXCEPT ![p] = "dead"]
  /\ toUI' = Append(toUI, status')
  /\ UNCHANGED writes

\* Seeded defect: the handler returns before it answers.
KillSilent ==
  /\ Receive("off") /\ Alive # {}
  /\ status' = "Closed"
  /\ \E p \in Alive : mysqld' = [mysqld EXCEPT ![p] = "dead"]
  /\ Saves(1, status')
  /\ UNCHANGED toUI

\* 'SQL-Server' with FALSE: kill_maria_server kills the process tasklist lists
\* first, in an order that is not specified.
OnKill ==
  /\ Receive("off") /\ Alive # {}
  /\ status' = "Closed"
  /\ \E p \in Alive : mysqld' = [mysqld EXCEPT ![p] = "dead"]
  /\ Saves(1, status')
  /\ toUI' = Append(toUI, status')

\* Without a mysqld.exe findstr finds nothing and exits with 1, which execSync
\* throws: the status stays, and the handler does not answer.
OnKillThrows ==
  /\ Receive("off") /\ Alive = {}
  /\ UNCHANGED <<status, mysqld, writes, toUI>>

\* 'getMariaDBversion' of the page, and 'apache-online'.
OnGet ==
  /\ Receive("get")
  /\ toUI' = Append(toUI, status)
  /\ UNCHANGED <<status, mysqld, writes>>

FileStep ==
  /\ app # "down"
  /\ WriteStep
  /\ UNCHANGED <<app, status, mysqld, toMain, toUI, toggle, online, clicks, calm>>

-----------------------------------------------------------------------------
(* mysqld.exe (external): one holds the data directory and port 3306, a    *)
(* second one exits.  The main process only logs that.                     *)


MysqldUp(p) ==
  /\ mysqld[p] = "starting"
  /\ \A q \in Pids : mysqld[q] # "up"
  /\ mysqld' = [mysqld EXCEPT ![p] = "up"]
  /\ UNCHANGED <<disk, writes, app, status, toMain, toUI, toggle, online,
                 clicks, calm>>

MysqldExits(p) ==
  /\ \/ mysqld[p] = "starting" /\ \E q \in Pids : mysqld[q] = "up"
     \/ MayDie /\ p \in Alive
  /\ mysqld' = [mysqld EXCEPT ![p] = "dead"]
  /\ UNCHANGED <<disk, writes, app, status, toMain, toUI, toggle, online,
                 clicks, calm>>

-----------------------------------------------------------------------------
\* The renderer takes 'getMariaDBversion'.
Deliver ==
  /\ app = "up"
  /\ toUI # <<>>
  /\ toUI' = Tail(toUI)
  /\ toggle' = (Head(toUI) = "Started")
  /\ online' = (Head(toUI) = "Started")
  /\ UNCHANGED <<disk, writes, app, status, mysqld, toMain, clicks, calm>>

-----------------------------------------------------------------------------
(* No mysqld.exe runs, or the one a previous session left; the file agrees.*)

Init ==
  /\ FileInit
  /\ app = "down" /\ status = "Closed"
  /\ \E left \in IF disk = "Started" THEN BOOLEAN ELSE {FALSE} :
       mysqld = [p \in Pids |-> IF left /\ \A q \in Pids : p <= q
                               THEN "up" ELSE "unused"]
  /\ toMain = <<>> /\ toUI = <<>>
  /\ toggle = FALSE /\ online = FALSE
  /\ clicks = 0 /\ calm = TRUE

Next ==
  \/ ClickToggle \/ ClickApacheToggle \/ Exit
  \/ Launch \/ OnStart \/ OnKill \/ OnKillThrows \/ OnGet \/ FileStep
  \/ \E p \in Pids : MysqldUp(p) \/ MysqldExits(p)
  \/ Deliver

Spec == Init /\ [][Next]_vars

-----------------------------------------------------------------------------
(* Properties.                                                             *)

\* Every variable has its type.
TypeOK ==
  /\ FileTypeOK
  /\ app \in {"up", "down", "failed"}
  /\ status \in Status
  /\ mysqld \in [Pids -> {"unused", "starting", "up", "dead"}]
  /\ toMain \in Seq({"on", "off", "get"})
  /\ toUI \in Seq(Status)
  /\ {toggle, online, calm} \subseteq BOOLEAN
  /\ clicks \in 0..MaxClicks

\* Clicks at any moment, answers that arrive late and exits: as long as mysqld
\* does not die, a status that says Started means that one runs, also when it
\* was only started to find that another one is there.
StartedRuns == app = "up" /\ status = "Started" => Alive # {}

\* Whatever is clicked, once the messages are delivered the toggle and the text
\* show the status, although a click changes the toggle before anything happened
\* and late answers change it back.
PageAgrees ==
  app = "up" /\ toMain = <<>> /\ toUI = <<>> =>
    /\ toggle = (status = "Started")
    /\ online = (status = "Started")

\* For a user who waits: startup never fails on the file, and once nothing is
\* in flight the status, the file that decides at the next launch, and the
\* processes agree: Closed means that no mysqld.exe is left.
StatusTrue ==
  calm /\ Quiet /\ app # "down" =>
    /\ app = "up"
    /\ disk = status
    /\ status = "Closed" <=> Alive = {}

=============================================================================
