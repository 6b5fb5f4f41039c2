--------------------------- MODULE MariaDbProofs ---------------------------
(***************************************************************************)
(* Proofs about MariaDb, for any processes, slots and bounds.              *)
(***************************************************************************)
EXTENDS MariaDb, JsonFileProofs, TLAPS

Msg == {"on", "off", "get"}

LEMMA AppendStatus ==
  ASSUME NEW s \in Seq(Status), NEW v \in Status
  PROVE  /\ Append(s, v) \in Seq(Status)
         /\ Append(s, v) # <<>>
         /\ Len(Append(s, v)) = Len(s) + 1
         /\ Append(s, v)[Len(s) + 1] = v
OBVIOUS

LEMMA StartType ==
  ASSUME TypeOK, StartMariadb
  PROVE  /\ status' = "Started"
         /\ mysqld' \in [Pids -> {"unused", "starting", "up", "dead"}]
         /\ \E p \in Pids : mysqld'[p] = "starting"
BY DEF StartMariadb, TypeOK

LEMMA ClicksType ==
  ASSUME TypeOK, UserActs
  PROVE  clicks' \in 0..MaxClicks /\ calm' \in BOOLEAN /\ app = "up"
BY MariaDbAssumption DEF TypeOK, UserActs

\* The main process takes a message.
LEMMA ReceiveType ==
  ASSUME TypeOK, NEW m, Receive(m)
  PROVE  /\ app = "up" /\ toMain # <<>> /\ Head(toMain) = m
         /\ toMain' = Tail(toMain) /\ toMain' \in Seq(Msg)
         /\ UNCHANGED <<disk, app, toggle, online, clicks, calm>>
BY DEF Receive, TypeOK, Msg

-----------------------------------------------------------------------------
(* Type correctness.                                                       *)

LEMMA UserType ==
  ASSUME TypeOK, ClickToggle \/ ClickApacheToggle \/ Exit PROVE TypeOK'
<1>1. CASE ClickToggle
  <2>1. toMain' \in Seq({"on", "off", "get"})
    BY <1>1 DEF ClickToggle, TypeOK
  <2>2. toggle' \in BOOLEAN
    BY <1>1, ZenonT(20) DEF ClickToggle, TypeOK
  <2> QED BY <1>1, <2>1, <2>2, ClicksType
          DEF ClickToggle, TypeOK, FileTypeOK
<1>2. CASE ClickApacheToggle
  <2>1. toMain' \in Seq({"on", "off", "get"})
    BY <1>2 DEF ClickApacheToggle, TypeOK
  <2> QED BY <1>2, <2>1, ClicksType DEF ClickApacheToggle, TypeOK, FileTypeOK
<1>3. CASE Exit
  <2>1. FileTypeOK'
    BY <1>3 DEF Exit, Lose, FileTypeOK, NoWrite, Write, TypeOK
  <2>2. toMain' \in Seq({"on", "off", "get"}) /\ toUI' \in Seq(Status)
    BY <1>3 DEF Exit
  <2> QED BY <1>3, <2>1, <2>2, ClicksType DEF Exit, TypeOK
<1> QED BY <1>1, <1>2, <1>3

LEMMA LaunchType ==
  ASSUME TypeOK, Launch PROVE TypeOK'
<1>1. /\ status' \in Status
      /\ mysqld' \in [Pids -> {"unused", "starting", "up", "dead"}]
      /\ app' \in {"up", "failed"}
  BY StartType DEF Launch, TypeOK, Status
<1>2. FileTypeOK'
  <2>1. disk' = disk
    BY DEF Launch
  <2>2. \/ UNCHANGED writes
        \/ Saves(1, "Closed")
        \/ \E updated \in {0, 1} : Saves(updated, "Closed")
        \/ \E updated \in {0, 1} : Saves(1 + updated, "Started")
    BY Zenon DEF Launch
  <2>3. "Closed" \in Status /\ "Started" \in Status
    BY DEF Status
  <2> QED BY <2>1, <2>2, <2>3, SavesType, StatusAssumption DEF TypeOK,
             FileTypeOK
<1>3. toMain' \in Seq({"on", "off", "get"})
  <2>1. toMain' = <<"get">> \/ toMain' = <<>>
    BY Zenon DEF Launch
  <2>2. <<"get">> \in Seq({"on", "off", "get"}) /\ <<>> \in Seq({"on", "off", "get"})
    OBVIOUS
  <2> QED BY <2>1, <2>2, Zenon
<1> QED BY <1>1, <1>2, <1>3 DEF Launch, TypeOK

LEMMA HandlersType ==
  ASSUME TypeOK, OnStart \/ OnKill \/ OnKillThrows \/ OnGet PROVE TypeOK'
<1>1. /\ toMain' \in Seq({"on", "off", "get"})
      /\ UNCHANGED <<disk, app, toggle, online, clicks, calm>>
  BY ReceiveType DEF OnStart, OnKill, OnKillThrows, OnGet, Msg
<1>2. /\ status' \in Status
      /\ mysqld' \in [Pids -> {"unused", "starting", "up", "dead"}]
  BY StartType DEF OnStart, OnKill, OnKillThrows, OnGet, TypeOK, Status, Alive
<1>3. FileTypeOK'
  <2>1. UNCHANGED writes \/ Saves(1, status')
    BY DEF OnStart, OnKill, OnKillThrows, OnGet
  <2> QED BY <1>1, <1>2, <2>1, SavesType, StatusAssumption
         DEF TypeOK, FileTypeOK
<1>4. toUI' \in Seq(Status)
  BY <1>2, AppendStatus DEF OnStart, OnKill, OnKillThrows, OnGet, TypeOK
<1> QED BY <1>1, <1>2, <1>3, <1>4 DEF TypeOK

LEMMA OthersType ==
  ASSUME TypeOK,
         FileStep \/ Deliver \/ \E p \in Pids : MysqldUp(p) \/ MysqldExits(p)
  PROVE  TypeOK'
<1>1. CASE FileStep
  BY <1>1, StepFileType DEF FileStep, TypeOK
<1>2. CASE Deliver
  <2>1. toUI' \in Seq(Status)
    BY <1>2 DEF Deliver, TypeOK
  <2>2. toggle' \in BOOLEAN /\ online' \in BOOLEAN
    BY <1>2, Zenon DEF Deliver
  <2> QED BY <1>2, <2>1, <2>2 DEF Deliver, TypeOK, FileTypeOK
<1>3. ASSUME NEW p \in Pids, MysqldUp(p) \/ MysqldExits(p) PROVE TypeOK'
  <2>1. mysqld' \in [Pids -> {"unused", "starting", "up", "dead"}]
    BY <1>3 DEF MysqldUp, MysqldExits, TypeOK
  <2> QED BY <1>3, <2>1 DEF MysqldUp, MysqldExits, TypeOK, FileTypeOK
<1> QED BY <1>1, <1>2, <1>3

LEMMA InitType == ASSUME Init PROVE TypeOK
<1>1. FileTypeOK
  BY DEF Init, FileInit, FileTypeOK, NoWrite, Write
<1>2. mysqld \in [Pids -> {"unused", "starting", "up", "dead"}]
  BY DEF Init
<1>3. clicks \in 0..MaxClicks
  BY MariaDbAssumption DEF Init
<1>4. toMain \in Seq({"on", "off", "get"}) /\ toUI \in Seq(Status)
  BY DEF Init
<1> QED BY <1>1, <1>2, <1>3, <1>4 DEF Init, TypeOK, Status

\* Every reachable state is well typed.
THEOREM TypeCorrect == Spec => []TypeOK
<1>1. TypeOK /\ [Next]_vars => TypeOK'
  <2>1. TypeOK /\ UNCHANGED vars => TypeOK'
    BY DEF vars, TypeOK, FileTypeOK
  <2> QED BY <2>1, UserType, LaunchType, HandlersType, OthersType DEF Next
<1> QED BY <1>1, InitType, PTL DEF Spec

-----------------------------------------------------------------------------
(* Started means that one runs.                                            *)

\* StartedRuns without its condition, which the exit of the app would break.
Running == status = "Started" => Alive # {}

LEMMA RunningKept ==
  ASSUME MayDie = FALSE, TypeOK, Running, [Next]_vars PROVE Running'
<1>1. CASE OnStart \/ (Launch /\ StartMariadb)
  BY <1>1, StartType DEF OnStart, Running, Alive
<1>2. CASE OnKill
  BY <1>2 DEF OnKill, Running
<1>3. ASSUME NEW p \in Pids, MysqldUp(p) PROVE Running'
  BY <1>3 DEF MysqldUp, Running, Alive, TypeOK
<1>4. ASSUME NEW p \in Pids, MysqldExits(p) PROVE Running'
  <2>1. PICK q \in Pids : mysqld[p] = "starting" /\ mysqld[q] = "up"
    BY <1>4 DEF MysqldExits
  <2>2. mysqld'[q] = "up"
    BY <1>4, <2>1 DEF MysqldExits, TypeOK
  <2> QED BY <2>2 DEF Running, Alive
<1>5. CASE Launch /\ status' = "Closed"
  BY <1>5 DEF Running
<1>6. CASE UNCHANGED <<status, mysqld>>
  BY <1>6 DEF Running, Alive
<1> QED BY <1>1, <1>2, <1>3, <1>4, <1>5, <1>6
        DEF Next, vars, ClickToggle, ClickApacheToggle, Exit, OnKillThrows,
            OnGet,
            FileStep, Deliver, Launch

\* A status that says Started means that a mysqld.exe runs, as long as none
\* dies by itself.
THEOREM StartedMeansRunning ==
  ASSUME MayDie = FALSE PROVE Spec => []StartedRuns
<1>1. Init => Running
  BY DEF Init, Running
<1>2. TypeOK /\ Running /\ [Next]_vars => Running'
  BY RunningKept
<1>3. Running => StartedRuns
  BY DEF Running, StartedRuns
<1> QED BY <1>1, <1>2, <1>3, TypeCorrect, PTL DEF Spec

-----------------------------------------------------------------------------
(* The page.                                                               *)

\* The page has asked for the status after the launch and has no answer yet.
Asking == toMain # <<>> /\ Head(toMain) = "get" /\ toUI = <<>>

\* The last click on the toggle has not been taken yet.
Clicked ==
  \E n \in 1..Len(toMain) :
    /\ toMain[n] = IF toggle THEN "on" ELSE "off"
    /\ \A m \in 1..Len(toMain) : m > n => toMain[m] = "get"

\* What is shown, or about to be shown, is the status: the last answer on its
\* way says so, or the page already does, but for a click that is on its way.
Answered == toUI # <<>> /\ toUI[Len(toUI)] = status

Shown ==
  /\ toUI = <<>>
  /\ online = (status = "Started")
  /\ toggle = (status = "Started") \/ Clicked

PageInv ==
  /\ app = "up" => Answered \/ Asking \/ Shown
  /\ app = "down" => toUI = <<>>

\* A queue after Append and Tail.
LEMMA QueueAfter ==
  ASSUME NEW s \in Seq(Msg)
  PROVE  /\ \A m \in Msg : /\ Append(s, m) \in Seq(Msg)
                           /\ Len(Append(s, m)) = Len(s) + 1
                           /\ Append(s, m)[Len(s) + 1] = m
                           /\ \A i \in 1..Len(s) : Append(s, m)[i] = s[i]
         /\ s # <<>> => /\ Len(Tail(s)) = Len(s) - 1
                        /\ \A i \in 1..Len(s)-1 : Tail(s)[i] = s[i + 1]
                        /\ Head(s) = s[1]
         /\ Len(s) \in Nat
         /\ s # <<>> => Len(s) > 0
OBVIOUS

\* A click is on its way at once, and its answer or the launch's with it.
LEMMA PageClick ==
  ASSUME TypeOK, PageInv, ClickToggle PROVE PageInv'
<1>1. app = "up" /\ app' = "up" /\ UNCHANGED <<status, toUI, online>>
  BY DEF ClickToggle, UserActs
<1>2. toMain' = Append(toMain, IF toggle' THEN "on" ELSE "off")
  BY DEF ClickToggle
<1>3. toMain \in Seq(Msg) /\ (IF toggle' THEN "on" ELSE "off") \in Msg
  BY DEF TypeOK, Msg
<1>4. Clicked'
  <2>1. /\ toMain'[Len(toMain')] = IF toggle' THEN "on" ELSE "off"
        /\ Len(toMain') \in 1..Len(toMain')
        /\ \A m \in 1..Len(toMain') : m > Len(toMain') => toMain'[m] = "get"
    BY <1>2, <1>3, QueueAfter
  <2> QED BY <2>1 DEF Clicked
<1>5. Asking => Asking'
  <2>1. toMain # <<>> => toMain' # <<>> /\ Head(toMain') = Head(toMain)
    BY <1>2, <1>3
  <2> QED BY <1>1, <2>1 DEF Asking
<1> QED BY <1>1, <1>4, <1>5 DEF PageInv, Answered, Shown

LEMMA PageApacheClick ==
  ASSUME TypeOK, PageInv, ClickApacheToggle PROVE PageInv'
<1>1. app = "up" /\ app' = "up" /\ UNCHANGED <<status, toUI, online, toggle>>
  BY DEF ClickApacheToggle, UserActs
<1>2. toMain' = Append(toMain, "get") /\ toMain \in Seq(Msg) /\ "get" \in Msg
  BY DEF ClickApacheToggle, TypeOK, Msg
<1>3. Clicked => Clicked'
  <2>1. SUFFICES ASSUME NEW n \in 1..Len(toMain),
                        toMain[n] = IF toggle THEN "on" ELSE "off",
                        \A m \in 1..Len(toMain) : m > n => toMain[m] = "get"
                 PROVE  Clicked'
    BY DEF Clicked
  <2>2. n \in 1..Len(toMain') /\ toMain'[n] = toMain[n]
    BY <1>2, QueueAfter
  <2>3. \A m \in 1..Len(toMain') : m > n => toMain'[m] = "get"
    BY <1>2, <2>1, QueueAfter
  <2>4. toMain'[n] = IF toggle' THEN "on" ELSE "off"
    BY <1>1, <2>1, <2>2
  <2> QED BY <2>2, <2>3, <2>4 DEF Clicked
<1>4. Asking => Asking'
  <2>1. toMain # <<>> => toMain' # <<>> /\ Head(toMain') = Head(toMain)
    BY <1>2
  <2> QED BY <1>1, <2>1 DEF Asking
<1> QED BY <1>1, <1>3, <1>4 DEF PageInv, Answered, Shown

LEMMA PageAnswers ==
  ASSUME TypeOK, PageInv, OnStart \/ OnKill \/ OnGet PROVE PageInv'
<1>1. app' = "up" /\ toUI' = Append(toUI, status') /\ status' \in Status
  BY DEF OnStart, OnKill, OnGet, Receive, StartMariadb, TypeOK, Status
<1> QED BY <1>1, AppendStatus DEF PageInv, Answered, TypeOK

\* When kill_maria_server throws no mysqld.exe runs, so the status is Closed:
\* the click that is taken was the last one to ask for that, or not the last.
LEMMA PageThrows ==
  ASSUME TypeOK, Running, PageInv, OnKillThrows PROVE PageInv'
<1>1. /\ app = "up" /\ app' = "up" /\ toMain # <<>> /\ Head(toMain) = "off"
      /\ toMain' = Tail(toMain) /\ toMain \in Seq(Msg)
      /\ UNCHANGED <<status, toUI, online, toggle>>
  BY DEF OnKillThrows, Receive, TypeOK, Msg
<1>2. ~ (status = "Started")
  BY DEF OnKillThrows, Running
<1>3. Clicked => Clicked' \/ toggle = FALSE
  <2>1. SUFFICES ASSUME NEW n \in 1..Len(toMain),
                        toMain[n] = IF toggle THEN "on" ELSE "off",
                        \A m \in 1..Len(toMain) : m > n => toMain[m] = "get"
                 PROVE  Clicked' \/ toggle = FALSE
    BY DEF Clicked
  <2>2. CASE n = 1
    <3>1. toMain[n] = "off"
      BY <1>1, <2>2, QueueAfter
    <3>2. ~ (toggle = TRUE)
      BY <2>1, <3>1
    <3> QED BY <3>2, Zenon DEF TypeOK
  <2>3. CASE n > 1
    <3>1. n - 1 \in 1..Len(toMain') /\ toMain'[n - 1] = toMain[n]
      BY <1>1, <2>3, QueueAfter
    <3>2. \A m \in 1..Len(toMain') : m > n - 1 => toMain'[m] = "get"
      BY <1>1, <2>1, QueueAfter
    <3>3. toMain'[n - 1] = IF toggle' THEN "on" ELSE "off"
      BY <1>1, <2>1, <3>1
    <3> QED BY <3>1, <3>2, <3>3 DEF Clicked
  <2>4. n = 1 \/ n > 1
    OBVIOUS
  <2> QED BY <2>2, <2>3, <2>4, Zenon
<1>4. ~ Asking
  BY <1>1 DEF Asking
<1>5. Answered => Answered'
  BY <1>1 DEF Answered
<1>6. Shown => Shown'
  <2>1. Shown => (toggle = FALSE \/ Clicked')
    BY <1>2, <1>3, Zenon DEF Shown, TypeOK
  <2> QED BY <1>1, <1>2, <2>1, Zenon DEF Shown
<1> QED BY <1>1, <1>4, <1>5, <1>6 DEF PageInv

LEMMA LenNonEmpty ==
  ASSUME NEW s \in Seq(Status), s # <<>>
  PROVE  Len(s) = 1 \/ Len(s) > 1
<1>1. Len(s) \in Nat
  OBVIOUS
<1>2. Len(s) # 0
  OBVIOUS
<1>3. \A n \in Nat : n # 0 => n = 1 \/ n > 1
  OBVIOUS
<1> QED BY <1>1, <1>2, <1>3, Zenon

LEMMA PageDelivers ==
  ASSUME TypeOK, PageInv, Deliver PROVE PageInv'
<1>1. /\ app' = "up" /\ toUI # <<>> /\ toUI' = Tail(toUI)
      /\ toUI \in Seq(Status)
      /\ UNCHANGED <<status, toMain>>
  BY DEF Deliver, TypeOK
<1>2. Answered
  BY <1>1, Zenon DEF PageInv, Asking, Shown, Deliver
<1>3. CASE Len(toUI) = 1
  <2>1. toUI' = <<>> /\ Head(toUI) = status
    BY <1>1, <1>2, <1>3 DEF Answered
  <2> QED BY <1>1, <2>1, Zenon DEF Deliver, PageInv, Shown
<1>4. CASE Len(toUI) > 1
  <2>1. toUI' # <<>> /\ toUI'[Len(toUI')] = toUI[Len(toUI)]
    BY <1>1, <1>4
  <2> QED BY <1>1, <1>2, <2>1 DEF PageInv, Answered
<1>5. Len(toUI) = 1 \/ Len(toUI) > 1
  BY <1>1, LenNonEmpty
<1> QED BY <1>3, <1>4, <1>5, Zenon

LEMMA PageKept ==
  ASSUME TypeOK, Running, PageInv, [Next]_vars PROVE PageInv'
<1>1. CASE Launch
  <2>1. app' # "down" /\ toUI' = <<>> /\ (app' = "up" => toMain' = <<"get">>)
    BY <1>1 DEF Launch, PageInv
  <2> QED BY <2>1 DEF PageInv, Asking
<1>2. CASE Exit
  BY <1>2 DEF Exit, PageInv
<1>3. CASE UNCHANGED <<app, status, toMain, toUI, toggle, online>>
  BY <1>3 DEF PageInv, Answered, Asking, Shown, Clicked
<1> QED BY <1>1, <1>2, <1>3, PageClick, PageApacheClick, PageAnswers,
           PageThrows,
           PageDelivers
        DEF Next, vars, FileStep, MysqldUp, MysqldExits

\* Once the messages are delivered the toggle and the text show the status,
\* whatever was clicked and however late the answers came.
THEOREM PageTellsTruth ==
  ASSUME MayDie = FALSE PROVE Spec => []PageAgrees
<1>1. Init => Running /\ PageInv
  BY DEF Init, Running, PageInv
<1>2. TypeOK /\ Running /\ PageInv /\ [Next]_vars => (Running /\ PageInv)'
  BY RunningKept, PageKept
<1>3. TypeOK /\ PageInv => PageAgrees
  <2>1. toMain = <<>> => ~ Clicked
    BY DEF Clicked
  <2> QED BY <2>1 DEF PageInv, PageAgrees, Answered, Asking, Shown
<1> QED BY <1>1, <1>2, <1>3, TypeCorrect, PTL DEF Spec

-----------------------------------------------------------------------------
(* A user who waits.                                                       *)

NoneStarting == \A p \in Pids : mysqld[p] # "starting"

\* The data directory has one holder, and what a session had in flight is lost
\* with it: of every state, calm or not.
OneUp == \A p, q \in Pids : mysqld[p] = "up" /\ mysqld[q] = "up" => p = q

Lost == app = "down" => Settled

\* A click is taken where nothing else goes on; only the question of the page
\* at launch and the Apache toggle's come with something in flight.
OneMessage ==
  \/ toMain \in {<<>>, <<"get">>}
  \/ toMain \in {<<"on">>, <<"off">>} /\ Settled /\ NoneStarting

\* The session that ended left a file the next launch accepts, and no process
\* the file does not know of.
LeftOver ==
  /\ disk \in Status \cup {Missing}
  /\ NoneStarting
  /\ disk # "Started" => Alive = {}

CalmUp ==
  /\ Becomes(status)
  /\ OneMessage
  /\ status = "Closed" => Alive = {}

CalmInv ==
  /\ OneUp
  /\ Lost
  /\ calm => /\ app # "failed"
             /\ app = "down" => LeftOver
             /\ app = "up" => CalmUp

LEMMA OneUpKept ==
  ASSUME TypeOK, OneUp, [Next]_vars PROVE OneUp'
<1>1. CASE StartMariadb
  BY <1>1 DEF StartMariadb, OneUp, TypeOK
<1>2. CASE OnKill
  BY <1>2 DEF OnKill, OneUp, TypeOK, Alive
<1>3. ASSUME NEW p \in Pids, MysqldUp(p) PROVE OneUp'
  BY <1>3 DEF MysqldUp, OneUp, TypeOK
<1>4. ASSUME NEW p \in Pids, MysqldExits(p) PROVE OneUp'
  BY <1>4 DEF MysqldExits, OneUp, TypeOK
<1>5. CASE UNCHANGED mysqld
  BY <1>5 DEF OneUp
<1> QED BY <1>1, <1>2, <1>3, <1>4, <1>5
        DEF Next, vars, ClickToggle, ClickApacheToggle, Exit, OnStart,
            OnKillThrows, OnGet, FileStep, Deliver, Launch

LEMMA LostKept ==
  ASSUME TypeOK, Lost, [Next]_vars PROVE Lost'
<1>1. CASE Exit
  BY <1>1 DEF Exit, Lose, Lost, Settled, InFlight, NoWrite
<1>2. CASE app' # "down"
  BY <1>2 DEF Lost
<1>3. CASE UNCHANGED <<app, writes>>
  BY <1>3 DEF Lost, Settled, InFlight
<1> QED BY <1>1, <1>2, <1>3
        DEF Next, vars, ClickToggle, ClickApacheToggle, UserActs, Receive,
            Launch,
            OnStart, OnKill, OnKillThrows, OnGet, FileStep, MysqldUp,
            MysqldExits,
            Deliver

\* The launch finds a file it can read; whatever it starts, the status says so.
LEMMA CalmLaunch ==
  ASSUME TypeOK, CalmInv, Launch, calm PROVE app' = "up" /\ CalmUp'
<1>1. app = "down" /\ LeftOver /\ Settled /\ UNCHANGED disk
  BY DEF Launch, CalmInv, Lost
<1>2. disk \notin {Empty, Garbled}
  BY <1>1, SpecialFiles, StatusAssumption DEF LeftOver
<1>3. app' = "up"
  BY <1>2 DEF Launch
<1>4. OneMessage'
  BY <1>3 DEF Launch, OneMessage
<1>5. (disk = "Started" /\ StartMariadb) \/ (status' = "Closed" /\ UNCHANGED mysqld)
  BY <1>2 DEF Launch
<1>6. status' = "Closed" => Alive' = {}
  <2>1. disk = "Started" => status' = "Started"
    BY <1>2, SpecialFiles, StatusAssumption DEF Launch, StartMariadb, Status
  <2> QED BY <1>1, <1>5, <2>1 DEF LeftOver, Alive
<1>7. Becomes(status)'
  <2>1. CASE disk = Missing
    <3>1. Saves(1, "Closed") /\ status' = "Closed"
      BY <2>1, SpecialFiles, StatusAssumption DEF Launch, Status
    <3> QED BY <1>1, <3>1, SavesBecome
  <2>2. CASE disk = "Closed"
    <3>1. status' = "Closed" /\ \E updated \in {0, 1} : Saves(updated, "Closed")
      BY <2>2, SpecialFiles, StatusAssumption DEF Launch, Status
    <3> QED BY <1>1, <2>2, <3>1, SavesAgain
  <2>3. CASE disk = "Started"
    <3>1. /\ status' = "Started"
          /\ \E updated \in {0, 1} : Saves(1 + updated, "Started")
      BY <2>3, SpecialFiles, StatusAssumption DEF Launch, Status, StartMariadb
    <3> QED BY <1>1, <2>3, <3>1, SavesAgain
  <2> QED BY <1>1, <2>1, <2>2, <2>3 DEF LeftOver, Status
<1> QED BY <1>3, <1>4, <1>6, <1>7 DEF CalmUp

\* A click, or an exit, of a user who has waited until nothing is in flight.
LEMMA CalmUser ==
  ASSUME TypeOK, CalmInv, UserActs, calm'
  PROVE  app = "up" /\ calm /\ Quiet /\ CalmUp /\ disk = status
BY SettledBecomes DEF UserActs, CalmInv, CalmUp, Quiet

LEMMA CalmClick ==
  ASSUME TypeOK, CalmInv, ClickToggle \/ ClickApacheToggle, calm'
  PROVE  app' = "up" /\ CalmUp'
<1>1. /\ app = "up" /\ Quiet /\ CalmUp
      /\ UNCHANGED <<disk, writes, app, status, mysqld>>
  BY CalmUser DEF ClickToggle, ClickApacheToggle
<1>2. toMain' \in {<<"on">>, <<"off">>, <<"get">>}
  <2>1. Append(<<>>, "on") = <<"on">> /\ Append(<<>>, "off") = <<"off">>
        /\ Append(<<>>, "get") = <<"get">>
    OBVIOUS
  <2> QED BY <1>1, <2>1 DEF Quiet, ClickToggle, ClickApacheToggle
<1>3. OneMessage'
  BY <1>1, <1>2 DEF OneMessage, Quiet, NoneStarting, Settled, InFlight
<1> QED BY <1>1, <1>3 DEF CalmUp, Becomes, InFlight, Alive

LEMMA CalmExit ==
  ASSUME TypeOK, CalmInv, Exit, calm' PROVE app' = "down" /\ LeftOver'
BY CalmUser DEF Exit, Lose, LeftOver, CalmUp, Quiet, NoneStarting, Alive,
   TypeOK,
                Status

\* The main process takes the only message.
LEMMA CalmReceives ==
  ASSUME TypeOK, CalmInv, NEW m, Receive(m), calm
  PROVE  /\ app' = "up" /\ CalmUp
         /\ toMain' = <<>>
         /\ m \in {"on", "off"} => Settled /\ NoneStarting
BY DEF Receive, CalmInv, CalmUp, OneMessage

\* A start ends with the status Started, the file soon says so, and one runs.
LEMMA CalmStart ==
  ASSUME TypeOK, CalmInv, OnStart, calm PROVE app' = "up" /\ CalmUp'
<1>1. /\ app' = "up" /\ Settled /\ toMain' = <<>> /\ UNCHANGED disk
  BY CalmReceives DEF OnStart, Receive
<1>2. status' = "Started" /\ Saves(1, "Started")
  BY DEF OnStart, StartMariadb
<1>3. Becomes(status)'
  BY <1>1, <1>2, SavesBecome
<1> QED BY <1>1, <1>2, <1>3 DEF CalmUp, OneMessage

\* A kill ends the only mysqld.exe there is.
LEMMA CalmKill ==
  ASSUME TypeOK, CalmInv, OnKill, calm PROVE app' = "up" /\ CalmUp'
<1>1. /\ app' = "up" /\ Settled /\ NoneStarting /\ toMain' = <<>>
      /\ UNCHANGED disk
  BY CalmReceives DEF OnKill, Receive
<1>2. status' = "Closed" /\ Saves(1, "Closed")
  BY DEF OnKill
<1>3. Becomes(status)'
  BY <1>1, <1>2, SavesBecome
<1>4. PICK p \in Alive : mysqld' = [mysqld EXCEPT ![p] = "dead"]
  BY DEF OnKill
<1>5. \A q \in Alive : q = p
  BY <1>1 DEF NoneStarting, Alive, CalmInv, OneUp
<1>6. Alive' = {}
  BY <1>4, <1>5 DEF Alive, TypeOK
<1> QED BY <1>1, <1>2, <1>3, <1>6 DEF CalmUp, OneMessage

LEMMA CalmNothing ==
  ASSUME TypeOK, CalmInv, OnKillThrows \/ OnGet, calm PROVE app' = "up" /\ CalmUp'
<1>1. /\ app' = "up" /\ CalmUp /\ toMain' = <<>>
      /\ UNCHANGED <<disk, writes, status, mysqld>>
  BY CalmReceives DEF OnKillThrows, OnGet, Receive
<1> QED BY <1>1 DEF CalmUp, OneMessage, Becomes, InFlight, Alive

\* A write of the status changes nothing but the file; where a click is on its
\* way, or the app is down, there is none.
LEMMA CalmWrites ==
  ASSUME TypeOK, CalmInv, FileStep, calm PROVE app' = "up" /\ CalmUp'
<1>1. /\ app = "up" /\ app' = "up" /\ CalmUp /\ WriteStep
      /\ UNCHANGED <<status, mysqld, toMain>>
  BY DEF FileStep, CalmInv, TypeOK
<1>2. Becomes(status)'
  <2>1. status \in Values /\ status' = status
    BY <1>1, StatusAssumption DEF TypeOK
  <2> QED BY <1>1, <2>1, StepBecomes DEF CalmUp, TypeOK, Becomes
<1>3. ~ Settled
  BY <1>1 DEF WriteStep, OpenFile, WriteText, Settled, InFlight
<1> QED BY <1>1, <1>2, <1>3 DEF CalmUp, OneMessage, Alive

\* A process comes up, or exits because there is one: one still runs.
LEMMA CalmProcesses ==
  ASSUME MayDie = FALSE, TypeOK, CalmInv, calm, NEW p \in Pids,
         MysqldUp(p) \/ MysqldExits(p)
  PROVE  app = "up" /\ app' = "up" /\ CalmUp'
<1>1. /\ p \in Alive /\ mysqld[p] = "starting"
      /\ UNCHANGED <<disk, writes, app, status, toMain>>
  BY DEF MysqldUp, MysqldExits, Alive
<1>2. app = "up" /\ CalmUp
  BY <1>1 DEF CalmInv, LeftOver, NoneStarting, TypeOK
<1> QED BY <1>1, <1>2 DEF CalmUp, OneMessage, NoneStarting, Becomes, InFlight

LEMMA CalmKept ==
  ASSUME MayDie = FALSE, TypeOK, CalmInv, [Next]_vars PROVE CalmInv'
<1>1. OneUp' /\ Lost'
  BY OneUpKept, LostKept DEF CalmInv
<1>2. calm' => calm
  BY DEF Next, vars, ClickToggle, ClickApacheToggle, Exit, UserActs, Receive,
         Launch, OnStart, OnKill, OnKillThrows, OnGet, FileStep, MysqldUp,
         MysqldExits, Deliver
<1>3. SUFFICES ASSUME calm'
               PROVE  \/ app' = "up" /\ CalmUp'
                      \/ app' = "down" /\ LeftOver'
  BY <1>1 DEF CalmInv
<1>4. CASE UNCHANGED <<disk, writes, app, status, mysqld, toMain, calm>>
  BY <1>3, <1>4 DEF CalmInv, CalmUp, LeftOver, OneMessage, NoneStarting,
     Becomes,
                    Settled, InFlight, Alive, TypeOK
<1> QED BY <1>2, <1>3, <1>4, CalmLaunch, CalmClick, CalmExit, CalmStart,
           CalmKill,
           CalmNothing, CalmWrites, CalmProcesses
        DEF Next, vars, Deliver

LEMMA CalmInit == ASSUME Init PROVE CalmInv
<1>1. OneUp
  BY MariaDbAssumption DEF Init, OneUp
<1>2. Lost
  BY DEF Init, FileInit, Lost, Settled, InFlight, NoWrite
<1>3. LeftOver
  BY StatusAssumption DEF Init, FileInit, LeftOver, NoneStarting, Alive
<1> QED BY <1>1, <1>2, <1>3 DEF Init, CalmInv

\* For a user who waits startup never fails, and once nothing is in flight the
\* status, the file and the processes agree, as long as no mysqld.exe dies by
\* itself.
THEOREM StatusTellsTruth ==
  ASSUME MayDie = FALSE PROVE Spec => []StatusTrue
<1>1. Init => Running /\ CalmInv
  BY CalmInit DEF Init, Running
<1>2. TypeOK /\ Running /\ CalmInv /\ [Next]_vars => (Running /\ CalmInv)'
  BY RunningKept, CalmKept
<1>3. TypeOK /\ Running /\ CalmInv => StatusTrue
  <2>1. ASSUME TypeOK, Running, CalmInv, calm, Quiet, app # "down"
        PROVE  app = "up" /\ disk = status /\ (status = "Closed" <=> Alive = {})
    <3>1. app = "up" /\ CalmUp
      BY <2>1 DEF CalmInv, TypeOK
    <3> QED BY <2>1, <3>1, SettledBecomes
            DEF CalmUp, Quiet, Running, TypeOK, Status
  <2> QED BY <2>1 DEF StatusTrue
<1> QED BY <1>1, <1>2, <1>3, TypeCorrect, PTL DEF Spec

=============================================================================
