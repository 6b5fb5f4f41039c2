-------------------------- MODULE HttpdConfProofs --------------------------
(***************************************************************************)
(* Proofs about HttpdConf, for any projects, versions, slots for calls and *)
(* texts at launch.                                                        *)
(***************************************************************************)
EXTENDS HttpdConf, TLAPS

\* The calls whose argument fits their stage: the part of TypeOK about job.
Fits(c) ==
  /\ c \in Job
  /\ c.stage = "www" => c.arg \in Projects
  /\ c.stage \in {"root", "php", "phpend", "inidir", "index"} =>
       c.arg \in Versions

(* The texts.                                                              *)

LEMMA EmptyType == Empty \in Text /\ Default \in Text
BY DEF Empty, Default, Text, Folder

\* An edit of a text is a text.
LEMMA EditType ==
  ASSUME NEW t \in Text, NEW v \in Versions, NEW p \in Projects
  PROVE  /\ EditRoot(t) \in Text
         /\ EditPhp(t, v) \in Text
         /\ EditIndex(t) \in Text
         /\ EditWww(t, p) \in Text
<1>1. EditRoot(t) \in Text
  BY DEF EditRoot, Text
<1>2. EditPhp(t, v) \in Text
  BY DEF EditPhp, Text
<1>3. EditIndex(t) \in Text
  BY DEF EditIndex, Text
<1>4. EditWww(t, p) \in Text
  BY DEF EditWww, Text, Folder
<1> QED BY <1>1, <1>2, <1>3, <1>4

\* Overlapping writes leave a text.
LEMMA OverlayType ==
  ASSUME NEW t \in Text, NEW c \in Text
  PROVE  Overlays(t, c) \subseteq Text
<1>1. [c EXCEPT !.php = t.php, !.ini = t.ini, !.junk = TRUE] \in Text
  BY DEF Text
<1>2. ASSUME NEW v \in IF t.php = None THEN {None, c.php} ELSE {t.php}
      PROVE  [t EXCEPT !.junk = TRUE, !.php = v, !.ini = v] \in Text
  <2>1. v \in Versions \cup {None}
    BY DEF Text
  <2> QED BY <2>1 DEF Text
<1> QED BY <1>1, <1>2 DEF Overlays

(* The calls.                                                              *)

LEMMA CallType ==
  /\ Fits(Idle)
  /\ Fits(Recreate)
  /\ \A v \in Versions, again, load \in BOOLEAN : Fits(Instantiate(v, again, load))
  /\ \A p \in Projects : Fits(ChangeWww(p))
<1>1. Fits(Idle)
  BY EmptyType DEF Idle, Call, Fits, Job, Stage
<1>2. Fits(Recreate)
  BY EmptyType DEF Recreate, Call, Fits, Job, Stage
<1>3. ASSUME NEW v \in Versions, NEW again \in BOOLEAN, NEW load \in BOOLEAN
      PROVE  Fits(Instantiate(v, again, load))
  BY EmptyType DEF Instantiate, Call, Fits, Job, Stage
<1>4. ASSUME NEW p \in Projects PROVE Fits(ChangeWww(p))
  BY EmptyType DEF ChangeWww, Call, Fits, Job, Stage
<1> QED BY <1>1, <1>2, <1>3, <1>4

LEMMA ReturnedType ==
  ASSUME TypeOK, NEW c PROVE Fits(Returned(c))
BY CallType DEF Returned, TypeOK

\* The calls fit after a step that changes one of them.
LEMMA OneCall ==
  ASSUME TypeOK, NEW j \in Jobs, NEW c, Fits(c), job' = [job EXCEPT ![j] = c]
  PROVE  job' \in [Jobs -> Job] /\ \A i \in Jobs : Fits(job'[i])
BY DEF TypeOK, Fits

LEMMA CatchType ==
  ASSUME TypeOK, NEW j \in Jobs, job[j].arg \in Versions, Catch(j)
  PROVE  job' \in [Jobs -> Job] /\ \A i \in Jobs : Fits(job'[i])
<1>1. CASE job' = [job EXCEPT ![j] = Idle]
  BY <1>1, CallType, OneCall
<1>2. ASSUME NEW i \in Jobs \ {j}, NEW k \in Jobs \ {j},
             job' = [job EXCEPT ![j] = Returned(job[j]),
                                ![i] = Recreate,
                                ![k] = Instantiate(job[j].arg, TRUE, FALSE)]
      PROVE  job' \in [Jobs -> Job] /\ \A l \in Jobs : Fits(job'[l])
  <2>1. /\ Fits(Returned(job[j])) /\ Fits(Recreate)
        /\ Fits(Instantiate(job[j].arg, TRUE, FALSE))
    BY CallType, ReturnedType
  <2>2. \A l \in Jobs : Fits(job[l])
    BY DEF TypeOK, Fits
  <2> QED BY <1>2, <2>1, <2>2 DEF TypeOK, Fits
<1> QED BY <1>1, <1>2 DEF Catch

-----------------------------------------------------------------------------
(* Type correctness.                                                       *)

\* What a step of a call has to show.
LEMMA StepType ==
  ASSUME TypeOK, exists' \in BOOLEAN, conf' \in Text,
         job' \in [Jobs -> Job], \A i \in Jobs : Fits(job'[i]),
         UNCHANGED <<currentProject, selected, applied, calls>>
  PROVE  TypeOK'
BY DEF TypeOK, Fits

LEMMA WriteType ==
  ASSUME TypeOK, NEW j \in Jobs, NEW S, Write(j, S)
  PROVE  /\ exists' \in BOOLEAN /\ conf' \in Text
         /\ UNCHANGED <<currentProject, selected, applied, calls>>
<1>1. job[j].text \in Text
  BY DEF TypeOK, Job
<1> QED BY <1>1, OverlayType DEF Write, Step, TypeOK

LEMMA ContinueType ==
  ASSUME TypeOK, NEW j \in Jobs, NEW stage \in {"php", "index"},
         job[j].arg \in Versions, job' = Continue(j, stage)
  PROVE  job' \in [Jobs -> Job] /\ \A i \in Jobs : Fits(job'[i])
<1> DEFINE c == [job[j] EXCEPT !.stage = stage, !.io = "read"]
<1>1. job[j] \in Job
  BY DEF TypeOK
<1>2. Fits(c)
  BY <1>1 DEF Fits, Job, Stage
<1>3. job' = [job EXCEPT ![j] = c]
  BY DEF Continue, TypeOK
<1> QED BY <1>2, <1>3, OneCall

LEMMA JobStepType ==
  ASSUME TypeOK, NEW j \in Jobs, JobStep(j)
  PROVE  TypeOK'
<1>0. job[j] \in Job /\ Fits(job[j])
  BY DEF TypeOK, Fits
<1>1. CASE Read(j)
  <2>1. /\ job[j].stage \in {"root", "php", "index", "www"}
        /\ UNCHANGED <<currentProject, selected, applied, calls, exists, conf>>
    BY <1>1 DEF Read, Step
  <2>2. Edited(j) \in Text
    <3>1. CASE job[j].stage = "www"
      <4>1. Edited(j) = EditWww(conf, job[j].arg) /\ job[j].arg \in Projects
        BY <1>0, <3>1 DEF Edited, Fits
      <4> QED BY <4>1 DEF EditWww, Text, Folder, TypeOK
    <3>2. CASE job[j].stage = "root"
      <4>1. Edited(j) = EditRoot(conf)
        BY <3>2 DEF Edited
      <4> QED BY <4>1 DEF EditRoot, Text, TypeOK
    <3>3. CASE job[j].stage = "php"
      <4>1. Edited(j) = EditPhp(conf, job[j].arg) /\ job[j].arg \in Versions
        BY <1>0, <3>3 DEF Edited, Fits
      <4> QED BY <4>1 DEF EditPhp, Text, TypeOK
    <3>4. CASE job[j].stage = "index"
      <4>1. Edited(j) = EditIndex(conf)
        BY <3>4 DEF Edited
      <4> QED BY <4>1 DEF EditIndex, Text, TypeOK
    <3> QED BY <2>1, <3>1, <3>2, <3>3, <3>4
  <2> DEFINE st == IF job[j].stage = "php" /\ None \in {conf.php, conf.ini}
                   THEN "phpend" ELSE job[j].stage
             c == [job[j] EXCEPT !.text = Edited(j), !.io = "open", !.stage = st]
  <2>3. Fits(c)
    <3>1. st \in Stage /\ (st = "www" <=> job[j].stage = "www")
      BY <2>1 DEF Stage
    <3>2. st \in {"root", "php", "phpend", "inidir", "index"} =>
            job[j].arg \in Versions
      BY <1>0 DEF Fits
    <3>3. c \in Job
      BY <1>0, <2>2, <3>1 DEF Job
    <3>4. c.stage = st /\ c.arg = job[j].arg
      BY <1>0 DEF Job
    <3>5. st = "www" => job[j].arg \in Projects
      BY <1>0, <3>1 DEF Fits
    <3> HIDE DEF c, st
    <3> QED BY <3>2, <3>3, <3>4, <3>5 DEF Fits
  <2>4. job' = [job EXCEPT ![j] = c]
    BY <1>1 DEF Read, TypeOK
  <2> HIDE DEF c
  <2>5. job' \in [Jobs -> Job] /\ \A i \in Jobs : Fits(job'[i])
    BY <2>3, <2>4, OneCall
  <2> QED BY <2>1, <2>5, StepType DEF TypeOK
<1>2. CASE ReadFails(j)
  <2>1. /\ job[j].arg \in Versions /\ Catch(j)
        /\ UNCHANGED <<currentProject, selected, applied, calls, exists, conf>>
    BY <1>0, <1>2 DEF ReadFails, Step, Fits
  <2> QED BY <2>1, CatchType, StepType DEF TypeOK
<1>3. CASE WwwFails(j)
  BY <1>3, CallType, OneCall, StepType DEF WwwFails, Step, TypeOK
<1>4. CASE Open(j)
  <2> DEFINE c == [job[j] EXCEPT !.io = "write"]
  <2>1. Fits(c)
    BY <1>0 DEF Fits, Job
  <2>2. job' = [job EXCEPT ![j] = c]
    BY <1>4 DEF Open, TypeOK
  <2>3. job' \in [Jobs -> Job] /\ \A i \in Jobs : Fits(job'[i])
    BY <2>1, <2>2, OneCall
  <2>4. /\ exists' \in BOOLEAN /\ conf' \in Text
        /\ UNCHANGED <<currentProject, selected, applied, calls>>
    BY <1>4, EmptyType DEF Open, Step
  <2> QED BY <2>3, <2>4, StepType
<1>5. CASE WriteRoot(j)
  <2>1. Write(j, {"root"}) /\ job' = Continue(j, "php") /\ job[j].arg \in Versions
    BY <1>0, <1>5 DEF WriteRoot, Write, Step, Fits
  <2> QED BY <2>1, WriteType, ContinueType, StepType
<1>6. CASE WritePhp(j)
  <2>1. /\ Write(j, {"php"}) /\ job[j].arg \in Versions /\ job[j].text \in Text
        /\ job' = [job EXCEPT ![j].stage = "inidir", ![j].io = "open",
                              ![j].text.ini = job[j].arg]
    BY <1>0, <1>6 DEF WritePhp, Write, Step, Fits, Job
  <2> DEFINE c == [job[j] EXCEPT !.stage = "inidir", !.io = "open",
                                 !.text = [job[j].text EXCEPT !.ini = job[j].arg]]
  <2>2. [job[j].text EXCEPT !.ini = job[j].arg] \in Text
    BY <2>1 DEF Text
  <2>3. Fits(c)
    BY <1>0, <2>1, <2>2 DEF Fits, Job, Stage
  <2>4. job' = [job EXCEPT ![j] = c]
    BY <1>0, <2>1 DEF TypeOK, Job
  <2>5. job' \in [Jobs -> Job] /\ \A i \in Jobs : Fits(job'[i])
    BY <2>3, <2>4, OneCall
  <2> QED BY <2>1, <2>5, WriteType, StepType
<1>7. CASE WritePhpLast(j)
  <2>1. /\ Write(j, {"phpend", "inidir"}) /\ job' = Continue(j, "index")
        /\ job[j].arg \in Versions
    BY <1>0, <1>7 DEF WritePhpLast, Write, Step, Fits
  <2> QED BY <2>1, WriteType, ContinueType, StepType
<1>8. CASE WriteIndex(j)
  <2>1. /\ Write(j, {"index"}) /\ job[j].arg \in Versions
        /\ job' = [job EXCEPT ![j] = Returned(job[j])] \/ Catch(j)
    BY <1>0, <1>8 DEF WriteIndex, Write, Step, Fits
  <2>2. job' \in [Jobs -> Job] /\ \A i \in Jobs : Fits(job'[i])
    BY <2>1, ReturnedType, OneCall, CatchType
  <2> QED BY <2>1, <2>2, WriteType, StepType
<1>9. CASE WriteLast(j)
  <2>1. Write(j, {"www", "recreate"}) /\ job' = [job EXCEPT ![j] = Idle]
    BY <1>9 DEF WriteLast
  <2> QED BY <2>1, CallType, OneCall, WriteType, StepType
<1> QED
  BY <1>1, <1>2, <1>3, <1>4, <1>5, <1>6, <1>7, <1>8, <1>9 DEF JobStep

LEMMA StartupType ==
  ASSUME TypeOK \/ (selected \in Versions), NEW f \in Startup
  PROVE  f \in [Jobs -> Job] /\ \A i \in Jobs : Fits(f[i])
<1>1. selected \in Versions
  BY DEF TypeOK
<1>2. Fits(Instantiate(selected, FALSE, TRUE)) /\ Fits(Idle)
  BY <1>1, CallType
<1> QED BY <1>2 DEF Startup, Fits

LEMMA CallsType ==
  ASSUME TypeOK, Counted PROVE calls' \in 0..MaxCalls
BY HttpdConfAssumption DEF Counted, TypeOK

LEMMA CallersType ==
  ASSUME TypeOK, SelectProject \/ Deselect \/ ChangePhp \/ Relaunch
  PROVE  TypeOK'
<1>1. CASE SelectProject
  <2>1. PICK p \in Projects, i \in Jobs :
          /\ currentProject' = p
          /\ \/ job' = [job EXCEPT ![i] = ChangeWww(p)]
             \/ \E k \in Jobs \ {i} :
                  job' = [job EXCEPT ![i] = ChangeWww(p), ![k] = ChangeWww(p)]
    BY <1>1 DEF SelectProject
  <2>2. Fits(ChangeWww(p)) /\ \A l \in Jobs : Fits(job[l])
    BY CallType DEF TypeOK, Fits
  <2>3. job' \in [Jobs -> Job] /\ \A l \in Jobs : Fits(job'[l])
    BY <2>1, <2>2 DEF TypeOK, Fits
  <2>4. calls' \in 0..MaxCalls
    BY <1>1, CallsType DEF SelectProject, UserActs
  <2> QED BY <1>1, <2>1, <2>3, <2>4 DEF SelectProject, TypeOK, Fits
<1>2. CASE ChangePhp
  <2>1. PICK v \in Versions :
          /\ selected' = v
          /\ \/ /\ applied' = v
                /\ \E i \in Jobs :
                     job' = [job EXCEPT ![i] = Instantiate(v, FALSE, FALSE)]
             \/ UNCHANGED <<applied, job>>
    BY <1>2 DEF ChangePhp
  <2>2. Fits(Instantiate(v, FALSE, FALSE)) /\ \A l \in Jobs : Fits(job[l])
    BY CallType DEF TypeOK, Fits
  <2>3. job' \in [Jobs -> Job] /\ \A l \in Jobs : Fits(job'[l])
    BY <2>1, <2>2 DEF TypeOK, Fits
  <2>4. calls' \in 0..MaxCalls
    BY <1>2, CallsType DEF ChangePhp, UserActs
  <2> QED BY <1>2, <2>1, <2>3, <2>4 DEF ChangePhp, TypeOK, Fits
<1>3. CASE Relaunch
  <2>1. calls' \in 0..MaxCalls
    BY <1>3, CallsType DEF Relaunch, UserActs
  <2>2. job' \in [Jobs -> Job] /\ \A l \in Jobs : Fits(job'[l])
    BY <1>3, StartupType DEF Relaunch
  <2> QED BY <1>3, <2>1, <2>2 DEF Relaunch, TypeOK, Fits
<1>4. CASE Deselect
  <2>1. calls' \in 0..MaxCalls
    BY <1>4, CallsType DEF Deselect, UserActs
  <2> QED BY <1>4, <2>1 DEF Deselect, TypeOK, Fits
<1> QED BY <1>1, <1>2, <1>3, <1>4

LEMMA InitType == Init => TypeOK
<1> SUFFICES ASSUME Init PROVE TypeOK
  OBVIOUS
<1>1. job \in [Jobs -> Job] /\ \A l \in Jobs : Fits(job[l])
  BY StartupType DEF Init
<1>2. conf \in Text /\ exists \in BOOLEAN
  BY EmptyType, AtLaunchAssumption DEF Init
<1>3. calls \in 0..MaxCalls
  BY HttpdConfAssumption DEF Init
<1> QED BY <1>1, <1>2, <1>3 DEF Init, TypeOK, Fits

\* Every reachable state is well typed: in particular change_www_path is only
\* called with a project and server_instantiate with a version.
THEOREM TypeCorrect == Spec => []TypeOK
<1>1. TypeOK /\ [Next]_vars => TypeOK'
  <2>1. TypeOK /\ UNCHANGED vars => TypeOK'
    BY DEF vars, TypeOK
  <2> QED BY <2>1, JobStepType, CallersType DEF Next
<1> QED BY <1>1, InitType, PTL DEF Spec

-----------------------------------------------------------------------------
(* The file serves the selection, as long as server_instantiate runs alone *)
(* and what edits the document root writes the current project.  FileInv   *)
(* follows the text from the file into a call and back.                    *)

InstStages == {"root", "php", "phpend", "inidir", "index"}

\* The file is the default one, or a later version of it.
Simple == Under = {} /\ ~IniMayFail

\* A text of the default file, edited before or not.
Base(t) == t.body /\ ~t.junk /\ (t.php # None => t.ini # None)

Rooted(t) == t.doc = currentProject /\ t.dir = currentProject

\* A text that serves the selection but for the document root.
Adapted(t) ==
  /\ t.body /\ ~t.junk /\ t.srv = "app" /\ t.index = "php"
  /\ t.php = applied /\ t.ini = applied

\* server_instantiate leaves the document root alone; at startup
\* change_www_path is still to come.
Kept(c, t) ==
  Base(t) /\ (~c.load /\ currentProject # None => Rooted(t))

\* What a function of server_instantiate reads, ...
InstReads(c, t) ==
  /\ Kept(c, t)
  /\ c.stage # "root" => t.srv = "app"
  /\ c.stage = "index" => t.php = applied /\ t.ini = applied

\* ... and what it is about to write.
InstWrites(c) ==
  /\ Kept(c, c.text) /\ c.text.srv = "app"
  /\ c.stage # "root" => c.text.php = applied
  /\ c.stage \in {"phpend", "inidir", "index"} => c.text.ini = applied
  /\ c.stage = "index" => c.text.index = "php"

InstCall(c) ==
  /\ c.arg = applied /\ ~c.again
  /\ c.io = "read" => c.stage \in {"root", "php", "index"} /\ InstReads(c, conf)
  /\ c.io # "read" => InstWrites(c)
  /\ c.io = "write" => conf = Empty

InstEdit == \A j \in Jobs : job[j].stage \in InstStages => InstCall(job[j])

InstApart ==
  \A j \in Jobs : job[j].stage \in InstStages =>
    \A k \in Jobs \ {j} : job[k].stage = "idle"

\* The calls of change_www_path write what is selected.
WwwCurrent ==
  \A j \in Jobs : job[j].stage = "www" =>
    /\ job[j].arg = currentProject
    /\ job[j].io # "read" => Adapted(job[j].text) /\ Rooted(job[j].text)

Writing(j) == job[j].stage = "www" /\ job[j].io = "write"

\* While no server_instantiate runs, the file serves the selection; or it is
\* truncated and a call is about to write it; or its root is still to be edited.
WwwEdits ==
  (\A j \in Jobs : job[j].stage \notin InstStages) =>
    \/ Adapted(conf) /\ (currentProject # None => Rooted(conf))
    \/ conf = Empty /\ \E j \in Jobs : Writing(j)
    \/ /\ Adapted(conf)
       /\ \E j \in Jobs : job[j].stage = "www"
       /\ \A j \in Jobs : ~Writing(j)

FileInv ==
  /\ exists /\ \A j \in Jobs : job[j].stage # "recreate"
  /\ InstApart /\ InstEdit /\ WwwCurrent /\ WwwEdits

\* When the calls are done the file serves the selection.
LEMMA QuietServes == TypeOK /\ FileInv => SelectionServed
BY DEF FileInv, WwwEdits, WwwCurrent, InstStages, SelectionServed, Quiet,
       Serves, Adapted, Rooted, Writing

\* A write after the call truncated the file leaves the text of the call.
LEMMA WriteText ==
  ASSUME Simple, TypeOK, FileInv, NEW j \in Jobs, NEW S, "idle" \notin S, Write(j, S)
  PROVE  conf' = job[j].text /\ exists'
<1>1. /\ job[j].stage \in S /\ job[j].io = "write"
      /\ conf' \in Overlays(job[j].text, conf) /\ exists'
  BY DEF Write, Step, FileInv
<1>2. conf = Empty \/ conf = job[j].text
  <2>1. CASE job[j].stage \in InstStages
    BY <1>1, <2>1 DEF FileInv, InstEdit, InstCall
  <2>2. CASE job[j].stage = "www"
    <3>1. Writing(j) /\ Adapted(job[j].text) /\ Rooted(job[j].text)
      BY <1>1, <2>2 DEF Writing, FileInv, WwwCurrent
    <3>2. \A i \in Jobs : job[i].stage \notin InstStages
      BY <2>2 DEF FileInv, InstApart, InstStages
    <3>3. currentProject # None
      BY <2>2, HttpdConfAssumption DEF TypeOK, FileInv, WwwCurrent
    <3>4. CASE Adapted(conf) /\ Rooted(conf)
      <4>1. conf \in Text /\ job[j].text \in Text
        BY DEF TypeOK, Job
      <4> QED BY <3>1, <3>4, <4>1 DEF Adapted, Rooted, Text
    <3> QED BY <3>1, <3>2, <3>3, <3>4 DEF FileInv, WwwEdits
  <2>4. job[j].stage \in Stage /\ job[j].stage \notin {"idle", "recreate"}
    BY <1>1 DEF TypeOK, Job, FileInv
  <2> QED BY <2>1, <2>2, <2>4 DEF InstStages, Stage
<1> QED BY <1>1, <1>2 DEF Overlays


\* A step of server_instantiate that is not its last.
LEMMA InstGoesOn ==
  ASSUME Simple, TypeOK, FileInv, NEW j \in Jobs, job[j].stage \in InstStages,
         NEW c, c.stage \in InstStages, c.arg = job[j].arg,
         c.again = job[j].again,
         job' = [job EXCEPT ![j] = c], exists',
         UNCHANGED <<currentProject, applied>>,
         c.io = "read" => c.stage \in {"root", "php", "index"} /\ InstReads(c, conf'),
         c.io # "read" => InstWrites(c),
         c.io = "write" => conf' = Empty
  PROVE  FileInv'
<1>1. \A i \in Jobs : job'[i] = IF i = j THEN c ELSE job[i]
  BY DEF TypeOK
<1>2. \A i \in Jobs \ {j} : job[i].stage = "idle"
  BY DEF FileInv, InstApart
<1>3. InstCall(c)'
  BY DEF FileInv, InstEdit, InstCall, InstReads, InstWrites, Kept, Rooted
<1>4. InstEdit'
  BY <1>1, <1>2, <1>3 DEF InstEdit, InstStages, InstCall
<1>5. InstApart' /\ WwwCurrent' /\ WwwEdits'
  BY <1>1, <1>2 DEF InstApart, InstStages, WwwCurrent, WwwEdits
<1>6. \A i \in Jobs : job'[i].stage # "recreate"
  BY <1>1, <1>2 DEF InstStages
<1> QED BY <1>4, <1>5, <1>6 DEF FileInv

LEMMA ReadKeeps ==
  ASSUME Simple, TypeOK, FileInv, NEW j \in Jobs, Read(j) PROVE FileInv'
<1> DEFINE st == IF job[j].stage = "php" /\ None \in {conf.php, conf.ini}
                 THEN "phpend" ELSE job[j].stage
           c == [job[j] EXCEPT !.text = Edited(j), !.io = "open", !.stage = st]
<1>1. /\ job[j].stage \in {"root", "php", "index", "www"} /\ job[j].io = "read"
      /\ job' = [job EXCEPT ![j] = c]
      /\ UNCHANGED <<exists, conf, currentProject, applied>>
  BY DEF Read, Step, TypeOK
<1>2. job[j] \in Job /\ conf \in Text
  BY DEF TypeOK
<1>3. /\ c.text = Edited(j) /\ c.io = "open" /\ c.stage = st
      /\ c.arg = job[j].arg /\ c.load = job[j].load /\ c.again = job[j].again
  BY <1>2 DEF Job
<1> HIDE DEF c
<1>4. CASE job[j].stage = "www"
  <2>1. /\ \A i \in Jobs : job'[i] = IF i = j THEN c ELSE job[i]
        /\ c.stage = "www" /\ ~Writing(j)
    BY <1>1, <1>3, <1>4 DEF TypeOK, Writing
  <2>2. \A i \in Jobs : job[i].stage \notin InstStages
    BY <1>4 DEF FileInv, InstApart, InstStages
  <2>3. conf.body
    BY <1>1, <1>4 DEF Read, Readable
  <2>4. Adapted(conf) /\ \A i \in Jobs : currentProject # None /\ Writing(i) => Rooted(conf)
    BY <2>2, <2>3 DEF FileInv, WwwEdits, Empty
  <2>5. /\ c.arg = currentProject /\ c.text = EditWww(conf, currentProject)
        /\ currentProject \in Projects
    BY <1>3, <1>4 DEF FileInv, WwwCurrent, Edited, TypeOK
  <2>6. Adapted(c.text) /\ Rooted(c.text)
    BY <1>2, <2>4, <2>5 DEF Simple, EditWww, Adapted, Rooted, Text
  <2>7. WwwCurrent'
    BY <1>1, <2>1, <2>5, <2>6 DEF WwwCurrent, FileInv, Adapted, Rooted
  <2>8. \A i \in Jobs : Writing(i)' <=> Writing(i)
    BY <1>3, <2>1 DEF Writing
  <2>9. \A i \in Jobs : job'[i].stage = job[i].stage
    BY <1>4, <2>1
  <2>10. WwwEdits'
    BY <1>1, <2>2, <2>8, <2>9 DEF FileInv, WwwEdits, Adapted, Rooted
  <2>11. InstEdit' /\ InstApart'
    BY <2>2, <2>9 DEF InstEdit, InstApart
  <2> QED BY <1>1, <2>7, <2>9, <2>10, <2>11 DEF FileInv
<1>5. CASE job[j].stage # "www"
  <2>1. job[j].stage \in InstStages /\ st \in InstStages
    BY <1>1, <1>5 DEF InstStages
  <2>2. InstReads(job[j], conf) /\ job[j].arg = applied /\ applied \in Versions
    BY <1>1, <2>1 DEF FileInv, InstEdit, InstCall, TypeOK
  <2>3. InstWrites(c)
    <3>1. CASE job[j].stage = "root"
      <4>1. c.text = EditRoot(conf) /\ c.stage = "root"
        BY <1>3, <3>1 DEF Edited
      <4> QED BY <1>2, <1>3, <2>2, <4>1
              DEF EditRoot, InstReads, InstWrites, Kept, Base, Rooted, Text
    <3>2. CASE job[j].stage = "php"
      <4>1. c.text = EditPhp(conf, applied)
        BY <1>3, <2>2, <3>2 DEF Edited
      <4>2. c.stage \in {"php", "phpend"} /\ (c.stage = "phpend" => conf.php = None)
        BY <1>3, <2>2, <3>2 DEF InstReads, Kept, Base
      <4> QED BY <1>2, <1>3, <2>2, <3>2, <4>1, <4>2, HttpdConfAssumption
              DEF EditPhp, InstReads, InstWrites, Kept, Base, Rooted, Text
    <3>3. CASE job[j].stage = "index"
      <4>1. c.text = EditIndex(conf) /\ c.stage = "index"
        BY <1>3, <3>3 DEF Edited
      <4> QED BY <1>2, <1>3, <2>2, <3>3, <4>1
              DEF EditIndex, InstReads, InstWrites, Kept, Base, Rooted, Text
    <3> QED BY <1>1, <1>5, <3>1, <3>2, <3>3
  <2> QED BY <1>1, <1>3, <2>1, <2>3, InstGoesOn DEF FileInv
<1> QED BY <1>4, <1>5

LEMMA OpenKeeps ==
  ASSUME Simple, TypeOK, FileInv, NEW j \in Jobs, Open(j) PROVE FileInv'
<1> DEFINE c == [job[j] EXCEPT !.io = "write"]
<1>1. /\ job[j].stage \in Stage \ {"idle"} /\ job[j].io = "open"
      /\ job' = [job EXCEPT ![j] = c]
      /\ exists' /\ conf' = Empty /\ UNCHANGED <<currentProject, applied>>
  BY DEF Open, Step, TypeOK
<1>2. job[j] \in Job
  BY DEF TypeOK
<1>3. /\ c.io = "write" /\ c.stage = job[j].stage /\ c.text = job[j].text
      /\ c.arg = job[j].arg /\ c.load = job[j].load /\ c.again = job[j].again
  BY <1>2 DEF Job
<1> HIDE DEF c
<1>4. CASE job[j].stage = "www"
  <2>1. \A i \in Jobs : job'[i] = IF i = j THEN c ELSE job[i]
    BY <1>1 DEF TypeOK
  <2>2. \A i \in Jobs : job[i].stage \notin InstStages
    BY <1>4 DEF FileInv, InstApart, InstStages
  <2>3. WwwCurrent'
    BY <1>1, <1>3, <1>4, <2>1 DEF WwwCurrent, FileInv, Adapted, Rooted
  <2>4. \A i \in Jobs : job'[i].stage = job[i].stage
    BY <1>3, <2>1
  <2>5. WwwEdits'
    BY <1>1, <1>3, <1>4, <2>1 DEF WwwEdits, Writing
  <2>6. InstEdit' /\ InstApart'
    BY <2>2, <2>4 DEF InstEdit, InstApart
  <2> QED BY <1>1, <2>3, <2>4, <2>5, <2>6 DEF FileInv
<1>5. CASE job[j].stage # "www"
  <2>1. job[j].stage \in InstStages
    BY <1>1, <1>5 DEF FileInv, Stage, InstStages
  <2>2. InstWrites(job[j])
    BY <1>1, <2>1 DEF FileInv, InstEdit, InstCall
  <2>3. InstWrites(c)
    BY <1>3, <2>2 DEF InstWrites, Kept
  <2> QED BY <1>1, <1>3, <2>1, <2>3, InstGoesOn
<1> QED BY <1>4, <1>5

LEMMA InstWriteKeeps ==
  ASSUME Simple, TypeOK, FileInv, NEW j \in Jobs,
         WriteRoot(j) \/ WritePhp(j) \/ WritePhpLast(j)
  PROVE  FileInv'
<1>1. job[j] \in Job /\ job[j].text \in Text
  BY DEF TypeOK, Job
<1>2. /\ job[j].stage \in {"root", "php", "phpend", "inidir"}
      /\ job[j].io = "write"
      /\ UNCHANGED <<currentProject, applied>>
      /\ conf' = job[j].text /\ exists'
  <2>1. \E S \in {{"root"}, {"php"}, {"phpend", "inidir"}} : Write(j, S)
    BY Zenon DEF WriteRoot, WritePhp, WritePhpLast
  <2> QED BY <2>1, WriteText DEF Write, Step
<1>3. job[j].stage \in InstStages /\ InstWrites(job[j]) /\ job[j].arg = applied
  BY <1>2 DEF InstStages, FileInv, InstEdit, InstCall
<1>4. ASSUME NEW stage, \/ stage = "php" /\ job[j].stage = "root"
                        \/ stage = "index" /\ job[j].stage \in {"phpend", "inidir"},
             job' = Continue(j, stage)
      PROVE  FileInv'
  <2> DEFINE c == [job[j] EXCEPT !.stage = stage, !.io = "read"]
  <2>1. job' = [job EXCEPT ![j] = c]
    BY <1>4 DEF Continue, TypeOK
  <2>2. /\ c.io = "read" /\ c.stage = stage /\ c.arg = job[j].arg
        /\ c.load = job[j].load /\ c.again = job[j].again
    BY <1>1 DEF Job
  <2> HIDE DEF c
  <2>3. InstReads(c, conf')
    BY <1>2, <1>3, <1>4, <2>2 DEF InstWrites, InstReads, Kept
  <2>4. c.stage \in InstStages /\ c.stage \in {"root", "php", "index"}
    BY <1>4, <2>2 DEF InstStages
  <2> QED BY <1>2, <1>3, <2>1, <2>2, <2>3, <2>4, InstGoesOn
<1>5. CASE WritePhp(j)
  <2> DEFINE t == [job[j].text EXCEPT !.ini = job[j].arg]
             c == [job[j] EXCEPT !.stage = "inidir", !.io = "open", !.text = t]
  <2>1. job' = [job EXCEPT ![j] = c] /\ job[j].stage = "php"
    BY <1>1, <1>5 DEF WritePhp, Write, Step, TypeOK, Job
  <2>2. /\ c.io = "open" /\ c.stage = "inidir" /\ c.arg = job[j].arg /\ c.text = t
        /\ c.load = job[j].load /\ c.again = job[j].again
    BY <1>1 DEF Job
  <2> HIDE DEF c
  <2>3. InstWrites(c)
    <3>1. /\ t.ini = applied /\ t.body = job[j].text.body
          /\ t.junk = job[j].text.junk /\ t.srv = job[j].text.srv
          /\ t.php = job[j].text.php
          /\ t.doc = job[j].text.doc /\ t.dir = job[j].text.dir
      BY <1>1, <1>3 DEF Text
    <3>2. applied # None
      BY HttpdConfAssumption DEF TypeOK
    <3> HIDE DEF t
    <3> QED BY <1>3, <2>1, <2>2, <3>1, <3>2 DEF InstWrites, Kept, Base, Rooted
  <2>4. c.stage \in InstStages
    BY <2>2 DEF InstStages
  <2> QED BY <1>2, <1>3, <2>1, <2>2, <2>3, <2>4, InstGoesOn
<1> QED BY <1>4, <1>5 DEF WriteRoot, WritePhpLast, Write, Step

\* The last write of server_instantiate, whose caller may be load_project.
LEMMA WriteIndexKeeps ==
  ASSUME Simple, TypeOK, FileInv, NEW j \in Jobs, WriteIndex(j) PROVE FileInv'
<1>1. /\ Write(j, {"index"}) /\ job' = [job EXCEPT ![j] = Returned(job[j])]
      /\ job[j].stage = "index" /\ job[j].io = "write"
      /\ UNCHANGED <<currentProject, applied>>
  BY DEF WriteIndex, Write, Step, Simple
<1>2. conf' = job[j].text /\ exists'
  BY <1>1, WriteText
<1>3. InstWrites(job[j])
  BY <1>1 DEF InstStages, FileInv, InstEdit, InstCall
<1>4. Adapted(conf')
  BY <1>1, <1>2, <1>3 DEF InstWrites, Kept, Base, Adapted
<1>5. \A i \in Jobs \ {j} : job[i].stage = "idle"
  BY <1>1 DEF FileInv, InstApart, InstStages
<1>6. \A i \in Jobs : job'[i] = IF i = j THEN Returned(job[j]) ELSE job[i]
  BY <1>1 DEF TypeOK
<1>7. CASE job[j].load /\ currentProject # None
  <2>1. /\ Returned(job[j]) = ChangeWww(currentProject)
        /\ ChangeWww(currentProject).stage = "www"
        /\ ChangeWww(currentProject).arg = currentProject
        /\ ChangeWww(currentProject).io = "read"
    BY <1>7 DEF Returned, ChangeWww, Call
  <2> QED BY <1>1, <1>2, <1>4, <1>5, <1>6, <2>1
          DEF FileInv, InstApart, InstEdit, InstStages, WwwCurrent, WwwEdits,
              Writing, Adapted
<1>8. CASE ~(job[j].load /\ currentProject # None)
  <2>1. Returned(job[j]).stage = "idle"
    BY <1>8 DEF Returned, Idle, Call
  <2>2. currentProject # None => Rooted(conf')
    BY <1>2, <1>3, <1>8 DEF InstWrites, Kept
  <2> QED BY <1>1, <1>2, <1>4, <1>5, <1>6, <2>1, <2>2
          DEF FileInv, InstApart, InstEdit, InstStages, WwwCurrent, WwwEdits,
              Adapted, Rooted
<1> QED BY <1>7, <1>8

\* The last write of change_www_path.
LEMMA WriteLastKeeps ==
  ASSUME Simple, TypeOK, FileInv, NEW j \in Jobs, WriteLast(j) PROVE FileInv'
<1>1. /\ Write(j, {"www", "recreate"}) /\ job' = [job EXCEPT ![j] = Idle]
      /\ job[j].stage = "www" /\ job[j].io = "write"
      /\ UNCHANGED <<currentProject, applied>>
  BY DEF WriteLast, Write, Step, FileInv
<1>2. conf' = job[j].text /\ exists'
  BY <1>1, WriteText
<1>3. Adapted(conf') /\ Rooted(conf')
  BY <1>1, <1>2 DEF FileInv, WwwCurrent
<1>4. \A i \in Jobs : job'[i] = (IF i = j THEN Idle ELSE job[i])
  BY <1>1 DEF TypeOK
<1>5. Idle.stage = "idle"
  BY DEF Idle, Call
<1>6. \A i \in Jobs : job[i].stage \notin InstStages
  BY <1>1 DEF FileInv, InstApart, InstStages
<1> QED BY <1>1, <1>2, <1>3, <1>4, <1>5, <1>6
        DEF FileInv, InstApart, InstEdit, InstStages, WwwCurrent, WwwEdits,
            Adapted, Rooted

\* change_www_path finds no text to edit: another call has truncated the file
\* and is about to write it.
LEMMA WwwFailsKeeps ==
  ASSUME Simple, TypeOK, FileInv, NEW j \in Jobs, WwwFails(j) PROVE FileInv'
<1>1. /\ job' = [job EXCEPT ![j] = Idle] /\ ~conf.body
      /\ job[j].stage = "www" /\ job[j].io = "read"
      /\ UNCHANGED <<exists, conf, currentProject, applied>>
  BY DEF WwwFails, Step, Readable, FileInv
<1>2. \A i \in Jobs : job'[i] = (IF i = j THEN Idle ELSE job[i])
  BY <1>1 DEF TypeOK
<1>3. Idle.stage = "idle"
  BY DEF Idle, Call
<1>4. \A i \in Jobs : job[i].stage \notin InstStages
  BY <1>1 DEF FileInv, InstApart, InstStages
<1>5. conf = Empty /\ \E i \in Jobs : Writing(i)
  BY <1>1, <1>4 DEF FileInv, WwwEdits, Adapted
<1>6. \E i \in Jobs : Writing(i)'
  BY <1>1, <1>2, <1>5 DEF Writing
<1>7. WwwEdits'
  BY <1>1, <1>5, <1>6 DEF WwwEdits
<1> QED BY <1>1, <1>2, <1>3, <1>4, <1>7
        DEF FileInv, InstApart, InstEdit, InstStages, WwwCurrent, Adapted,
            Rooted

\* server_instantiate always finds the file whole.
LEMMA NoReadFails ==
  ASSUME FileInv, NEW j \in Jobs PROVE ~ReadFails(j)
BY DEF ReadFails, Step, Readable, FileInv, InstEdit, InstStages, InstCall,
       InstReads, Kept, Base

LEMMA JobStepKeeps ==
  ASSUME Simple, TypeOK, FileInv, NEW j \in Jobs, JobStep(j) PROVE FileInv'
BY ReadKeeps, NoReadFails, WwwFailsKeeps, OpenKeeps, InstWriteKeeps,
   WriteIndexKeeps, WriteLastKeeps DEF JobStep

\* A step of a call: it stays in flight, or returns to its caller.
GoesOn(j) ==
  \E c : /\ job' = [job EXCEPT ![j] = c]
         /\ c.stage # "idle" /\ (c.stage = "www" <=> job[j].stage = "www")
         /\ c.arg = job[j].arg /\ c.load = job[j].load

Returns(j) ==
  \/ job[j].stage \in InstStages /\ job' = [job EXCEPT ![j] = Returned(job[j])]
  \/ job[j].stage = "www" /\ job' = [job EXCEPT ![j] = Idle]

LEMMA JobStepKinds ==
  ASSUME Simple, TypeOK, FileInv, NEW j \in Jobs, JobStep(j)
  PROVE  /\ job[j].stage # "idle"
         /\ UNCHANGED <<currentProject, selected, applied, calls>>
         /\ GoesOn(j) \/ Returns(j)
<1>1. /\ job[j].stage # "idle"
      /\ UNCHANGED <<currentProject, selected, applied, calls>>
  BY DEF JobStep, Read, ReadFails, WwwFails, Open, Write, WriteRoot, WritePhp,
         WritePhpLast, WriteIndex, WriteLast, Step
<1>2. job[j] \in Job
  BY DEF TypeOK
<1>3. CASE Read(j)
  <2> DEFINE st == IF job[j].stage = "php" /\ None \in {conf.php, conf.ini}
                   THEN "phpend" ELSE job[j].stage
             c == [job[j] EXCEPT !.text = Edited(j), !.io = "open", !.stage = st]
  <2>1. job' = [job EXCEPT ![j] = c] /\ job[j].stage # "idle"
    BY <1>1, <1>3 DEF Read, TypeOK
  <2>2. c.stage = st /\ c.arg = job[j].arg /\ c.load = job[j].load
    BY <1>2 DEF Job
  <2>3. st # "idle" /\ (st = "www" <=> job[j].stage = "www")
    BY <2>1
  <2> HIDE DEF c, st
  <2> QED BY <1>1, <2>1, <2>2, <2>3 DEF GoesOn
<1>4. CASE Open(j)
  <2> DEFINE c == [job[j] EXCEPT !.io = "write"]
  <2>1. job' = [job EXCEPT ![j] = c]
    BY <1>4 DEF Open, TypeOK
  <2>2. c.stage = job[j].stage /\ c.arg = job[j].arg /\ c.load = job[j].load
    BY <1>2 DEF Job
  <2> HIDE DEF c
  <2> QED BY <1>1, <2>1, <2>2 DEF GoesOn
<1>5. ASSUME NEW stage \in {"php", "index"}, job' = Continue(j, stage),
             job[j].stage \in InstStages
      PROVE  GoesOn(j)
  <2> DEFINE c == [job[j] EXCEPT !.stage = stage, !.io = "read"]
  <2>1. job' = [job EXCEPT ![j] = c]
    BY <1>5 DEF Continue, TypeOK
  <2>2. c.stage = stage /\ c.arg = job[j].arg /\ c.load = job[j].load
    BY <1>2 DEF Job
  <2> HIDE DEF c
  <2> QED BY <1>5, <2>1, <2>2 DEF GoesOn, InstStages
<1>6. CASE WriteRoot(j) \/ WritePhpLast(j)
  BY <1>5, <1>6 DEF WriteRoot, WritePhpLast, Write, Step, InstStages
<1>7. CASE WritePhp(j)
  <2> DEFINE t == [job[j].text EXCEPT !.ini = job[j].arg]
             c == [job[j] EXCEPT !.stage = "inidir", !.io = "open", !.text = t]
  <2>1. job' = [job EXCEPT ![j] = c]
    BY <1>2, <1>7 DEF WritePhp, TypeOK, Job
  <2>2. /\ c.arg = job[j].arg /\ c.load = job[j].load
        /\ c.stage # "idle" /\ c.stage # "www" /\ job[j].stage # "www"
    BY <1>2, <1>7 DEF Job, WritePhp, Write, Step
  <2> HIDE DEF c
  <2> QED BY <1>1, <2>1, <2>2 DEF GoesOn
<1>8. CASE WriteIndex(j)
  BY <1>8 DEF WriteIndex, Write, Step, Simple, Returns, InstStages
<1>9. CASE WriteLast(j) \/ WwwFails(j)
  BY <1>9 DEF WriteLast, WwwFails, Write, Step, Returns, FileInv
<1> QED BY <1>1, <1>3, <1>4, <1>6, <1>7, <1>8, <1>9, NoReadFails DEF JobStep

(* What the callers of the two functions owe.                              *)

\* A project is selected and one edit or several begin, while no
\* server_instantiate runs, and while what is being edited is this project.
LEMMA SelectsKeep ==
  ASSUME TypeOK, FileInv, NEW S \in SUBSET Jobs, S # {},
         \A k \in S : job[k].stage = "idle",
         \A k \in Jobs : job'[k] = IF k \in S THEN ChangeWww(currentProject')
                                              ELSE job[k],
         \A k \in Jobs : job[k].stage \notin InstStages,
         \A k \in Jobs : job[k].stage = "www" => currentProject' = currentProject,
         currentProject' \in Projects, UNCHANGED <<exists, conf, applied>>
  PROVE  FileInv'
<1>1. /\ ChangeWww(currentProject').stage = "www"
      /\ ChangeWww(currentProject').arg = currentProject'
      /\ ChangeWww(currentProject').io = "read"
  BY DEF ChangeWww, Call
<1>2. \A k \in Jobs : Writing(k)' <=> Writing(k)
  BY <1>1 DEF Writing
<1>3. \E k \in Jobs : job'[k].stage = "www"
  BY <1>1
<1>4. WwwEdits'
  <2>1. CASE currentProject' = currentProject
    BY <1>1, <1>2, <1>3, <2>1 DEF FileInv, WwwEdits, Adapted, Rooted
  <2>2. CASE \A k \in Jobs : job[k].stage # "www"
    <3>1. Adapted(conf) /\ \A k \in Jobs : ~Writing(k)
      BY <2>2 DEF FileInv, WwwEdits, Writing
    <3> QED BY <1>2, <1>3, <3>1 DEF WwwEdits, Adapted
  <2> QED BY <2>1, <2>2
<1>5. WwwCurrent'
  BY <1>1 DEF FileInv, WwwCurrent, Adapted, Rooted
<1> QED BY <1>1, <1>4, <1>5 DEF FileInv, InstApart, InstEdit, InstStages

LEMMA SelectKeeps ==
  ASSUME TypeOK, FileInv, NEW i \in Jobs, job[i].stage = "idle",
         job' = [job EXCEPT ![i] = ChangeWww(currentProject')],
         \A k \in Jobs : job[k].stage \notin InstStages,
         \A k \in Jobs : job[k].stage = "www" => currentProject' = currentProject,
         currentProject' \in Projects, UNCHANGED <<exists, conf, applied>>
  PROVE  FileInv'
<1>1. \A k \in Jobs : job'[k] = IF k \in {i} THEN ChangeWww(currentProject')
                                             ELSE job[k]
  BY DEF TypeOK
<1>2. {i} \in SUBSET Jobs /\ {i} # {} /\ \A k \in {i} : job[k].stage = "idle"
  OBVIOUS
<1> QED BY <1>1, <1>2, SelectsKeep

\* The last project is removed.
LEMMA DeselectKeeps ==
  ASSUME FileInv, \A k \in Jobs : job[k].stage = "idle",
         currentProject' = None, UNCHANGED <<job, exists, conf, applied>>
  PROVE  FileInv'
BY DEF FileInv, InstApart, InstEdit, InstStages, WwwCurrent, WwwEdits, Writing,
       Adapted

\* server_instantiate begins, alone.
LEMMA InstantiateKeeps ==
  ASSUME TypeOK, FileInv, \A k \in Jobs : job[k].stage = "idle",
         NEW i \in Jobs, NEW load \in BOOLEAN, NEW v \in Versions, applied' = v,
         job'[i] = Instantiate(v, FALSE, load),
         \A k \in Jobs \ {i} : job'[k].stage = "idle",
         UNCHANGED <<exists, conf, currentProject>>
  PROVE  FileInv'
<1> DEFINE c == Instantiate(v, FALSE, load)
<1>1. /\ c.stage = "root" /\ c.arg = v /\ c.io = "read"
      /\ c.again = FALSE /\ c.load = load
  BY DEF Instantiate, Call
<1> HIDE DEF c
<1>2. job'[i] = c /\ \A k \in Jobs \ {i} : job'[k].stage = "idle"
  BY DEF c
<1>3. Adapted(conf) /\ (currentProject # None => Rooted(conf))
  BY DEF FileInv, WwwEdits, Writing, InstStages
<1>4. InstReads(c, conf)'
  BY <1>1, <1>3, HttpdConfAssumption
     DEF InstReads, Kept, Base, Adapted, Rooted, TypeOK
<1>5. InstCall(c)'
  BY <1>1, <1>4 DEF InstCall
<1>6. InstEdit'
  BY <1>1, <1>2, <1>5 DEF InstEdit, InstStages, InstCall
<1> QED BY <1>1, <1>2, <1>6
        DEF FileInv, InstApart, InstStages, WwwCurrent, WwwEdits

\* At the first launch the file has the lines of the default one.
LEMMA FileInvInit ==
  ASSUME Init, ~MayMiss, \A t \in AtLaunch : Base(t), Jobs # {} PROVE FileInv
<1>1. PICK a \in Jobs :
        job = [k \in Jobs |-> IF k = a THEN Instantiate(selected, FALSE, TRUE)
                                       ELSE Idle]
  BY DEF Init, Startup
<1> DEFINE c == Instantiate(selected, FALSE, TRUE)
<1>2. /\ c.stage = "root" /\ c.arg = applied /\ c.io = "read"
      /\ c.again = FALSE /\ c.load = TRUE /\ Idle.stage = "idle"
  BY DEF Init, Instantiate, Call, Idle
<1> HIDE DEF c
<1>3. \A k \in Jobs : job[k] = IF k = a THEN c ELSE Idle
  BY <1>1 DEF c
<1>4. exists /\ Base(conf)
  BY DEF Init
<1>5. InstCall(c)
  BY <1>2, <1>4 DEF InstCall, InstReads, Kept
<1> QED BY <1>2, <1>3, <1>4, <1>5
        DEF FileInv, InstApart, InstEdit, InstStages, WwwCurrent, WwwEdits

\* Nothing the file depends on changes.
LEMMA FileStays ==
  ASSUME FileInv, UNCHANGED <<exists, conf, job, currentProject, applied>>
  PROVE  FileInv'
BY DEF FileInv, InstApart, InstEdit, InstCall, InstReads, InstWrites, Kept,
       WwwCurrent, WwwEdits, Writing, Adapted, Rooted

\* The callers of a user who waits find no call in flight.
LEMMA CallersKeep ==
  ASSUME Patient, ~MayCrash, TypeOK, FileInv,
         SelectProject \/ Deselect \/ ChangePhp \/ Relaunch
  PROVE  FileInv'
<1>1. \A k \in Jobs : job[k].stage = "idle" /\ job[k].stage \notin InstStages
  BY DEF SelectProject, Deselect, ChangePhp, Relaunch, UserActs, Quiet,
         InstStages
<1>2. CASE SelectProject
  <2>1. PICK i \in Jobs :
          \/ job' = [job EXCEPT ![i] = ChangeWww(currentProject')]
          \/ \E k \in Jobs : job' = [job EXCEPT ![i] = ChangeWww(currentProject'),
                                                ![k] = ChangeWww(currentProject')]
    BY <1>2 DEF SelectProject
  <2>2. \E S \in SUBSET Jobs :
          /\ S # {}
          /\ \A k \in Jobs : job'[k] = IF k \in S THEN ChangeWww(currentProject')
                                                  ELSE job[k]
    <3>1. CASE job' = [job EXCEPT ![i] = ChangeWww(currentProject')]
      <4>1. \A k \in Jobs :
              job'[k] = IF k \in {i} THEN ChangeWww(currentProject') ELSE job[k]
        BY <3>1 DEF TypeOK
      <4> QED BY <4>1
    <3>2. CASE \E k \in Jobs :
                 job' = [job EXCEPT ![i] = ChangeWww(currentProject'),
                                    ![k] = ChangeWww(currentProject')]
      <4>1. PICK l \in Jobs :
              job' = [job EXCEPT ![i] = ChangeWww(currentProject'),
                                 ![l] = ChangeWww(currentProject')]
        BY <3>2
      <4>2. \A k \in Jobs : job'[k] = IF k \in {i, l}
                                      THEN ChangeWww(currentProject') ELSE job[k]
        BY <4>1 DEF TypeOK
      <4> QED BY <4>2
    <3> QED BY <2>1, <3>1, <3>2
  <2>3. currentProject' \in Projects /\ UNCHANGED <<exists, conf, applied>>
    BY <1>2 DEF SelectProject
  <2>4. \A k \in Jobs : job[k].stage # "www"
    BY <1>1
  <2> QED BY <1>1, <2>2, <2>3, <2>4, SelectsKeep
<1>3. CASE Deselect
  BY <1>1, <1>3, DeselectKeeps DEF Deselect
<1>4. CASE ChangePhp
  <2>1. PICK v \in Versions, wasRunning \in BOOLEAN :
          IF wasRunning
          THEN /\ applied' = v
               /\ \E i \in Jobs :
                    job' = [job EXCEPT ![i] = Instantiate(v, FALSE, FALSE)]
          ELSE UNCHANGED <<applied, job>>
    BY <1>4 DEF ChangePhp
  <2>2. UNCHANGED <<exists, conf, currentProject>>
    BY <1>4 DEF ChangePhp
  <2>3. CASE wasRunning
    <3>1. PICK i \in Jobs : job' = [job EXCEPT ![i] = Instantiate(v, FALSE, FALSE)]
      BY <2>1, <2>3
    <3>2. /\ job'[i] = Instantiate(v, FALSE, FALSE)
          /\ \A k \in Jobs \ {i} : job'[k].stage = "idle"
      BY <1>1, <3>1 DEF TypeOK
    <3> QED BY <1>1, <2>1, <2>2, <2>3, <3>2, InstantiateKeeps
  <2>4. CASE ~wasRunning
    BY <2>1, <2>2, <2>4, FileStays
  <2> QED BY <2>3, <2>4
<1>5. CASE Relaunch
  <2>1. PICK i \in Jobs :
          job' = [k \in Jobs |-> IF k = i THEN Instantiate(selected, FALSE, TRUE)
                                          ELSE Idle]
    BY <1>5 DEF Relaunch, Startup
  <2>2. /\ job'[i] = Instantiate(selected, FALSE, TRUE)
        /\ \A k \in Jobs \ {i} : job'[k].stage = "idle"
    BY <2>1 DEF Idle, Call
  <2>3. applied' = selected /\ UNCHANGED <<exists, conf, currentProject>>
    BY <1>5 DEF Relaunch
  <2>4. selected \in Versions
    BY DEF TypeOK
  <2> QED BY <1>1, <2>2, <2>3, <2>4, InstantiateKeeps
<1> QED BY <1>2, <1>3, <1>4, <1>5

\* For a user who waits the file serves the selection when the calls are done,
\* whatever version of the default file was there at the first launch.
THEOREM FileServes ==
  ASSUME Simple, Patient, ~MayCrash, ~MayMiss, \A t \in AtLaunch : Base(t)
  PROVE  Spec => []SelectionServed
<1>1. Init => FileInv
  <2>1. Init => Jobs # {}
    BY DEF Init, Startup
  <2> QED BY <2>1, FileInvInit
<1>2. TypeOK /\ FileInv /\ [Next]_vars => FileInv'
  <2>1. FileInv /\ UNCHANGED vars => FileInv'
    BY FileStays DEF vars
  <2> QED BY <2>1, CallersKeep, JobStepKeeps DEF Next
<1>3. TypeOK /\ FileInv => SelectionServed
  BY QuietServes
<1> QED BY <1>1, <1>2, <1>3, TypeCorrect, PTL DEF Spec

=============================================================================
