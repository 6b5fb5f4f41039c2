------------------------- MODULE ProjectStoreProofs -------------------------
(***************************************************************************)
(* Proofs about ProjectStore, for any names, slots and bounds, as long as  *)
(* no project is deleted while a switch to it waits for killserver.        *)
(***************************************************************************)
EXTENDS ProjectStore, FiniteSetTheorems, TLAPS

\* Every text that may become the file is a list whose selection is listed.
TextsSound ==
  /\ Readable => Sound(disk)
  /\ \A i \in InFlight : Sound(writes[i].text)

\* What the handlers rely on while the app is up.
MemorySound ==
  app = "up" =>
    /\ Sound(Memory)
    /\ currentProject = selected
    /\ \A k \in Calls : waiting[k] \in projects \cup {None}

\* The history variable knows what is being saved; and when all writes save the
\* same list, the file says nothing else once one of them has opened it.
SavingKnown ==
  /\ \A i \in InFlight : writes[i].text \in saving
  /\ InFlight = {} => saving = {}
  /\ \A i \in InFlight : writes[i].io = "write" =>
       \A m \in Config : saving = {m} => disk \in {Empty, m}

\* While the app is down nothing is in flight.
DownQuiet == app = "down" => waiting = NoCalls /\ Settled

IInv ==
  TypeOK /\ LaunchSucceeds /\ TextsSound /\ MemorySound /\ SavingKnown /\ DownQuiet

-----------------------------------------------------------------------------
(* writeAsJson.                                                            *)

LEMMA BlankSound == Blank \in Config /\ Sound(Blank)
BY DEF Blank, Config, Sound

LEMMA Constants ==
  /\ Values = Config
  /\ Missing \notin Config /\ Empty \notin Config /\ Garbled \notin Config
BY ConfigAssumption, JsonFileAssumption

\* Two sizes of sets of slots that matter.
LEMMA Nonempty ==
  ASSUME NEW S, NEW n \in {1, 2, 3}, Cardinality(S) = n
  PROVE  S # {}
BY FS_EmptySet

\* n saves take free slots, at least one, and leave the others alone.
LEMMA SavesSlots ==
  ASSUME NEW n \in {1, 2}, NEW v, Saves(n, v), writes \in [Slots -> Write]
  PROVE  \E S \in SUBSET (Slots \ InFlight) :
           /\ S # {}
           /\ writes' = [i \in Slots |-> IF i \in S THEN [io |-> "open", text |-> v]
                                         ELSE writes[i]]
           /\ InFlight' = InFlight \cup S
<1>1. PICK S \in SUBSET Slots :
        /\ FreeSlots(n, S)
        /\ writes' = [i \in Slots |-> IF i \in S THEN [io |-> "open", text |-> v]
                                      ELSE writes[i]]
  BY DEF Saves
<1>2. S \subseteq Slots \ InFlight /\ S # {}
  BY <1>1, Nonempty DEF FreeSlots
<1>3. InFlight' = InFlight \cup S
  BY <1>1, <1>2 DEF InFlight
<1> QED BY <1>1, <1>2, <1>3

\* A handler that saves a sound list keeps what is said of the texts.
LEMMA SaveConfigKeeps ==
  ASSUME TypeOK, TextsSound, SavingKnown, NEW n \in {1, 2}, SaveConfig(n),
         Memory' \in Config, Sound(Memory')
  PROVE  FileTypeOK' /\ TextsSound' /\ SavingKnown' /\ saving' \subseteq Config
<1> DEFINE v == Memory'
<1>0. writes \in [Slots -> Write] /\ saving \subseteq Config
  BY DEF TypeOK, FileTypeOK
<1>1. PICK S \in SUBSET (Slots \ InFlight) :
        /\ S # {}
        /\ writes' = [i \in Slots |-> IF i \in S THEN [io |-> "open", text |-> v]
                                      ELSE writes[i]]
        /\ InFlight' = InFlight \cup S
  BY <1>0, SavesSlots DEF SaveConfig
<1>2. saving' = saving \cup {v} /\ disk' = disk
  BY DEF SaveConfig
<1>3. FileTypeOK'
  BY <1>0, <1>1, <1>2, Constants DEF TypeOK, FileTypeOK, Write
<1>4. TextsSound'
  BY <1>1, <1>2 DEF TextsSound, Readable, InFlight
<1>5. \A i \in InFlight' : writes'[i].text \in saving'
  BY <1>1, <1>2 DEF SavingKnown, InFlight
<1>6. InFlight' # {}
  BY <1>1
<1>7. ASSUME NEW i \in InFlight', writes'[i].io = "write",
             NEW m \in Config, saving' = {m}
      PROVE  disk' \in {Empty, m}
  <2>1. i \in InFlight /\ writes[i].io = "write"
    BY <1>1, <1>7 DEF InFlight
  <2>2. saving = {m}
    BY <2>1, <1>7, <1>2 DEF SavingKnown
  <2> QED BY <2>1, <2>2, <1>2, <1>7 DEF SavingKnown
<1>8. SavingKnown'
  BY <1>5, <1>6, <1>7 DEF SavingKnown
<1> QED BY <1>0, <1>2, <1>3, <1>4, <1>8

\* Where nothing is saved.
LEMMA NoSaveKeeps ==
  ASSUME TypeOK, TextsSound, SavingKnown, UNCHANGED <<disk, writes, saving>>
  PROVE  FileTypeOK' /\ TextsSound' /\ SavingKnown' /\ saving' \subseteq Config
BY DEF TypeOK, FileTypeOK, TextsSound, SavingKnown, InFlight, Readable

-----------------------------------------------------------------------------
(* The actions.                                                            *)

LEMMA SoundSelection ==
  ASSUME NEW P \in SUBSET Projects, NEW p \in P
  PROVE  /\ [projects |-> P, selected |-> p] \in Config
         /\ Sound([projects |-> P, selected |-> p])
BY DEF Config, Sound

LEMMA ClicksType ==
  ASSUME TypeOK, UserActs PROVE clicks' \in 0..MaxClicks /\ app = "up"
BY ProjectStoreAssumption DEF TypeOK, UserActs

\* load_project of a listed project.
LEMMA LoadNowKeeps ==
  ASSUME IInv, app = "up", NEW p \in projects, NEW extra \in {0, 1},
         LoadNow(p, extra)
  PROVE  /\ FileTypeOK' /\ TextsSound' /\ SavingKnown' /\ saving' \subseteq Config
         /\ currentProject' = p /\ selected' = p
         /\ projects' = projects /\ app' = app
         /\ Memory' \in Config /\ Sound(Memory')
         /\ SaveConfig(1 + extra)
<1>1. /\ currentProject' = p /\ selected' = p /\ projects' = projects /\ app' = app
      /\ SaveConfig(1 + extra)
  BY DEF LoadNow
<1>2. projects \subseteq Projects
  BY DEF IInv, TypeOK
<1>3. Memory' \in Config /\ Sound(Memory')
  BY <1>1, <1>2, SoundSelection DEF Memory
<1>4. 1 + extra \in {1, 2}
  OBVIOUS
<1> QED BY <1>1, <1>3, <1>4, SaveConfigKeeps DEF IInv

LEMMA SelectProjectKeeps ==
  ASSUME IInv, SelectProject PROVE IInv'
<1>1. app = "up" /\ clicks' \in 0..MaxClicks /\ starting' = starting
  BY ClicksType DEF SelectProject, IInv
<1>2. PICK p \in projects, twice \in {0, 1} :
        \/ LoadNow(p, twice) /\ waiting' = waiting
        \/ \E S \in SUBSET Calls :
             /\ waiting' = [k \in Calls |-> IF k \in S THEN p ELSE waiting[k]]
             /\ UNCHANGED <<disk, writes, saving, projects, selected,
                            currentProject, app>>
  BY DEF SelectProject
<1>3. CASE LoadNow(p, twice) /\ waiting' = waiting
  <2>1. /\ FileTypeOK' /\ TextsSound' /\ SavingKnown' /\ saving' \subseteq Config
        /\ currentProject' = p /\ selected' = p
        /\ projects' = projects /\ app' = app /\ Sound(Memory')
    BY <1>1, <1>3, LoadNowKeeps
  <2>2. TypeOK'
    BY <1>1, <1>3, <2>1 DEF IInv, TypeOK
  <2>3. MemorySound'
    BY <1>1, <1>3, <2>1 DEF IInv, MemorySound
  <2> QED BY <1>1, <2>1, <2>2, <2>3 DEF IInv, LaunchSucceeds, DownQuiet
<1>4. CASE \E S \in SUBSET Calls :
             /\ waiting' = [k \in Calls |-> IF k \in S THEN p ELSE waiting[k]]
             /\ UNCHANGED <<disk, writes, saving, projects, selected,
                            currentProject, app>>
  <2>1. FileTypeOK' /\ TextsSound' /\ SavingKnown'
    BY <1>4, NoSaveKeeps DEF IInv
  <2>2. waiting' \in [Calls -> Projects \cup {None}]
    BY <1>4 DEF IInv, TypeOK
  <2>3. TypeOK'
    BY <1>1, <1>4, <2>1, <2>2 DEF IInv, TypeOK
  <2>4. MemorySound'
    BY <1>1, <1>4 DEF IInv, MemorySound, Memory
  <2> QED BY <1>1, <1>4, <2>1, <2>3, <2>4 DEF IInv, LaunchSucceeds, DownQuiet
<1> QED BY <1>2, <1>3, <1>4

LEMMA AddProjectKeeps ==
  ASSUME IInv, AddProject PROVE IInv'
<1>1. /\ app = "up" /\ clicks' \in 0..MaxClicks
      /\ UNCHANGED <<app, waiting, starting>>
  BY ClicksType DEF AddProject, IInv
<1>2. PICK p \in Projects :
        /\ projects' = projects \cup {p}
        /\ \/ /\ currentProject = None
              /\ currentProject' = p /\ selected' = p
              /\ SaveConfig(2)
           \/ /\ currentProject # None
              /\ UNCHANGED <<currentProject, selected>>
              /\ SaveConfig(1)
  BY DEF AddProject
<1>3. /\ projects \subseteq Projects /\ currentProject = selected
      /\ selected # None => selected \in projects
  BY <1>1 DEF IInv, TypeOK, MemorySound, Sound, Memory
<1>4. selected' \in projects' /\ currentProject' = selected' /\ projects' \subseteq Projects
  BY <1>2, <1>3
<1>5. Memory' \in Config /\ Sound(Memory')
  BY <1>4, SoundSelection DEF Memory
<1>6. FileTypeOK' /\ TextsSound' /\ SavingKnown' /\ saving' \subseteq Config
  BY <1>2, <1>5, SaveConfigKeeps DEF IInv
<1>7. TypeOK'
  BY <1>1, <1>4, <1>6 DEF IInv, TypeOK
<1>8. MemorySound'
  BY <1>1, <1>2, <1>4, <1>5 DEF IInv, MemorySound
<1> QED BY <1>1, <1>6, <1>7, <1>8 DEF IInv, LaunchSucceeds, DownQuiet

\* The list that remove_project leaves.
LEMMA RemoveProjectSound ==
  ASSUME IInv, RemoveProject
  PROVE  \E p \in projects :
           /\ projects' = projects \ {p}
           /\ CalmRemoval => \A k \in Calls : waiting[k] # p
           /\ currentProject' = selected'
           /\ IF projects' = {} THEN selected' = None ELSE selected' \in projects'
           /\ selected \in projects' => selected' = selected
           /\ SaveConfig(1) \/ SaveConfig(2)
<1>1. app = "up"
  BY ClicksType DEF RemoveProject, IInv
<1>2. PICK p \in projects :
       /\ CalmRemoval => \A k \in Calls : waiting[k] # p
       /\ projects' = projects \ {p}
       /\ \/ /\ projects' # {} /\ p = currentProject
             /\ \E q \in projects' : currentProject' = q /\ selected' = q
             /\ SaveConfig(2)
          \/ /\ projects' # {} /\ p # currentProject
             /\ UNCHANGED <<currentProject, selected>>
             /\ SaveConfig(1)
          \/ /\ projects' = {}
             /\ currentProject' = None /\ selected' = None
             /\ SaveConfig(1)
  BY DEF RemoveProject
<1>3. currentProject = selected /\ selected \in projects
  BY <1>1, <1>2 DEF IInv, MemorySound, Sound, Memory
<1> QED BY <1>2, <1>3

LEMMA RemoveProjectKeeps ==
  ASSUME CalmRemoval, IInv, RemoveProject PROVE IInv'
<1>1. /\ app = "up" /\ clicks' \in 0..MaxClicks
      /\ UNCHANGED <<app, waiting, starting>>
  BY ClicksType DEF RemoveProject, IInv
<1>2. PICK p \in projects :
        /\ projects' = projects \ {p}
        /\ \A k \in Calls : waiting[k] # p
        /\ currentProject' = selected'
        /\ IF projects' = {} THEN selected' = None ELSE selected' \in projects'
        /\ SaveConfig(1) \/ SaveConfig(2)
  BY RemoveProjectSound
<1>3. projects' \subseteq Projects /\ selected' \in Projects \cup {None}
  BY <1>2 DEF IInv, TypeOK
<1>4. Memory' \in Config /\ Sound(Memory')
  BY <1>2, <1>3 DEF Memory, Config, Sound
<1>5. FileTypeOK' /\ TextsSound' /\ SavingKnown' /\ saving' \subseteq Config
  BY <1>2, <1>4, SaveConfigKeeps DEF IInv
<1>6. TypeOK'
  BY <1>1, <1>2, <1>3, <1>5 DEF IInv, TypeOK
<1>7. MemorySound'
  BY <1>1, <1>2, <1>4 DEF IInv, MemorySound
<1> QED BY <1>1, <1>5, <1>6, <1>7 DEF IInv, LaunchSucceeds, DownQuiet

LEMMA ExitKeeps ==
  ASSUME IInv, Exit PROVE IInv'
<1>1. /\ app' = "down" /\ clicks' \in 0..MaxClicks /\ saving' = {}
      /\ writes' = [i \in Slots |-> NoWrite] /\ disk' = disk
      /\ waiting' = NoCalls /\ starting' = FALSE
      /\ UNCHANGED <<projects, selected, currentProject>>
  BY ClicksType DEF Exit, Lose, IInv
<1>2. InFlight' = {}
  BY <1>1 DEF InFlight, NoWrite
<1>3. FileTypeOK'
  BY <1>1 DEF FileTypeOK, NoWrite, Write, IInv, TypeOK
<1>4. TypeOK'
  BY <1>1, <1>3 DEF IInv, TypeOK, NoCalls
<1> QED BY <1>1, <1>2, <1>4
        DEF IInv, LaunchSucceeds, TextsSound, Readable, MemorySound,
            SavingKnown,
            DownQuiet, Settled

LEMMA LaunchKeeps ==
  ASSUME IInv, Launch
  PROVE  IInv'
<1>1. /\ app = "down" /\ UNCHANGED <<waiting, clicks>>
      /\ projects' = Loaded.projects
      /\ selected' = Loaded.selected /\ currentProject' = Loaded.selected
      /\ IF Readable THEN UNCHANGED <<disk, writes, saving>> ELSE SaveConfig(1)
  BY DEF Launch
<1>2. Loaded \in Config /\ Sound(Loaded)
  BY BlankSound, Constants DEF Loaded, Readable, IInv, TextsSound
<1>3. /\ projects' \subseteq Projects /\ selected' \in Projects \cup {None}
      /\ Memory' = Loaded
  BY <1>1, <1>2 DEF Memory, Config
<1>4. FileTypeOK' /\ TextsSound' /\ SavingKnown' /\ saving' \subseteq Config
  BY <1>1, <1>2, <1>3, SaveConfigKeeps, NoSaveKeeps DEF IInv
<1>5. selected' \in projects' \cup {None}
  BY <1>1, <1>2 DEF Sound
<1>6. app' = "up" /\ starting' = TRUE
  BY <1>5 DEF Launch
<1>7. TypeOK'
  BY <1>1, <1>3, <1>4, <1>6 DEF IInv, TypeOK
<1>8. MemorySound'
  BY <1>1, <1>2, <1>3, <1>6 DEF MemorySound, NoCalls, IInv, DownQuiet
<1> QED BY <1>4, <1>6, <1>7, <1>8 DEF IInv, LaunchSucceeds, DownQuiet

LEMMA StartupLoadsKeeps ==
  ASSUME IInv, StartupLoads PROVE IInv'
<1>1. app = "up" /\ starting' = FALSE /\ UNCHANGED <<waiting, clicks>>
  BY DEF StartupLoads
<1>2. CASE currentProject # None /\ LoadNow(currentProject, 0)
  <2>1. currentProject \in projects
    BY <1>1, <1>2 DEF IInv, MemorySound, Sound, Memory
  <2>2. /\ FileTypeOK' /\ TextsSound' /\ SavingKnown' /\ saving' \subseteq Config
        /\ currentProject' = currentProject /\ selected' = currentProject
        /\ projects' = projects /\ app' = app /\ Sound(Memory')
    BY <1>1, <1>2, <2>1, LoadNowKeeps
  <2>3. TypeOK' /\ MemorySound'
    BY <1>1, <2>2 DEF IInv, TypeOK, MemorySound
  <2> QED BY <1>1, <2>2, <2>3 DEF IInv, LaunchSucceeds, DownQuiet
<1>3. CASE UNCHANGED <<disk, writes, saving, projects, selected, currentProject, app>>
  <2>1. FileTypeOK' /\ TextsSound' /\ SavingKnown'
    BY <1>3, NoSaveKeeps DEF IInv
  <2>2. TypeOK' /\ MemorySound'
    BY <1>1, <1>3, <2>1 DEF IInv, TypeOK, MemorySound, Memory
  <2> QED BY <1>1, <1>3, <2>1, <2>2 DEF IInv, LaunchSucceeds, DownQuiet
<1> QED BY <1>2, <1>3 DEF StartupLoads

LEMMA KillserverReturnsKeeps ==
  ASSUME IInv, KillserverReturns PROVE IInv'
<1>1. app = "up" /\ UNCHANGED <<starting, clicks>>
  BY DEF KillserverReturns
<1>2. PICK k \in Calls : /\ waiting[k] # None
                        /\ waiting' = [waiting EXCEPT ![k] = None]
                        /\ LoadNow(waiting[k], 0)
  BY DEF KillserverReturns
<1>3. waiting[k] \in projects
  BY <1>1, <1>2 DEF IInv, MemorySound
<1>4. /\ FileTypeOK' /\ TextsSound' /\ SavingKnown' /\ saving' \subseteq Config
      /\ currentProject' = waiting[k] /\ selected' = waiting[k]
      /\ projects' = projects /\ app' = app /\ Sound(Memory')
  BY <1>1, <1>2, <1>3, LoadNowKeeps
<1>5. TypeOK'
  BY <1>1, <1>2, <1>3, <1>4 DEF IInv, TypeOK
<1>6. MemorySound'
  BY <1>1, <1>2, <1>4 DEF IInv, TypeOK, MemorySound
<1> QED BY <1>1, <1>4, <1>5, <1>6 DEF IInv, LaunchSucceeds, DownQuiet

\* What a step of a write does to the file.
LEMMA WriteStepFile ==
  ASSUME IInv, WriteStep
  PROVE  \E i \in InFlight :
           \/ /\ writes[i].io = "open" /\ disk' = Empty
              /\ writes' = [writes EXCEPT ![i].io = "write"]
              /\ InFlight' = InFlight
           \/ /\ writes[i].io = "write"
              /\ disk' = writes[i].text \/ (disk' = Garbled /\ disk \notin {Empty, writes[i].text})
              /\ writes' = [writes EXCEPT ![i] = NoWrite]
              /\ InFlight' = InFlight \ {i}
<1>0. writes \in [Slots -> Write]
  BY DEF IInv, TypeOK, FileTypeOK
<1>1. PICK i \in Slots : OpenFile(i) \/ WriteText(i)
  BY DEF WriteStep
<1>2. CASE OpenFile(i)
  <2>1. i \in InFlight /\ InFlight' = InFlight
    BY <1>0, <1>2 DEF OpenFile, InFlight, Write
  <2> QED BY <1>2, <2>1 DEF OpenFile
<1>3. CASE WriteText(i)
  <2>1. i \in InFlight /\ InFlight' = InFlight \ {i}
    BY <1>0, <1>3 DEF WriteText, InFlight, NoWrite, Write
  <2>2. disk' = writes[i].text \/ (disk' = Garbled /\ disk \notin {Empty, writes[i].text})
    BY <1>3 DEF WriteText, Overlays
  <2> QED BY <1>3, <2>1, <2>2 DEF WriteText
<1> QED BY <1>1, <1>2, <1>3

LEMMA FileStepKeeps ==
  ASSUME IInv, FileStep PROVE IInv'
<1>0. /\ app \in {"up", "failed"}
      /\ saving' = IF InFlight' = {} THEN {} ELSE saving
      /\ UNCHANGED <<app, projects, selected, currentProject, waiting, starting,
                     clicks>>
  BY DEF FileStep
<1>1. PICK i \in InFlight :
        \/ /\ writes[i].io = "open" /\ disk' = Empty
           /\ writes' = [writes EXCEPT ![i].io = "write"]
           /\ InFlight' = InFlight
        \/ /\ writes[i].io = "write"
           /\ disk' = writes[i].text \/ (disk' = Garbled /\ disk \notin {Empty, writes[i].text})
           /\ writes' = [writes EXCEPT ![i] = NoWrite]
           /\ InFlight' = InFlight \ {i}
  BY WriteStepFile DEF FileStep
<1>2. /\ writes \in [Slots -> Write] /\ InFlight \subseteq Slots
      /\ \A k \in InFlight : writes[k].text \in Config /\ Sound(writes[k].text)
      /\ \A k \in InFlight : writes[k].text \in saving
      /\ saving \subseteq Config
  BY Constants DEF IInv, TypeOK, FileTypeOK, TextsSound, SavingKnown, InFlight
<1>3. \A k \in InFlight' : k \in InFlight /\ writes'[k].text = writes[k].text
  BY <1>1, <1>2 DEF Write
<1>4. FileTypeOK'
  <2>1. writes' \in [Slots -> Write]
    BY <1>1, <1>2 DEF Write, NoWrite
  <2>2. disk' \in Values \cup {Missing, Empty, Garbled}
    BY <1>1, <1>2, Constants
  <2>3. \A k \in Slots : writes'[k].io # "idle" => writes'[k].text \in Values
    BY <1>2, <1>3, Constants DEF InFlight
  <2> QED BY <2>1, <2>2, <2>3 DEF FileTypeOK
<1>5. TextsSound'
  BY <1>1, <1>2, <1>3, Constants DEF TextsSound, Readable
<1>6. SavingKnown'
  <2>1. \A k \in InFlight' : writes'[k].text \in saving'
    BY <1>0, <1>2, <1>3
  <2>2. ASSUME NEW k \in InFlight', writes'[k].io = "write",
               NEW m \in Config, saving' = {m}
        PROVE  disk' \in {Empty, m}
    <3>1. saving = {m}
      BY <1>0, <2>2
    <3>2. writes[i].text = m
      BY <1>2, <3>1
    <3>3. writes[i].io = "write" => disk \in {Empty, m}
      BY <3>1, <1>1 DEF IInv, SavingKnown
    <3> QED BY <1>1, <3>2, <3>3
  <2> QED BY <1>0, <2>1, <2>2 DEF SavingKnown
<1>7. TypeOK' /\ MemorySound'
  BY <1>0, <1>2, <1>4 DEF IInv, TypeOK, MemorySound, Memory
<1> QED BY <1>0, <1>4, <1>5, <1>6, <1>7 DEF IInv, LaunchSucceeds, DownQuiet

LEMMA InitHolds ==
  ASSUME Init PROVE IInv
<1>1. writes = [i \in Slots |-> NoWrite] /\ InFlight = {}
  BY DEF Init, FileInit, InFlight, NoWrite
<1>2. FileTypeOK
  BY <1>1 DEF Init, FileInit, FileTypeOK, Write, NoWrite
<1>3. TypeOK
  <2>1. clicks \in 0..MaxClicks /\ saving \subseteq Config
    BY ProjectStoreAssumption DEF Init
  <2>2. waiting \in [Calls -> Projects \cup {None}]
    BY DEF Init, NoCalls
  <2> QED BY <1>2, <2>1, <2>2 DEF Init, TypeOK
<1> QED BY <1>1, <1>3 DEF Init, IInv, LaunchSucceeds, TextsSound, MemorySound,
                       SavingKnown, DownQuiet, Settled

LEMMA StutterKeeps ==
  ASSUME IInv, UNCHANGED vars PROVE IInv'
BY DEF IInv, vars, TypeOK, FileTypeOK, LaunchSucceeds, TextsSound, MemorySound,
       SavingKnown, DownQuiet, Readable, InFlight, Settled, Memory

LEMMA NextKeeps ==
  ASSUME CalmRemoval, IInv, [Next]_vars PROVE IInv'
BY SelectProjectKeeps, AddProjectKeeps, RemoveProjectKeeps, ExitKeeps,
   LaunchKeeps,
   StartupLoadsKeeps, KillserverReturnsKeeps, FileStepKeeps, StutterKeeps
   DEF Next

-----------------------------------------------------------------------------
\* Every reachable state is well typed, every text that is or may become
\* config.json selects a project it lists, and so does the list in memory.
THEOREM ListsSound == ASSUME CalmRemoval PROVE Spec => []IInv
BY InitHolds, NextKeeps, PTL DEF Spec

\* Every reachable state is well typed.
THEOREM TypeCorrect == ASSUME CalmRemoval PROVE Spec => []TypeOK
<1>1. IInv => TypeOK
  BY DEF IInv
<1> QED BY <1>1, ListsSound, PTL

\* main.js:68 never throws: no order of additions, removals, switches that
\* wait, overlapping writes, exits and crashes makes every later launch fail.
THEOREM NoLaunchFails == ASSUME CalmRemoval PROVE Spec => []LaunchSucceeds
<1>1. IInv => LaunchSucceeds
  BY DEF IInv
<1> QED BY <1>1, ListsSound, PTL

-----------------------------------------------------------------------------
(* The refinement: what ProjectList calls a list, and what each action does*)
(* to it.                                                                  *)

L == IF app = "up" THEN Memory ELSE Loaded

pvars == <<L, Durable, saving>>

LEMMA LoadedSound ==
  ASSUME IInv PROVE Loaded \in Config /\ Sound(Loaded)
BY BlankSound, Constants DEF Loaded, Readable, IInv, TextsSound

\* writeAsJson is Save of the promise.
LEMMA SaveMaps ==
  ASSUME IInv, NEW n \in {1, 2}, SaveConfig(n), app' = "up"
  PROVE  /\ L' = Memory'
         /\ Durable' = Durable \cup {Memory', Blank}
         /\ saving' = saving \cup {Memory'}
<1>1. writes \in [Slots -> Write]
  BY DEF IInv, TypeOK, FileTypeOK
<1>2. PICK S \in SUBSET (Slots \ InFlight) :
        /\ S # {}
        /\ writes' = [i \in Slots |-> IF i \in S THEN [io |-> "open", text |-> Memory']
                                      ELSE writes[i]]
        /\ InFlight' = InFlight \cup S
  BY <1>1, SavesSlots DEF SaveConfig
<1>3. disk' = disk /\ saving' = saving \cup {Memory'}
  BY DEF SaveConfig
<1>4. {writes'[i].text : i \in InFlight'} = {writes[i].text : i \in InFlight} \cup {Memory'}
  BY <1>2 DEF InFlight
<1>5. Loaded' = Loaded /\ ~Settled'
  BY <1>2, <1>3 DEF Loaded, Readable, Settled
<1> QED BY <1>3, <1>4, <1>5 DEF Durable, L

\* A step that touches neither the list nor the file.
LEMMA NothingMaps ==
  ASSUME UNCHANGED <<disk, writes, saving, projects, selected, app>>
  PROVE  UNCHANGED pvars
BY DEF pvars, L, Memory, Loaded, Readable, Durable, InFlight, Settled

LEMMA LoadNowMaps ==
  ASSUME IInv, app = "up", NEW p \in projects, NEW extra \in {0, 1},
         LoadNow(p, extra)
  PROVE  Promise!Select(p)
<1>1. /\ selected' = p /\ projects' = projects /\ app' = app
      /\ SaveConfig(1 + extra) /\ 1 + extra \in {1, 2}
  BY LoadNowKeeps
<1>2. L' = Memory' /\ Durable' = Durable \cup {Memory', Blank}
      /\ saving' = saving \cup {Memory'}
  BY <1>1, SaveMaps
<1>3. L = Memory /\ p \in L.projects /\ Memory' = [L EXCEPT !.selected = p]
  BY <1>1 DEF L, Memory
<1> QED BY <1>2, <1>3 DEF Promise!Select, Promise!Save, Promise!Blank, L, Blank

LEMMA SelectProjectMaps ==
  ASSUME IInv, SelectProject PROVE [Promise!Next]_pvars
<1>1. app = "up"
  BY ClicksType DEF SelectProject, IInv
<1>2. PICK p \in projects, twice \in {0, 1} :
        LoadNow(p, twice)
          \/ UNCHANGED <<disk, writes, saving, projects, selected, app>>
  BY DEF SelectProject
<1>3. CASE LoadNow(p, twice)
  <2>1. Promise!Select(p) /\ p \in Projects
    BY <1>1, <1>3, LoadNowMaps DEF IInv, TypeOK
  <2> QED BY <2>1 DEF Promise!Next
<1>4. CASE UNCHANGED <<disk, writes, saving, projects, selected, app>>
  BY <1>4, NothingMaps
<1> QED BY <1>2, <1>3, <1>4

LEMMA StartupLoadsMaps ==
  ASSUME IInv, StartupLoads PROVE [Promise!Next]_pvars
<1>1. app = "up"
  BY DEF StartupLoads
<1>2. CASE currentProject # None /\ LoadNow(currentProject, 0)
  <2>1. currentProject \in projects /\ currentProject \in Projects
    BY <1>1, <1>2 DEF IInv, MemorySound, Sound, Memory, TypeOK
  <2>2. Promise!Select(currentProject)
    BY <1>1, <1>2, <2>1, LoadNowMaps
  <2> QED BY <2>1, <2>2 DEF Promise!Next
<1>3. CASE UNCHANGED <<disk, writes, saving, projects, selected, app>>
  BY <1>3, NothingMaps
<1> QED BY <1>2, <1>3 DEF StartupLoads

LEMMA KillserverReturnsMaps ==
  ASSUME IInv, KillserverReturns PROVE [Promise!Next]_pvars
<1>1. app = "up"
  BY DEF KillserverReturns
<1>2. PICK k \in Calls : waiting[k] # None /\ LoadNow(waiting[k], 0)
  BY DEF KillserverReturns
<1>3. waiting[k] \in projects /\ waiting[k] \in Projects
  BY <1>1, <1>2 DEF IInv, MemorySound, TypeOK
<1>4. Promise!Select(waiting[k])
  BY <1>1, <1>2, <1>3, LoadNowMaps
<1> QED BY <1>3, <1>4 DEF Promise!Next

LEMMA AddProjectMaps ==
  ASSUME IInv, AddProject PROVE [Promise!Next]_pvars
<1>1. app = "up" /\ app' = "up" /\ currentProject = selected
  BY ClicksType DEF AddProject, IInv, MemorySound
<1>2. PICK p \in Projects :
        /\ projects' = projects \cup {p}
        /\ selected' = IF selected = None THEN p ELSE selected
        /\ SaveConfig(1) \/ SaveConfig(2)
  BY <1>1 DEF AddProject
<1>3. L' = Memory' /\ Durable' = Durable \cup {Memory', Blank}
      /\ saving' = saving \cup {Memory'}
  BY <1>1, <1>2, SaveMaps
<1>4. /\ L.projects = projects /\ L.selected = selected
      /\ Memory' = [projects |-> L.projects \cup {p},
                    selected |-> IF L.selected = None THEN p ELSE L.selected]
  BY <1>1, <1>2 DEF L, Memory
<1>5. Promise!Add(p)
  BY <1>3, <1>4 DEF Promise!Add, Promise!Save, Promise!Blank, L, Blank
<1> QED BY <1>5 DEF Promise!Next

LEMMA RemoveProjectMaps ==
  ASSUME IInv, RemoveProject PROVE [Promise!Next]_pvars
<1>1. app = "up" /\ app' = "up"
  BY ClicksType DEF RemoveProject, IInv
<1>2. PICK p \in projects :
        /\ projects' = projects \ {p}
        /\ IF projects' = {} THEN selected' = None ELSE selected' \in projects'
        /\ selected \in projects' => selected' = selected
        /\ SaveConfig(1) \/ SaveConfig(2)
  BY RemoveProjectSound
<1>3. L' = Memory' /\ Durable' = Durable \cup {Memory', Blank}
      /\ saving' = saving \cup {Memory'}
  BY <1>1, <1>2, SaveMaps
<1>4. /\ L.projects = projects /\ L.selected = selected
      /\ Memory' = [projects |-> L.projects \ {p}, selected |-> selected']
  BY <1>1, <1>2 DEF L, Memory
<1>5. /\ projects' = L.projects \ {p}
      /\ selected' \in (L.projects \ {p}) \cup {None}
      /\ selected' = None <=> L.projects \ {p} = {}
      /\ L.selected \in L.projects \ {p} => selected' = L.selected
  BY <1>2, <1>4, ProjectStoreAssumption DEF IInv, TypeOK
<1>6. Promise!Save([projects |-> L.projects \ {p}, selected |-> selected'])
  BY <1>3, <1>4 DEF Promise!Save, Promise!Blank, L, Blank
<1>7. Promise!Remove(p) /\ p \in Projects
  BY <1>5, <1>6 DEF Promise!Remove, L, IInv, TypeOK
<1> QED BY <1>7 DEF Promise!Next

LEMMA ExitMaps ==
  ASSUME IInv, Exit PROVE [Promise!Next]_pvars
<1>1. app' = "down" /\ disk' = disk /\ saving' = {} /\ InFlight' = {}
  BY DEF Exit, Lose, InFlight, NoWrite
<1>2. L' = Loaded /\ Loaded' = Loaded
  BY <1>1 DEF L, Loaded, Readable
<1>3. Durable' = {Loaded} /\ Loaded \in Durable
  BY <1>1, <1>2 DEF Durable, Settled
<1>4. Promise!Exit
  BY <1>1, <1>2, <1>3 DEF Promise!Exit, L
<1> QED BY <1>4 DEF Promise!Next

LEMMA LaunchMaps ==
  ASSUME IInv, Launch PROVE [Promise!Next]_pvars
<1>1. /\ app = "down" /\ Settled
      /\ projects' = Loaded.projects /\ selected' = Loaded.selected
      /\ IF Readable THEN UNCHANGED <<disk, writes, saving>> ELSE SaveConfig(1)
  BY DEF Launch, IInv, DownQuiet
<1>2. Loaded \in Config /\ Sound(Loaded)
  BY LoadedSound
<1>3. app' = "up"
  BY <1>1, <1>2 DEF Launch, Sound
<1>4. L = Loaded /\ L' = Loaded
  BY <1>1, <1>2, <1>3 DEF L, Memory, Config
<1>5. CASE Readable
  <2>1. UNCHANGED <<Loaded, Durable, saving>>
    BY <1>1, <1>5 DEF Loaded, Readable, Durable, InFlight, Settled
  <2> QED BY <1>4, <2>1 DEF pvars
<1>6. CASE ~Readable
  <2>1. L = Blank /\ Durable = {Blank}
    BY <1>1, <1>4, <1>6 DEF Loaded, Durable, Settled
  <2>2. L' = Memory' /\ Durable' = Durable \cup {Memory', Blank}
        /\ saving' = saving \cup {Memory'}
    BY <1>1, <1>3, <1>6, SaveMaps
  <2>3. Promise!Reset
    BY <1>4, <2>1, <2>2 DEF Promise!Reset, Promise!Save, Promise!Blank, L, Blank
  <2> QED BY <2>3 DEF Promise!Next
<1> QED BY <1>5, <1>6

LEMMA FileStepMaps ==
  ASSUME IInv, FileStep PROVE [Promise!Next]_pvars
<1>0. /\ app = "up" /\ app' = "up"
      /\ saving' = IF InFlight' = {} THEN {} ELSE saving
      /\ L = Memory /\ L' = Memory
  BY DEF FileStep, IInv, LaunchSucceeds, L, Memory
<1>1. PICK i \in InFlight :
        \/ /\ writes[i].io = "open" /\ disk' = Empty
           /\ writes' = [writes EXCEPT ![i].io = "write"]
           /\ InFlight' = InFlight
        \/ /\ writes[i].io = "write"
           /\ disk' = writes[i].text \/ (disk' = Garbled /\ disk \notin {Empty, writes[i].text})
           /\ writes' = [writes EXCEPT ![i] = NoWrite]
           /\ InFlight' = InFlight \ {i}
  BY WriteStepFile DEF FileStep
<1>2. /\ writes \in [Slots -> Write] /\ InFlight \subseteq Slots
      /\ \A k \in InFlight : writes[k].text \in Config /\ writes[k].text \in saving
  BY Constants DEF IInv, TypeOK, FileTypeOK, SavingKnown, InFlight
<1>3. saving # {} /\ Blank \in Durable
  BY <1>1, <1>2 DEF Durable, Settled
<1>4. \A k \in InFlight' : k \in InFlight /\ writes'[k].text = writes[k].text
  BY <1>1, <1>2 DEF Write
<1>5. Loaded' \in {Blank, writes[i].text}
  BY <1>1, <1>2, Constants DEF Loaded, Readable
<1>6. Durable' \in (SUBSET Durable) \ {{}}
  <2>1. \A k \in InFlight' : writes'[k].text \in Durable
    BY <1>4 DEF Durable
  <2>2. Loaded' \in Durable /\ Loaded' \in Durable'
    BY <1>3, <1>5 DEF Durable
  <2> QED BY <1>3, <2>1, <2>2 DEF Durable
<1>7. CASE InFlight' # {}
  <2>1. Promise!Advance
    BY <1>0, <1>3, <1>6, <1>7 DEF Promise!Advance, L
  <2> QED BY <2>1 DEF Promise!Next
<1>8. CASE InFlight' = {}
  <2>1. writes[i].io = "write" /\ saving' = {}
    BY <1>0, <1>1, <1>8
  <2>2. Durable' = {Loaded'} /\ Loaded' \in Durable
    BY <1>6, <1>8 DEF Durable, Settled
  <2>3. ASSUME saving = {L} PROVE Loaded' = L
    <3>1. writes[i].text = L /\ L \in Config
      BY <1>2, <2>3
    <3>2. disk \in {Empty, L}
      BY <2>1, <2>3, <3>1 DEF IInv, SavingKnown
    <3>3. disk' = L
      BY <1>1, <2>1, <3>1, <3>2
    <3> QED BY <3>1, <3>3, Constants DEF Loaded, Readable
  <2>4. Promise!Settle
    BY <1>0, <1>3, <2>1, <2>2, <2>3 DEF Promise!Settle, L
  <2> QED BY <2>4 DEF Promise!Next
<1> QED BY <1>7, <1>8

LEMMA InitMaps ==
  ASSUME Init PROVE Promise!Init
<1>1. IInv /\ InFlight = {} /\ app = "down" /\ saving = {}
  BY InitHolds DEF Init, FileInit, InFlight, NoWrite
<1>2. L = Loaded /\ L \in Config /\ Sound(L)
  BY <1>1, LoadedSound DEF L
<1>3. Durable = {L}
  BY <1>1, <1>2 DEF Durable, Settled
<1> QED BY <1>1, <1>2, <1>3
        DEF Promise!Init, Promise!List, Promise!Sound, L, Config, Sound

\* config.json keeps the promise of ProjectList: the list changes by the user's
\* actions only, an exit leaves the list on disk, one being saved or none, and
\* a list saved without an overlap is there at the next launch.
THEOREM StoreKeepsPromise == ASSUME CalmRemoval PROVE Spec => ListKept
<1>1. IInv /\ [Next]_vars => [Promise!Next]_pvars
  <2>1. UNCHANGED vars => UNCHANGED pvars
    BY NothingMaps DEF vars
  <2> QED BY <2>1, SelectProjectMaps, AddProjectMaps, RemoveProjectMaps,
             ExitMaps,
             LaunchMaps, StartupLoadsMaps, KillserverReturnsMaps,
             FileStepMaps DEF Next
<1>2. Init => Promise!Init
  BY InitMaps
<1> QED BY <1>1, <1>2, ListsSound, PTL DEF Spec, ListKept, Promise!Spec, pvars,
           L

=============================================================================
